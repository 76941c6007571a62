-------------------------------- MODULE Schedule --------------------------------
(* Schedules: the scheduler that turns one schedule into runs                 *)
(* (services/schedule/scheduler.go), its CRUD (services/schedule/service.go)  *)
(* and its two files (repository/schedule.go), with the end of the runs as    *)
(* the job service reports it (SetGraphRunState, notifyJobDone).              *)
(*                                                                            *)
(* A trigger, the record of its outcome and the record of the run's end are   *)
(* goroutines of their own.  The last two read the schedule, change it and    *)
(* save it under a lock of the schedule that the users' requests do not take; *)
(* a save of either merges with the file under the repository's lock.         *)
(* Which minute a cron expression fires in, and the times, are left out.      *)
EXTENDS Naturals, FiniteSets

CONSTANTS Runs      \* the runs triggered so far and to come: bounds the triggers

VARIABLES
    schDef,     \* the definition file: its MaxConcurrent, 0 when there is none
    schState,   \* the state file
    slots,      \* runningCount
    trig,       \* the trigger of each run
    graphJob,   \* the run's job: "none", "live", "done"
    mark,       \* MarkDone of each run
    taskLock,   \* getTaskLock: the run whose record holds it
    held,       \* what that one has read
    notified,   \* notifiedJobs
    ask,        \* the user's request between its read and its write
    schSeen     \* history: the user's last toggle, records saved, whether a run
                \*          was resumed, an end lost, the schedule deleted, the
                \*          process restarted (at most one of them: Calm)

schVars == <<schDef, schState, slots, trig, graphJob, mark, taskLock, held, notified, ask, schSeen>>

NoState == [there |-> FALSE, enabled |-> FALSE, last |-> "none", status |-> "none", count |-> 0]
Terminal == {"completed", "failed"}      \* any status a run ends with is "completed" here
Calm == ~schSeen.resumed /\ ~schSeen.lost /\ ~schSeen.deleted /\ ~schSeen.restarted
Idle == [pc |-> "none", max |-> 0, job |-> FALSE, err |-> FALSE]

\* Create.
Init ==
    /\ schDef \in {1, 2}
    /\ schState = [NoState EXCEPT !.there = TRUE, !.enabled = TRUE]
    /\ slots = 0
    /\ trig = [r \in Runs |-> Idle]
    /\ graphJob = [r \in Runs |-> "none"]
    /\ mark = [r \in Runs |-> "none"]
    /\ taskLock = "none"
    /\ held = NoState
    /\ notified = {}
    /\ ask = "none"
    /\ schSeen = [wanted |-> TRUE, records |-> 0, resumed |-> FALSE, lost |-> FALSE, deleted |-> FALSE, restarted |-> FALSE]

---------------------------------------------------------------------------
(* Triggers                                                                 *)

\* tick for a schedule that is enabled, ScheduleRun for any.
ReadTask(r) ==
    /\ trig[r].pc = "none"
    /\ schDef # 0
    /\ trig' = [trig EXCEPT ![r] = [Idle EXCEPT !.pc = "asked", !.max = schDef]]
    /\ UNCHANGED <<schDef, schState, slots, graphJob, mark, taskLock, held, notified, ask, schSeen>>

\* tryTrigger and RunNow: a slot, or nothing is recorded.
TakeSlot(r) ==
    /\ trig[r].pc = "asked"
    /\ IF slots >= trig[r].max
       THEN trig' = [trig EXCEPT ![r] = Idle] /\ UNCHANGED slots
       ELSE trig' = [trig EXCEPT ![r].pc = "triggering"] /\ slots' = slots + 1
    /\ UNCHANGED <<schDef, schState, graphJob, mark, taskLock, held, notified, ask, schSeen>>

Decr == slots' = IF slots > 0 THEN slots - 1 ELSE 0

\* triggerGraphSchedule fails, before it has created a job or after, or panics.
TriggerFails(r) ==
    /\ trig[r].pc = "triggering"
    /\ Decr
    /\ \E created \in BOOLEAN :
          /\ trig' = [trig EXCEPT ![r].pc = "record", ![r].err = TRUE, ![r].job = created]
          /\ graphJob' = [graphJob EXCEPT ![r] = IF created THEN "done" ELSE "none"]
    /\ UNCHANGED <<schDef, schState, mark, taskLock, held, notified, ask, schSeen>>

TriggerStarts(r) ==
    /\ trig[r].pc = "triggering"
    /\ trig' = [trig EXCEPT ![r].pc = "record", ![r].job = TRUE]
    /\ graphJob' = [graphJob EXCEPT ![r] = "live"]
    /\ UNCHANGED <<schDef, schState, slots, mark, taskLock, held, notified, ask, schSeen>>

TakeLock(r) == taskLock = "none" /\ taskLock' = r /\ held' = schState

\* Mutant: the saved state is the one that was read.
BlindSaveState(new) == schState' = [new EXCEPT !.there = TRUE]
\* SaveState: whether it is enabled comes from the file.
SaveState(new) == schState' = [new EXCEPT !.there = TRUE, !.enabled = schState.there /\ schState.enabled]

\* RecordTrigger, up to its read.
RecordRead(r) ==
    /\ trig[r].pc = "record"
    /\ IF schDef = 0
       THEN trig' = [trig EXCEPT ![r].pc = "over"] /\ UNCHANGED <<taskLock, held>>
       ELSE trig' = [trig EXCEPT ![r].pc = "save"] /\ TakeLock(r)
    /\ UNCHANGED <<schDef, schState, slots, graphJob, mark, notified, ask, schSeen>>

RecordSave(r) ==
    /\ trig[r].pc = "save"
    /\ LET failed == [held EXCEPT !.count = @ + 1, !.status = "failed",
                                  !.last = IF trig[r].job THEN r ELSE @]
           done == held.last = r /\ held.status \in Terminal
           started == [held EXCEPT !.count = @ + 1, !.last = r,
                                   !.status = IF done THEN @ ELSE "running"]
       IN SaveState(IF trig[r].err THEN failed ELSE started)
    /\ trig' = [trig EXCEPT ![r].pc = "over"]
    /\ taskLock' = "none" /\ held' = NoState
    /\ schSeen' = [schSeen EXCEPT !.records = @ + 1]
    /\ UNCHANGED <<schDef, slots, graphJob, mark, notified, ask>>

---------------------------------------------------------------------------
(* The end of a run                                                         *)

\* Mutant: every terminal write of the run is reported.
NotifyAlways(r) == mark' = [mark EXCEPT ![r] = "due"] /\ notified' = notified \cup {r}
\* notifyJobDone.
Notify(r) ==
    IF r \in notified THEN UNCHANGED <<mark, notified>>
    ELSE mark' = [mark EXCEPT ![r] = "due"] /\ notified' = notified \cup {r}

\* SetGraphRunState with a terminal status; an end that cannot be saved is not reported.
RunEnds(r) ==
    /\ graphJob[r] = "live"
    /\ graphJob' = [graphJob EXCEPT ![r] = "done"]
    /\ \/ Notify(r) /\ UNCHANGED schSeen
       \/ /\ Calm
          /\ schSeen' = [schSeen EXCEPT !.lost = TRUE]
          /\ UNCHANGED <<mark, notified>>
    /\ UNCHANGED <<schDef, schState, slots, trig, taskLock, held, ask>>

\* StopRun writes the terminal status of a run that had settled.
RunEndsAgain(r) ==
    /\ graphJob[r] = "done" /\ r \in notified
    /\ mark[r] = "over"
    /\ Notify(r)
    /\ UNCHANGED <<schDef, schState, slots, trig, graphJob, taskLock, held, ask, schSeen>>

\* ResumeRun: the run reports its next end as well.
RunResumes(r) ==
    /\ graphJob[r] = "done" /\ mark[r] \in {"over", "dead"}
    /\ Calm
    /\ graphJob' = [graphJob EXCEPT ![r] = "live"]
    /\ notified' = notified \ {r}
    /\ mark' = [mark EXCEPT ![r] = "none"]
    /\ schSeen' = [schSeen EXCEPT !.resumed = TRUE]
    /\ UNCHANGED <<schDef, schState, slots, trig, taskLock, held, ask>>

\* MarkDone.
MarkDecr(r) ==
    /\ mark[r] = "due"
    /\ Decr
    /\ mark' = [mark EXCEPT ![r] = "lock"]
    /\ UNCHANGED <<schDef, schState, trig, graphJob, taskLock, held, notified, ask, schSeen>>

MarkRead(r) ==
    /\ mark[r] = "lock"
    /\ IF schDef = 0
       THEN mark' = [mark EXCEPT ![r] = "over"] /\ UNCHANGED <<taskLock, held>>
       ELSE mark' = [mark EXCEPT ![r] = "save"] /\ TakeLock(r)
    /\ UNCHANGED <<schDef, schState, slots, trig, graphJob, notified, ask, schSeen>>

MarkSave(r) ==
    /\ mark[r] = "save"
    /\ SaveState([held EXCEPT !.status = IF held.last \in {"none", r} THEN "completed" ELSE @])
    /\ mark' = [mark EXCEPT ![r] = "over"]
    /\ taskLock' = "none" /\ held' = NoState
    /\ UNCHANGED <<schDef, slots, trig, graphJob, notified, ask, schSeen>>

---------------------------------------------------------------------------
(* The users                                                                *)

\* Toggle and Update read the schedule first; what they write does not come from it.
UserReads ==
    /\ ask = "none"
    /\ schDef # 0
    /\ ask' \in {"toggle", "definition", "activation"}
    /\ UNCHANGED <<schDef, schState, slots, trig, graphJob, mark, taskLock, held, notified, schSeen>>

SetEnabled(on) ==
    /\ schState' = [schState EXCEPT !.there = TRUE, !.enabled = on]
    /\ schSeen' = [schSeen EXCEPT !.wanted = on]

\* ToggleEnabled.
UserToggles ==
    /\ ask = "toggle"
    /\ ask' = "none"
    /\ SetEnabled(~schState.enabled)
    /\ UNCHANGED <<schDef, slots, trig, graphJob, mark, taskLock, held, notified>>

\* SaveDefinition, and UpdateActivation when the update asks for it.
UserUpdates ==
    /\ ask = "definition"
    /\ ask' \in {"none", "activation"}
    /\ schDef' \in {1, 2}
    /\ UNCHANGED <<schState, slots, trig, graphJob, mark, taskLock, held, notified, schSeen>>

UserActivates ==
    /\ ask = "activation"
    /\ ask' = "none"
    /\ \E on \in BOOLEAN : SetEnabled(on)
    /\ UNCHANGED <<schDef, slots, trig, graphJob, mark, taskLock, held, notified>>

UserDeletes ==
    /\ schDef # 0
    /\ Calm
    /\ schDef' = 0
    /\ schState' = NoState
    /\ schSeen' = [schSeen EXCEPT !.wanted = FALSE, !.deleted = TRUE]
    /\ UNCHANGED <<slots, trig, graphJob, mark, taskLock, held, notified, ask>>

\* The counters are memory, the runs end with the process and report nothing.
Restart ==
    /\ Calm
    /\ \E r \in Runs : trig[r].pc # "none"
    /\ slots' = 0
    /\ trig' = [r \in Runs |-> IF trig[r].pc \in {"none", "asked"} THEN Idle ELSE [trig[r] EXCEPT !.pc = "over"]]
    /\ graphJob' = [r \in Runs |-> IF graphJob[r] = "live" THEN "done" ELSE graphJob[r]]
    /\ mark' = [r \in Runs |-> IF trig[r].pc = "none" THEN "none" ELSE "dead"]
    /\ taskLock' = "none" /\ held' = NoState
    /\ notified' = {}
    /\ ask' = "none"
    /\ schSeen' = [schSeen EXCEPT !.restarted = TRUE]
    /\ UNCHANGED <<schDef, schState>>

Next ==
    \/ \E r \in Runs :
          \/ ReadTask(r) \/ TakeSlot(r) \/ TriggerFails(r) \/ TriggerStarts(r)
          \/ RecordRead(r) \/ RecordSave(r)
          \/ RunEnds(r) \/ RunEndsAgain(r) \/ RunResumes(r)
          \/ MarkDecr(r) \/ MarkRead(r) \/ MarkSave(r)
    \/ UserReads \/ UserToggles \/ UserUpdates \/ UserActivates \/ UserDeletes
    \/ Restart

Spec == Init /\ [][Next]_schVars

---------------------------------------------------------------------------
(* Properties                                                               *)

HoldingSlot == {r \in Runs : trig[r].pc = "triggering" \/ graphJob[r] = "live" \/ mark[r] = "due"}

\* Every slot belongs to a trigger or a run that has not been reported yet, so that
\* MaxConcurrent bounds the runs and no slot is lost: through failed triggers,
\* second reports and restarts, unless an end was not saved or a run was resumed.
SlotsMatchRuns == ~schSeen.resumed /\ ~schSeen.lost => slots = Cardinality(HoldingSlot)

\* The records of the scheduler and the toggles of the users never undo each other:
\* the schedule is enabled as the user left it, and every record is counted.
ResultsAndTogglesMerge ==
    /\ schState.enabled = schSeen.wanted
    /\ ~schSeen.deleted => schState.count = schSeen.records

\* The status of the run it was last set for does not stay "running" once that run
\* has been reported as done.
StatusSettles == ~schSeen.deleted /\ schState.status = "running" => mark[schState.last] # "over"

\* No more runs than MaxConcurrent, whatever was resumed.
MaxConcurrentHolds ==
    Cardinality({r \in Runs : graphJob[r] = "live"}) <= 2
=============================================================================
