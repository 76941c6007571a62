------------------------------ MODULE GraphRun ------------------------------
(* The lifecycle of one GraphRun and of the Job it is bound to                *)
(* (services/graph/run_control.go, service.go, runtime.go, with the handlers  *)
(* of cmd/web/handler/graph.go and job_lifecycle.go that drive it).           *)
(*                                                                            *)
(* Several requests and one scheduler goroutine work on the same run: they    *)
(* meet in the runLifecycle record (the handle of the scheduler generation    *)
(* that owns the run, the deleted tombstone) under its mutex, and in the      *)
(* files of the run, which are read without it.  Every section the code runs  *)
(* under lifecycle.mu is one action; every unlocked read is one of its own.   *)
(* The scheduler's inside is abstracted to what its lifecycle shows (module   *)
(* GraphScheduler has the detail): instances start, finish, fail, park.       *)
EXTENDS Integers, Sequences, FiniteSets

CONSTANTS
    Callers,    \* the concurrent requests
    Keys,       \* the instance keys of the run's workflow
    Ops,        \* the operations the requests may issue
    MaxGen,     \* bound on scheduler generations (StartRun and resumes)
    MaxCrash,   \* bound on process crashes
    MaxFail,    \* bound on failing storage writes (and reads)
    CtrlCap     \* capacity of runControl.controlCh (4 in the code)

ASSUME GraphRunAssumption ==
    /\ MaxGen \in Nat \ {0}
    /\ MaxCrash \in Nat
    /\ MaxFail \in Nat
    /\ CtrlCap \in Nat \ {0}
    /\ Ops \subseteq {"start", "stop", "step", "session", "cancel",
                      "resume", "continue", "delete", "jobDelete"}

VARIABLES
    up,         \* the process runs
    lc,         \* runLifecycle: handle (0 is nil), deleted, deleteJob
    located,    \* the repository's in-memory location of the run is registered
    run,        \* status in run.json; "none" when the file is absent
    insts,      \* instances.json
    job,        \* the bound Job: present, status, linked (GraphRunID), deleted
    gens,       \* the scheduler generations
    call,       \* the requests: program counter and locals
    crashes,
    fails

vars == <<up, lc, located, run, insts, job, gens, call, crashes, fails>>
disk == <<run, insts>>

Gen == 1..MaxGen
Stopping == {"stepStopping", "sessionStopping"}
InFlight == {"running"} \cup Stopping
SchedulerlessInFlight == InFlight \cup {"pending"}
Resumable == {"failed", "stepStopped", "sessionStopped", "stopped",
              "timedOut", "recovering", "awaitingInput"}
RunStatus == SchedulerlessInFlight \cup Resumable \cup {"completed"}
InstStatus == {"absent", "running", "succeeded", "failed", "interrupted",
               "awaitingInput"}
JobStatus == {"pending", "running", "completed", "failed", "stopped"}
TerminalJob == {"completed", "failed", "stopped"}
Signals == {"hard", "step", "session", "cancel"}

NoInsts == [k \in Keys |-> "absent"]
NoGen == [phase |-> "unused", ctrl |-> <<>>, st |-> "pending", insts |-> NoInsts]
Idle == [pc |-> "idle", op |-> "none", gen |-> 0, changed |-> FALSE,
         orig |-> [run |-> "none", insts |-> NoInsts]]
FreshLifecycle == [handle |-> 0, deleted |-> FALSE, deleteJob |-> FALSE]

\* Phases in which a generation owns goroutines that write the run's state.
Producing == {"launched", "live", "settled"}

Init ==
    /\ up = TRUE
    /\ lc = FreshLifecycle
    /\ located = FALSE
    /\ run = "none"
    /\ insts = NoInsts
    /\ job = [present |-> TRUE, status |-> "pending", linked |-> FALSE,
              deleted |-> FALSE]
    /\ gens = [g \in Gen |-> NoGen]
    /\ call = [c \in Callers |-> Idle]
    /\ crashes = 0
    /\ fails = 0

-----------------------------------------------------------------------------
(* Repository and Job service, as the graph service uses them. *)

\* GetRun succeeds: the location is registered and run.json exists.
HasRun == located /\ run # "none"

\* One storage write fails; the bound is only here to keep the space finite.
WriteFails == fails < MaxFail /\ fails' = fails + 1

\* SetGraphRunState(status) is accepted.
JobAccepts(st) ==
    /\ job.present
    /\ ~job.deleted \/ (job.linked /\ st \in TerminalJob)

\* The effect of SetGraphRunState: a tombstoned Job only takes the terminal
\* notification of the run it is linked to.
JobAfter(st) ==
    IF ~JobAccepts(st) THEN job
    ELSE IF job.deleted THEN [job EXCEPT !.status = st]
    ELSE [job EXCEPT !.status = st, !.linked = TRUE]

\* completeControl: release the lifecycle if this generation still owns it.
Complete(g) ==
    /\ gens' = [gens EXCEPT ![g] = [NoGen EXCEPT !.phase = "done"]]
    /\ lc' = IF lc.handle = g THEN [lc EXCEPT !.handle = 0] ELSE lc

Goto(c, pc) == call' = [call EXCEPT ![c].pc = pc]
Return(c) == call' = [call EXCEPT ![c] = Idle]
At(c, pc) == up /\ call[c].pc = pc

-----------------------------------------------------------------------------
(* Handlers: every control request first resolves the Job's run, which        *)
(* registers its location and remembers the Job for a later unlink.           *)

EntryOf(op) ==
    CASE op \in {"stop", "step", "session", "cancel"} -> "signal"
      [] op \in {"resume", "continue"} -> "rsRead"
      [] op = "delete" -> "delete"

ResolveJobGraphRun(c, op) ==
    /\ At(c, "idle")
    /\ op \in Ops \ {"start", "jobDelete"}
    /\ job.present /\ ~job.deleted /\ job.linked
    /\ located' = TRUE
    /\ lc' = [lc EXCEPT !.deleteJob = TRUE]
    /\ call' = [call EXCEPT ![c] = [Idle EXCEPT !.pc = EntryOf(op), !.op = op]]
    /\ UNCHANGED <<up, disk, job, gens, crashes, fails>>

\* StartRun: a handle is installed before the run is observable.
StartClaim(c) ==
    /\ At(c, "idle")
    /\ "start" \in Ops
    /\ job.present /\ ~job.linked
    /\ gens[1].phase = "unused" /\ lc.handle = 0 /\ ~lc.deleted
    /\ gens' = [gens EXCEPT ![1].phase = "prep"]
    /\ lc' = [lc EXCEPT !.handle = 1]
    /\ call' = [call EXCEPT ![c] = [Idle EXCEPT !.pc = "stPersist", !.op = "start",
                                                !.gen = 1]]
    /\ UNCHANGED <<up, located, disk, job, crashes, fails>>

\* cleanupUnboundRun and the deferred completeControl of a failed start, then
\* the handler's rollback of the Job it had created for the run.
StartAbandon(c) ==
    /\ Complete(call[c].gen)
    /\ job' = [job EXCEPT !.present = FALSE, !.deleted = TRUE]
    /\ run' = "none" /\ insts' = NoInsts /\ located' = FALSE
    /\ Return(c)

StartPersist(c) ==
    /\ At(c, "stPersist")
    /\ \/ /\ run' = "pending" /\ insts' = NoInsts /\ located' = TRUE
          /\ Goto(c, "stJob")
          /\ UNCHANGED <<lc, gens, job, fails>>
       \/ WriteFails /\ StartAbandon(c)
    /\ UNCHANGED <<up, crashes>>

StartBind(c) ==
    /\ At(c, "stJob")
    /\ \/ /\ JobAccepts("pending")
          /\ job' = JobAfter("pending")
          /\ gens' = [gens EXCEPT ![call[c].gen].phase = "launched"]
          /\ Return(c)
          /\ UNCHANGED <<lc, located, disk, fails>>
       \/ /\ ~JobAccepts("pending")
          /\ StartAbandon(c)
          /\ UNCHANGED fails
       \/ /\ JobAccepts("pending")
          /\ WriteFails
          /\ StartAbandon(c)
    /\ UNCHANGED <<up, crashes>>

-----------------------------------------------------------------------------
(* signalAndSnapshot: StopRun, StepStopRun, SessionStopRun, CancelStopRun.    *)

SignalOf(op) == IF op = "stop" THEN "hard" ELSE op

SignalAndSnapshot(c) ==
    /\ At(c, "signal")
    /\ \/ /\ lc.deleted \/ ~HasRun
          /\ Return(c)
          /\ UNCHANGED gens
       \/ /\ ~lc.deleted /\ HasRun
          /\ run \notin SchedulerlessInFlight \/ lc.handle = 0
          /\ IF call[c].op = "stop" THEN Goto(c, "forceRead") ELSE Return(c)
          /\ UNCHANGED gens
       \/ /\ ~lc.deleted /\ HasRun
          /\ run \in SchedulerlessInFlight /\ lc.handle # 0
          /\ gens' = IF Len(gens[lc.handle].ctrl) < CtrlCap
                     THEN [gens EXCEPT ![lc.handle].ctrl =
                              Append(@, SignalOf(call[c].op))]
                     ELSE gens                       \* ErrGraphRunControlBusy
          /\ Return(c)
    /\ UNCHANGED <<up, lc, located, disk, job, crashes, fails>>

\* forceTerminalNoScheduler's unlocked loads.  StopRunAndWait takes a missing
\* run for a deletion that won, and loops when there is nothing to repair.
Repaired(c) ==
    IF call[c].op = "stop" THEN Return(c) ELSE Goto(c, "jdDelete")
NothingToRepair(c) ==
    IF call[c].op = "stop" THEN Return(c) ELSE Goto(c, "swLoop")

\* If the instances cannot be read, the commit leaves them alone.
ForceRead(c) ==
    /\ At(c, "forceRead")
    /\ \/ ~HasRun /\ Repaired(c)
       \/ HasRun /\ run \notin SchedulerlessInFlight /\ NothingToRepair(c)
       \/ /\ HasRun /\ run \in SchedulerlessInFlight
          /\ \E read \in BOOLEAN :
                /\ read \/ fails < MaxFail
                /\ call' = [call EXCEPT ![c].pc = "forceCommit",
                              ![c].changed = read /\ \E k \in Keys : insts[k] = "running"]
    /\ UNCHANGED <<up, lc, located, disk, job, gens, crashes, fails>>

\* The instances the commit saves.  The map it saves is the outer insts, which
\* the := of line 188 shadows: it is nil whatever was loaded and marked.
ForcedInsts == NoInsts

\* forceTerminalNoSchedulerLocked's commit, under the lifecycle lock.
ForceCommit(c) ==
    /\ At(c, "forceCommit")
    /\ \/ /\ lc.deleted \/ (lc.handle = 0 /\ ~HasRun)
          /\ Repaired(c)
          /\ UNCHANGED <<disk, located, job, fails>>
       \/ /\ ~lc.deleted
          /\ lc.handle # 0 \/ (HasRun /\ run \notin SchedulerlessInFlight)
          /\ NothingToRepair(c)
          /\ UNCHANGED <<disk, located, job, fails>>
       \/ /\ ~lc.deleted /\ lc.handle = 0
          /\ HasRun /\ run \in SchedulerlessInFlight
          /\ located' = TRUE
          /\ \/ /\ insts' = IF call[c].changed THEN ForcedInsts ELSE insts
                /\ \/ /\ run' = "stopped"
                      /\ job' = JobAfter("stopped")
                      /\ Repaired(c)
                      /\ UNCHANGED fails
                   \/ /\ WriteFails                  \* SaveRun fails
                      /\ UNCHANGED <<run, job>>
                      /\ Return(c)
             \/ /\ WriteFails                        \* only logged: SaveInstances
                /\ call[c].changed                   \* or the Job's state
                /\ UNCHANGED insts
                /\ run' = "stopped"
                /\ job' = JobAfter("stopped")
                /\ Repaired(c)
             \/ /\ WriteFails
                /\ insts' = IF call[c].changed THEN ForcedInsts ELSE insts
                /\ run' = "stopped"
                /\ UNCHANGED job
                /\ Repaired(c)
    /\ UNCHANGED <<up, lc, gens, crashes>>

-----------------------------------------------------------------------------
(* Deleting the Job: JobDelete, deleteMarkedJob, StopRunAndWait and           *)
(* deleteGraphRunAfterJoin.                                                   *)

\* Mutant: only a run whose status is in flight is stopped and joined.
SettledJobDeleteMark(c) ==
    /\ At(c, "idle")
    /\ "jobDelete" \in Ops
    /\ job.present
    /\ job' = [job EXCEPT !.deleted = TRUE]
    /\ IF job.linked /\ run \in InFlight
       THEN /\ located' = TRUE
            /\ lc' = [lc EXCEPT !.deleteJob = TRUE]
            /\ call' = [call EXCEPT ![c] = [Idle EXCEPT !.pc = "swCapture",
                                                        !.op = "jobDelete"]]
       ELSE /\ call' = [call EXCEPT ![c] = [Idle EXCEPT !.pc = "jdCleanup",
                                                        !.op = "jobDelete"]]
            /\ UNCHANGED <<located, lc>>
    /\ UNCHANGED <<up, disk, gens, crashes, fails>>

\* MarkDeleted, the refreshed snapshot and, for a linked run, its location.
JobDeleteMark(c) ==
    /\ At(c, "idle")
    /\ "jobDelete" \in Ops
    /\ job.present
    /\ job' = [job EXCEPT !.deleted = TRUE]
    /\ IF job.linked
       THEN /\ located' = TRUE
            /\ lc' = [lc EXCEPT !.deleteJob = TRUE]
            /\ call' = [call EXCEPT ![c] = [Idle EXCEPT !.pc = "swCapture",
                                                        !.op = "jobDelete"]]
       ELSE /\ call' = [call EXCEPT ![c] = [Idle EXCEPT !.pc = "jdCleanup",
                                                        !.op = "jobDelete"]]
            /\ UNCHANGED <<located, lc>>
    /\ UNCHANGED <<up, disk, gens, crashes, fails>>

\* The first look at the handle; without one, the first unlocked GetRun.
WaitCapture(c) ==
    /\ At(c, "swCapture")
    /\ Goto(c, IF lc.handle = 0 THEN "swRead" ELSE "swLoop")
    /\ UNCHANGED <<up, lc, located, disk, job, gens, crashes, fails>>

WaitRead(c) ==
    /\ At(c, "swRead")
    /\ Goto(c, IF HasRun THEN "swLoop" ELSE "jdDelete")
    /\ UNCHANGED <<up, lc, located, disk, job, gens, crashes, fails>>

\* The head of the loop, under the lock.
WaitLoop(c) ==
    /\ At(c, "swLoop")
    /\ call' = [call EXCEPT
                  ![c].pc = IF lc.deleted THEN "jdDelete"
                            ELSE IF lc.handle # 0 THEN "swSend" ELSE "swCheck",
                  ![c].gen = IF lc.deleted THEN 0 ELSE lc.handle]
    /\ UNCHANGED <<up, lc, located, disk, job, gens, crashes, fails>>

\* The hard stop is never dropped: it waits for room or for the end.
WaitSend(c) ==
    /\ At(c, "swSend")
    /\ LET g == call[c].gen IN
       \/ /\ gens[g].phase # "done" /\ Len(gens[g].ctrl) < CtrlCap
          /\ gens' = [gens EXCEPT ![g].ctrl = Append(@, "hard")]
          /\ Goto(c, "swJoin")
       \/ gens[g].phase = "done" /\ Goto(c, "swLoop") /\ UNCHANGED gens
    /\ UNCHANGED <<up, lc, located, disk, job, crashes, fails>>

WaitJoin(c) ==
    /\ At(c, "swJoin")
    /\ gens[call[c].gen].phase = "done"
    /\ Goto(c, "swLoop")
    /\ UNCHANGED <<up, lc, located, disk, job, gens, crashes, fails>>

\* No handle: read the run without the lock ...
WaitCheck(c) ==
    /\ At(c, "swCheck")
    /\ Goto(c, IF ~HasRun THEN "jdDelete"
               ELSE IF run \in SchedulerlessInFlight THEN "forceRead"
               ELSE "swSettle")
    /\ UNCHANGED <<up, lc, located, disk, job, gens, crashes, fails>>

\* ... and return only after a second look under it.
WaitSettle(c) ==
    /\ At(c, "swSettle")
    /\ Goto(c, IF ~lc.deleted
                   /\ (lc.handle # 0 \/ (HasRun /\ run \in SchedulerlessInFlight))
               THEN "swLoop" ELSE "jdDelete")
    /\ UNCHANGED <<up, lc, located, disk, job, gens, crashes, fails>>

\* The request's context ends while StopRunAndWait or a resume waits.
WaitCancelled(c) ==
    /\ up
    /\ call[c].pc \in {"swLoop", "swSend", "swJoin", "rsClaim"}
    /\ Return(c)
    /\ UNCHANGED <<up, lc, located, disk, job, gens, crashes, fails>>

\* What repo.DeleteRun leaves: all gone, nothing deleted, or run.json deleted
\* and the rest not (FileDelete of the directory stopped half-way).
DeleteArtifacts(ok) ==
    IF ok
    THEN run' = "none" /\ insts' = NoInsts /\ located' = FALSE
    ELSE /\ \/ UNCHANGED run
            \/ run' = "none"
         /\ UNCHANGED <<insts, located>>

\* DeleteRun with jobs = nil, from the Job's deletion.
JobDeleteRun(c) ==
    /\ At(c, "jdDelete")
    /\ \/ /\ lc.deleted \/ (lc.handle = 0 /\ ~HasRun)
          /\ Goto(c, "jdCleanup")
          /\ UNCHANGED <<lc, located, disk, fails>>
       \/ /\ ~lc.deleted
          /\ lc.handle # 0 \/ (HasRun /\ run \in InFlight)
          /\ Goto(c, "swCapture")
          /\ UNCHANGED <<lc, located, disk, fails>>
       \/ /\ ~lc.deleted /\ lc.handle = 0 /\ HasRun /\ run \notin InFlight
          /\ \/ /\ DeleteArtifacts(TRUE)
                /\ lc' = [lc EXCEPT !.deleted = TRUE, !.deleteJob = TRUE]
                /\ Goto(c, "jdCleanup")
                /\ UNCHANGED fails
             \/ /\ WriteFails
                /\ DeleteArtifacts(FALSE)
                /\ lc' = [lc EXCEPT !.deleteJob = TRUE]
                /\ Return(c)
    /\ UNCHANGED <<up, job, gens, crashes>>

\* cleanupSessions and jobService.Delete, which removes the Job's directory
\* and with it whatever a partial DeleteRun left.
JobDeletePurge(c) ==
    /\ At(c, "jdCleanup")
    /\ job' = [job EXCEPT !.present = FALSE]
    /\ run' = "none" /\ insts' = NoInsts
    /\ Return(c)
    /\ UNCHANGED <<up, lc, located, gens, crashes, fails>>

-----------------------------------------------------------------------------
(* DeleteRun, from the run's own delete button.                               *)

Unlink == job' = IF job.present /\ ~job.deleted
                 THEN [job EXCEPT !.linked = FALSE] ELSE job

\* ClearGraphRunLinkage succeeds, or fails and keeps the Job id for a retry.
ClearGraphRunLinkage(l) ==
    \/ /\ job.present /\ ~job.deleted
       /\ Unlink
       /\ lc' = [l EXCEPT !.deleteJob = FALSE]
       /\ UNCHANGED fails
    \/ /\ ~job.present \/ job.deleted
       /\ lc' = l
       /\ UNCHANGED <<job, fails>>
    \/ WriteFails /\ lc' = l /\ UNCHANGED job

DeleteRun(c) ==
    /\ At(c, "delete")
    /\ Return(c)
    /\ \/ /\ lc.deleted                                      \* only the unlink
          /\ IF lc.deleteJob THEN ClearGraphRunLinkage(lc)
             ELSE UNCHANGED <<lc, job, fails>>
          /\ UNCHANGED <<located, disk>>
       \/ /\ ~lc.deleted
          /\ \/ lc.handle # 0                                \* ErrGraphRunInFlight
             \/ HasRun /\ run \in InFlight
             \/ ~HasRun /\ ~lc.deleteJob                      \* ErrGraphRunNotFound
          /\ UNCHANGED <<lc, job, located, disk, fails>>
       \/ /\ ~lc.deleted /\ lc.handle = 0
          /\ IF HasRun THEN run \notin InFlight ELSE lc.deleteJob
          /\ LET l == [lc EXCEPT !.deleteJob = TRUE] IN
             \/ /\ located
                /\ DeleteArtifacts(TRUE)
                /\ ClearGraphRunLinkage([l EXCEPT !.deleted = TRUE])
             \/ /\ ~located                                  \* no location: an error
                /\ lc' = l
                /\ UNCHANGED <<job, located, disk, fails>>
             \/ /\ located /\ WriteFails
                /\ DeleteArtifacts(FALSE)
                /\ lc' = l
                /\ UNCHANGED job
    /\ UNCHANGED <<up, gens, crashes>>

-----------------------------------------------------------------------------
(* ResumeRun and ContinueRun: relaunchResumableRunLocked.                     *)

\* The first, unlocked, look at the status.
ResumeRead(c) ==
    /\ At(c, "rsRead")
    /\ IF HasRun /\ run \in (IF call[c].op = "continue" THEN {"awaitingInput"}
                              ELSE Resumable)
       THEN Goto(c, "rsClaim") ELSE Return(c)
    /\ UNCHANGED <<up, lc, located, disk, job, gens, crashes, fails>>

\* Mutant: a resume does not wait for the generation in place.
ImpatientResumeClaim(c) ==
    /\ At(c, "rsClaim")
    /\ IF ~lc.deleted /\ HasRun /\ run \in Resumable
       THEN \E g \in Gen :
               /\ gens[g].phase = "unused"
               /\ \A h \in 1..(g - 1) : gens[h].phase # "unused"
               /\ gens' = [gens EXCEPT ![g].phase = "prep"]
               /\ lc' = [lc EXCEPT !.handle = g]
               /\ call' = [call EXCEPT ![c].pc = "rsPrepare", ![c].gen = g,
                              ![c].orig = [run |-> run, insts |-> insts]]
       ELSE Return(c) /\ UNCHANGED <<lc, gens>>
    /\ UNCHANGED <<up, located, disk, job, crashes, fails>>

\* Under the lock: join the generation in place, look again, install a new one.
ResumeClaim(c) ==
    /\ At(c, "rsClaim")
    /\ \/ /\ lc.deleted
          /\ Return(c)
          /\ UNCHANGED <<lc, gens>>
       \/ /\ ~lc.deleted /\ lc.handle = 0
          /\ ~(HasRun /\ run \in Resumable)
          /\ Return(c)
          /\ UNCHANGED <<lc, gens>>
       \/ /\ ~lc.deleted /\ lc.handle = 0
          /\ HasRun /\ run \in Resumable
          /\ \E g \in Gen :
                /\ gens[g].phase = "unused"
                /\ \A h \in 1..(g - 1) : gens[h].phase # "unused"
                /\ gens' = [gens EXCEPT ![g].phase = "prep"]
                /\ lc' = [lc EXCEPT !.handle = g]
                /\ call' = [call EXCEPT ![c].pc = "rsPrepare", ![c].gen = g,
                               ![c].orig = [run |-> run, insts |-> insts]]
    /\ UNCHANGED <<up, located, disk, job, crashes, fails>>

\* Mutant: the reset keeps only the parked instances.
ForgetfulResetInsts(m) ==
    [k \in Keys |-> IF m[k] = "awaitingInput" THEN m[k] ELSE "absent"]

\* resetResettable on a run without loops: unreliable instances are dropped.
ResetInsts(m) ==
    [k \in Keys |-> IF m[k] \in {"failed", "interrupted", "running"}
                    THEN "absent" ELSE m[k]]

\* Load, reset, validate the agent bindings, save the reset maps.  Before the
\* save an error leaves the run as it was; a failed save restores it, unless
\* the restoration fails on the instances.
ResumePrepare(c) ==
    /\ At(c, "rsPrepare")
    /\ \/ /\ insts' = ResetInsts(insts)
          /\ Goto(c, "rsMark")
          /\ UNCHANGED <<lc, gens, fails>>
       \/ Complete(call[c].gen) /\ Return(c) /\ UNCHANGED <<insts, fails>>
       \/ /\ WriteFails /\ Complete(call[c].gen) /\ Return(c)
          /\ \/ UNCHANGED insts
             \/ fails + 1 < MaxFail /\ insts' = ResetInsts(insts)
    /\ UNCHANGED <<up, located, run, job, crashes>>

\* restoreOriginal; each of its own writes may fail as well.
RestoreOriginal(c) ==
    /\ \/ insts' = call[c].orig.insts
       \/ fails + 1 < MaxFail /\ UNCHANGED insts
    /\ \/ run' = call[c].orig.run
       \/ fails + 1 < MaxFail /\ UNCHANGED run
    /\ Complete(call[c].gen)
    /\ Return(c)

\* Status running is saved with the other reset fields.
ResumeMark(c) ==
    /\ At(c, "rsMark")
    /\ \/ /\ run' = "running" /\ located' = TRUE
          /\ Goto(c, "rsJob")
          /\ UNCHANGED <<insts, lc, gens, fails>>
       \/ WriteFails /\ RestoreOriginal(c) /\ UNCHANGED located
    /\ UNCHANGED <<up, job, crashes>>

\* The Job is set running, or the run is restored; then the scheduler starts.
ResumeLaunch(c) ==
    /\ At(c, "rsJob")
    /\ \/ /\ JobAccepts("running")
          /\ job' = JobAfter("running")
          /\ gens' = [gens EXCEPT ![call[c].gen].phase = "launched"]
          /\ Return(c)
          /\ UNCHANGED <<lc, disk, fails>>
       \/ ~JobAccepts("running") /\ RestoreOriginal(c) /\ UNCHANGED <<job, fails>>
       \/ WriteFails /\ RestoreOriginal(c) /\ UNCHANGED job
    /\ UNCHANGED <<up, located, crashes>>

-----------------------------------------------------------------------------
(* The scheduler goroutine of generation g (runGraph and its loop).           *)

Live(g) == up /\ gens[g].phase = "live"

\* persist: instances first, run.json last; an error is only logged.
Persist(m, st) ==
    \/ insts' = m /\ run' = st /\ located' = TRUE /\ UNCHANGED fails
    \/ WriteFails /\ UNCHANGED <<run, located>> /\ insts' \in {m, insts}

Interrupted(m) ==
    [k \in Keys |-> IF m[k] = "running" THEN "interrupted" ELSE m[k]]

\* runGraph up to the end of the seeding: status running, parked clarify
\* instances finalized (finalizeAwaitingClarify).
SchedStart(g) ==
    /\ up /\ gens[g].phase = "launched"
    /\ IF ~HasRun
       THEN Complete(g) /\ UNCHANGED <<disk, located, job, fails>>
       ELSE /\ gens' = [gens EXCEPT ![g].phase = "live", ![g].st = "running",
                  ![g].insts = [k \in Keys |-> IF insts[k] = "awaitingInput"
                                               THEN "succeeded" ELSE insts[k]]]
            /\ \/ run' = "running" /\ UNCHANGED fails
               \/ WriteFails /\ UNCHANGED run
            /\ job' = JobAfter("running")
            /\ UNCHANGED <<insts, located, lc>>
    /\ UNCHANGED <<up, call, crashes>>

\* A node starts: not while a step stop holds the frontier.
SchedDispatch(g, k) ==
    /\ Live(g)
    /\ gens[g].st # "stepStopping" /\ gens[g].insts[k] = "absent"
    /\ gens[g].ctrl = <<>>                  \* drainControls precedes dispatch
    /\ LET m == [gens[g].insts EXCEPT ![k] = "running"] IN
       /\ gens' = [gens EXCEPT ![g].insts = m]
       /\ Persist(m, gens[g].st)
    /\ UNCHANGED <<up, lc, job, call, crashes>>

\* A node ends well, or a clarify node parks.
SchedResult(g, k) ==
    /\ Live(g)
    /\ gens[g].insts[k] = "running"
    /\ \E st \in {"succeeded", "awaitingInput"} :
       LET m == [gens[g].insts EXCEPT ![k] = st] IN
       /\ gens' = [gens EXCEPT ![g].insts = m]
       /\ Persist(m, gens[g].st)
    /\ UNCHANGED <<up, lc, job, call, crashes>>

\* The run's terminal state: the scheduler has settled, its hooks still drain.
Settle(g, m, st, jobStatus) ==
    /\ gens' = [gens EXCEPT ![g].phase = "settled", ![g].insts = m, ![g].st = st]
    /\ Persist(m, st)
    /\ job' = JobAfter(jobStatus)

SchedFail(g, k) ==
    /\ Live(g)
    /\ gens[g].insts[k] = "running"
    /\ Settle(g, Interrupted([gens[g].insts EXCEPT ![k] = "failed"]), "failed", "failed")
    /\ UNCHANGED <<up, lc, call, crashes>>

SchedTimeout(g) ==
    /\ Live(g)
    /\ Settle(g, Interrupted(gens[g].insts), "timedOut", "failed")
    /\ UNCHANGED <<up, lc, call, crashes>>

\* Mutant: a hard stop that meets a graceful stop is swallowed.
DeafSchedControl(g) ==
    /\ Live(g)
    /\ gens[g].ctrl # <<>>
    /\ LET sig == Head(gens[g].ctrl)
           next == CASE sig = "step" -> "stepStopping"
                     [] sig = "session" -> "sessionStopping"
                     [] sig = "cancel" -> "running"
                     [] OTHER -> gens[g].st IN
       IF sig = "hard" /\ gens[g].st = "running"
       THEN Settle(g, Interrupted(gens[g].insts), "stopped", "stopped")
       ELSE /\ gens' = [gens EXCEPT ![g].ctrl = Tail(@), ![g].st = next]
            /\ Persist(gens[g].insts, next)
            /\ UNCHANGED job
    /\ UNCHANGED <<up, lc, call, crashes>>

\* applyControl.
SchedControl(g) ==
    /\ Live(g)
    /\ gens[g].ctrl # <<>>
    /\ LET sig == Head(gens[g].ctrl)
           next == CASE sig = "step" -> "stepStopping"
                     [] sig = "session" -> "sessionStopping"
                     [] OTHER -> "running" IN
       IF sig = "hard"
       THEN Settle(g, Interrupted(gens[g].insts), "stopped", "stopped")
       ELSE /\ gens' = [gens EXCEPT ![g].ctrl = Tail(@), ![g].st = next]
            /\ IF next = gens[g].st THEN UNCHANGED <<disk, located, fails>>
               ELSE Persist(gens[g].insts, next)
            /\ UNCHANGED job
    /\ UNCHANGED <<up, lc, call, crashes>>

\* Nothing in flight and nothing dispatchable: finishGraceful, finishAwaiting,
\* completed.
SchedQuiesce(g) ==
    /\ Live(g)
    /\ gens[g].ctrl = <<>>
    /\ LET m == gens[g].insts
           Some(st) == \E k \in Keys : m[k] = st IN
       /\ ~Some("running")
       /\ \/ /\ gens[g].st = "stepStopping"
             /\ Settle(g, m, "stepStopped", "stopped")
          \/ /\ gens[g].st = "sessionStopping" /\ Some("absent")
             /\ Settle(g, m, "sessionStopped", "stopped")
          \/ /\ gens[g].st # "stepStopping" /\ ~Some("absent") /\ Some("awaitingInput")
             /\ Settle(g, m, "awaitingInput", "stopped")
          \/ /\ gens[g].st # "stepStopping" /\ ~Some("absent") /\ ~Some("awaitingInput")
             /\ Settle(g, m, "completed", "completed")
    /\ UNCHANGED <<up, lc, call, crashes>>

\* The hooks are joined and the deferred completeControl runs.
SchedExit(g) ==
    /\ up /\ gens[g].phase = "settled"
    /\ Complete(g)
    /\ UNCHANGED <<up, located, disk, job, call, crashes, fails>>

-----------------------------------------------------------------------------
(* Crash and restart.                                                         *)

Crash ==
    /\ up /\ crashes < MaxCrash
    /\ up' = FALSE
    /\ crashes' = crashes + 1
    /\ lc' = FreshLifecycle
    /\ located' = FALSE
    /\ gens' = [g \in Gen |-> IF gens[g].phase = "unused" THEN NoGen
                              ELSE [NoGen EXCEPT !.phase = "done"]]
    /\ call' = [c \in Callers |-> Idle]
    /\ UNCHANGED <<disk, job, fails>>

\* ReconcileInterruptedRun, once per graph job at startup: no handler has
\* registered the run's location yet, so GetRun finds no run.
ReconcileInterruptedRun ==
    IF HasRun /\ run \in SchedulerlessInFlight
    THEN /\ run' = "recovering"
         /\ insts' = IF \E k \in Keys : insts[k] = "running" THEN ForcedInsts ELSE insts
    ELSE UNCHANGED disk

\* load: tombstoned Jobs are swept, running ones become failed; then the scan.
Boot ==
    /\ ~up
    /\ up' = TRUE
    /\ IF job.deleted
       THEN /\ job' = [job EXCEPT !.present = FALSE]
            /\ run' = "none" /\ insts' = NoInsts
       ELSE /\ job' = IF job.status = "running" THEN [job EXCEPT !.status = "failed"]
                      ELSE job
            /\ ReconcileInterruptedRun
    /\ UNCHANGED <<lc, located, gens, call, crashes, fails>>

-----------------------------------------------------------------------------
CallerNext(c) ==
    \/ \E op \in Ops : ResolveJobGraphRun(c, op)
    \/ StartClaim(c) \/ JobDeleteMark(c) \/ WaitCancelled(c)

\* The steps of a request that is under way.
CallerStep(c) ==
    \/ StartPersist(c) \/ StartBind(c)
    \/ SignalAndSnapshot(c) \/ ForceRead(c) \/ ForceCommit(c)
    \/ WaitCapture(c) \/ WaitRead(c) \/ WaitLoop(c) \/ WaitSend(c)
    \/ WaitJoin(c) \/ WaitCheck(c) \/ WaitSettle(c)
    \/ JobDeleteRun(c) \/ JobDeletePurge(c) \/ DeleteRun(c)
    \/ ResumeRead(c) \/ ResumeClaim(c) \/ ResumePrepare(c)
    \/ ResumeMark(c) \/ ResumeLaunch(c)

\* The steps the scheduler takes whatever its nodes do.
SchedOwn(g) ==
    SchedStart(g) \/ SchedControl(g) \/ SchedQuiesce(g) \/ SchedExit(g)

SchedNext(g) ==
    \/ SchedOwn(g) \/ SchedTimeout(g)
    \/ \E k \in Keys : SchedDispatch(g, k) \/ SchedResult(g, k) \/ SchedFail(g, k)

Next ==
    \/ \E c \in Callers : CallerNext(c) \/ CallerStep(c)
    \/ \E g \in Gen : SchedNext(g)
    \/ Crash \/ Boot

\* A request's goroutine and the scheduler's run when they can; a node, a
\* timeout, a new request, a crash may never come.
Fairness ==
    /\ \A c \in Callers : WF_vars(CallerStep(c))
    /\ \A g \in Gen : WF_vars(SchedOwn(g))

Spec == Init /\ [][Next]_vars /\ Fairness

-----------------------------------------------------------------------------
(* Properties.                                                                *)

\* Types of the lifecycle record, the files, the Job, the generations and the
\* locals of the requests.
TypeOK ==
    /\ up \in BOOLEAN /\ located \in BOOLEAN
    /\ lc \in [handle : 0..MaxGen, deleted : BOOLEAN, deleteJob : BOOLEAN]
    /\ run \in RunStatus \cup {"none"}
    /\ insts \in [Keys -> InstStatus]
    /\ job \in [present : BOOLEAN, status : JobStatus, linked : BOOLEAN,
                deleted : BOOLEAN]
    /\ \A g \in Gen :
          /\ gens[g].phase \in {"unused", "prep", "done"} \cup Producing
          /\ gens[g].ctrl \in Seq(Signals) /\ Len(gens[g].ctrl) <= CtrlCap
          /\ gens[g].st \in RunStatus
          /\ gens[g].insts \in [Keys -> InstStatus]
    /\ \A c \in Callers : call[c].gen \in 0..MaxGen
    /\ crashes \in 0..MaxCrash /\ fails \in 0..MaxFail

\* A generation that is being prepared or runs is the one the lifecycle names,
\* so two schedulers never work on one run; and while it is there the run is
\* not deleted (relaunchResumableRunLocked, DeleteRun, completeControl).
OneOwner ==
    \A g \in Gen : gens[g].phase \in Producing \cup {"prep"} =>
        lc.handle = g /\ ~lc.deleted

\* Once the deletion of a Job reaches its sessions, or has removed the Job, no
\* scheduler of its run is left that could open another session, and none will
\* start (deleteMarkedJob: "only after both producers have exited"); and while the
\* process lives no late write of a repair, a resume or a scheduler brings the
\* files of a deleted run back.
CleanupFenced ==
    /\ (~job.present \/ \E c \in Callers : call[c].pc = "jdCleanup") =>
          \A g \in Gen : gens[g].phase \notin Producing
    /\ lc.deleted => ~HasRun

\* An instance that succeeded is not forgotten while its run lives, whatever
\* stops, resumes, restores and failing writes do: only the repair of an orphan
\* (ForceCommit) loses it, which is the finding of run graph_orphan.
SucceededKept ==
    [][\A k \in Keys :
          insts[k] = "succeeded" /\ insts'[k] # "succeeded" =>
             \/ run' = "none"
             \/ \E c \in Callers : call[c].pc = "forceCommit"]_vars

\* Between requests and without a scheduler, and as long as no write failed and
\* no crash happened, the run is in a settled status and the Job agrees.
JobOf(st) ==
    CASE st = "completed" -> {"completed"}
      [] st \in {"failed", "timedOut"} -> {"failed"}
      [] OTHER -> {"stopped"}
AtRest == up /\ lc.handle = 0 /\ \A c \in Callers : call[c].pc = "idle"
RestAgrees ==
    AtRest /\ crashes = 0 /\ fails = 0 /\ run # "none" =>
        run \notin SchedulerlessInFlight /\ job.status \in JobOf(run)

\* Deleting the Job joins whatever generation is there and comes to an end: it
\* never waits for ever for a scheduler that has already gone.  (Asked of one
\* caller: the specification does not tell them apart.)
JobDeletionEnds ==
    LET c == CHOOSE d \in Callers : TRUE
    IN call[c].op = "jobDelete" ~> call[c].pc = "idle"

\* The repair of an orphaned run keeps the work done: instances that had
\* succeeded stay, the running ones become interrupted (run_control.go:160-168,
\* "Still-running instances are marked interrupted").  The code does not.
RepairMarksInterrupted ==
    [][\A c \in Callers :
          call[c].pc = "forceCommit" /\ run' = "stopped" /\ run # "stopped"
             => insts' = Interrupted(insts)]_vars

\* After a restart no run is left in a status that needs a scheduler
\* (handler.go:465-470).  The code does not achieve it.
StartupRepairs ==
    AtRest /\ fails = 0 => run \notin SchedulerlessInFlight
=============================================================================
