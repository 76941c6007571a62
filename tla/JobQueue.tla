------------------------------ MODULE JobQueue ------------------------------
(***************************************************************************)
(* One interactive Job of services/job: the persisted message queue, the   *)
(* runs that execute messages, the dispatcher goroutines that hand queued  *)
(* messages to runs, user operations, save failures and process crashes.   *)
(*                                                                         *)
(* Every writer of job.json holds the job's persist shard from its check   *)
(* to the end of its save.  It mutates the in-memory job first (visible to *)
(* readers, which take s.mu only), then saves, and rolls memory back when  *)
(* the save fails.  So a locked operation is two steps here: the first     *)
(* takes `lock', keeps the previous job in `saved' and changes `mem'; the  *)
(* second commits to `disk' or fails, and releases `lock'.                 *)
(*                                                                         *)
(* A run is one goroutine started by SendMessage, in a slot of Run.  A     *)
(* dispatcher is one goroutine started by requestMessageQueueDispatch, in  *)
(* a slot of Dispatcher.  The numbers of slots bound the goroutines alive  *)
(* at once.                                                                *)
(***************************************************************************)
EXTENDS JobRecord

CONSTANTS
  Run, NoRun,   (* run slots, and the absence of a run in cancels / dones     *)
  Dispatcher,   (* dispatcher slots                                           *)
  MaxKicks,     (* handlers that may at once be about to request a dispatch   *)
  Faults,       (* what may go wrong: saves by name, "prepare", "crash"       *)
  UserOps       (* the user operations that take place                        *)

SaveKind ==
  {"submit", "delete", "continue", "pause", "start", "terminal", "block", "complete",
   "clearPause", "load", "recover"}

ASSUME FaultAssumption ==
  /\ Faults \subseteq SaveKind \cup {"prepare", "crash"}
  /\ UserOps \subseteq {"delete", "continue", "stop", "deleteJob"}

ASSUME SlotAssumption == NoRun \notin Run /\ MaxKicks \in Nat \ {0}

VARIABLES
  mem,         (* the job in s.jobs                                           *)
  disk,        (* job.json                                                    *)
  lock,        (* the persist shard: who holds it, and for which message      *)
  saved,       (* the job before the holder's mutation (equal to mem if free) *)
  prior,       (* interactivePriorStatus                                      *)
  run,         (* the run goroutines                                          *)
  cancels,     (* the run whose cancel function is registered                 *)
  dones,       (* the run whose done channel is registered                    *)
  dispatching, (* messageQueueDispatching                                     *)
  disp,        (* the dispatcher goroutines                                   *)
  kicks,       (* handlers between their unlock and their dispatch request    *)
  stopper,     (* the JobStop request in flight                               *)
  deleter,     (* the job deletion in flight                                  *)
  boot,        (* "up", or how far a restart has come                         *)
  acked,       (* history: ids whose submission was accepted                  *)
  dropped,     (* history: ids whose deletion succeeded                       *)
  execs,       (* history: how often the agent was started on an id           *)
  barrier      (* history: stopped by the user and not continued since        *)

jobVars  == <<mem, disk, lock, saved, prior>>
runVars  == <<run, cancels, dones>>
dispVars == <<dispatching, disp, kicks>>
userVars == <<stopper, deleter>>
history  == <<acked, dropped, execs, barrier>>
vars     == <<jobVars, runVars, dispVars, userVars, boot, history>>

RunPc ==
  {"idle", "starting", "body", "term", "termSave", "exit", "clear", "complete",
   "completeSave", "clearPause", "clearPauseSave", "finish", "recheck"}

DispPc ==
  {"idle", "check", "dones", "prepare", "send", "sendSave", "block", "blockSave",
   "finish", "recheck"}

LockOp == {"free", "submit", "delete", "continue", "pause", "direct", "run", "dispatch"}

RunRecord  == [pc : RunPc, id : Id \cup {NoId}, outcome : Outcome, cancelled : BOOLEAN]
DispRecord == [pc : DispPc, item : QueueId \cup {NoId}]

NoLock  == [op |-> "free", id |-> NoId]
IdleRun == [pc |-> "idle", id |-> NoId, outcome |-> "completed", cancelled |-> FALSE]
IdleDisp == [pc |-> "idle", item |-> NoId]

JobTypeOK ==
  /\ mem \in Job /\ disk \in Job /\ saved \in Job
  /\ lock \in [op : LockOp, id : Id \cup {NoId}]
  /\ prior \in {"none", "completed", "failed"}

RunTypeOK ==
  /\ run \in [Run -> RunRecord]
  /\ cancels \in Run \cup {NoRun} /\ dones \in Run \cup {NoRun}

DispTypeOK ==
  /\ dispatching \in BOOLEAN
  /\ disp \in [Dispatcher -> DispRecord]
  /\ kicks \in 0 .. MaxKicks

UserTypeOK ==
  /\ stopper \in {"idle", "cancel"}
  /\ deleter \in {"idle", "stop", "remove"}
  /\ boot \in {"up", "down", "loaded"}

HistoryTypeOK ==
  /\ acked \subseteq QueueId /\ dropped \subseteq QueueId
  /\ execs \in [Id -> Nat]
  /\ barrier \in BOOLEAN

\* Every variable has its type; in particular a run that ends never restores a
\* status that was not remembered.
TypeOK == JobTypeOK /\ RunTypeOK /\ DispTypeOK /\ UserTypeOK /\ HistoryTypeOK

Init ==
  /\ mem = NewJob /\ disk = NewJob /\ saved = NewJob
  /\ lock = NoLock
  /\ prior = "none"
  /\ run = [r \in Run |-> IdleRun]
  /\ cancels = NoRun /\ dones = NoRun
  /\ dispatching = FALSE
  /\ disp = [d \in Dispatcher |-> IdleDisp]
  /\ kicks = 0
  /\ stopper = "idle" /\ deleter = "idle"
  /\ boot = "up"
  /\ acked = {} /\ dropped = {}
  /\ execs = [i \in Id |-> 0]
  /\ barrier = FALSE

(***************************************************************************)
(* The persist shard and saveJobWithRetryUnderPersistLock.  A save of a    *)
(* tombstoned or removed job always fails; another one fails only if its   *)
(* kind is among Faults.                                                   *)
(***************************************************************************)
Unlocked == lock.op = "free"

Acquire(op, i, job) ==
  /\ Unlocked
  /\ lock' = [op |-> op, id |-> i]
  /\ saved' = mem
  /\ mem' = job

MaySave == mem.life = "live"
MayFail(kind) == mem.life # "live" \/ kind \in Faults

\* Mutant of Commit: a tombstone does not stop a late save, which recreates job.json.
CommitLate ==
  /\ disk' = [mem EXCEPT !.life = IF @ = "live" THEN @ ELSE "deleted"]
  /\ saved' = mem
  /\ lock' = NoLock
  /\ UNCHANGED mem

Commit ==
  /\ MaySave
  /\ disk' = mem /\ saved' = mem
  /\ lock' = NoLock
  /\ UNCHANGED mem

Rollback(kind) ==
  /\ MayFail(kind)
  /\ mem' = saved
  /\ lock' = NoLock
  /\ UNCHANGED <<disk, saved>>

\* A terminal transition is not undone: its event is published either way.
KeepUnsaved(kind) ==
  /\ MayFail(kind)
  /\ saved' = mem
  /\ lock' = NoLock
  /\ UNCHANGED <<disk, mem>>

(***************************************************************************)
(* requestMessageQueueDispatch: claim the flag and spawn one dispatcher,   *)
(* or do nothing if the flag is taken.                                     *)
(***************************************************************************)
RequestDispatch(ds) ==
  IF dispatching
  THEN disp' = ds /\ UNCHANGED dispatching
  ELSE \E d \in Dispatcher :
         /\ ds[d].pc = "idle"
         /\ disp' = [ds EXCEPT ![d].pc = "check"]
         /\ dispatching' = TRUE

\* A handler whose locked operation is over calls requestMessageQueueDispatch.
Kick ==
  /\ kicks > 0
  /\ kicks' = kicks - 1
  /\ RequestDispatch(disp)
  /\ UNCHANGED <<jobVars, runVars, userVars, boot, history>>

(***************************************************************************)
(* User operations on the queue.  A refused request changes nothing and    *)
(* has no action.                                                          *)
(***************************************************************************)
Submit(i) ==
  /\ boot = "up" /\ kicks < MaxKicks
  /\ MaySubmit(mem, i)
  /\ Acquire("submit", i, Submitted(mem, i))
  /\ UNCHANGED <<disk, prior, runVars, dispVars, userVars, boot, history>>

SubmitSaved ==
  /\ lock.op = "submit"
  /\ \/ /\ Commit
        /\ acked' = acked \cup {lock.id}
        /\ kicks' = kicks + 1
     \/ /\ Rollback("submit")
        /\ UNCHANGED <<acked, kicks>>
  /\ UNCHANGED <<prior, runVars, dispatching, disp, userVars, boot, dropped, execs, barrier>>

DeleteQueuedMessage(k) ==
  /\ boot = "up" /\ "delete" \in UserOps
  /\ MayDelete(mem, k)
  /\ Acquire("delete", mem.queue[k].id, Deleted(mem, k))
  /\ UNCHANGED <<disk, prior, runVars, dispVars, userVars, boot, history>>

\* The dispatch request is made before the deferred unlock.
DeleteSaved ==
  /\ lock.op = "delete"
  /\ \/ /\ Commit
        /\ dropped' = dropped \cup {lock.id}
        /\ barrier' = (barrier /\ ~(mem.queue = <<>> /\ mem.status # "running"))
        /\ IF mem.pause = "no"
           THEN RequestDispatch(disp)
           ELSE UNCHANGED <<disp, dispatching>>
     \/ /\ Rollback("delete")
        /\ UNCHANGED <<dropped, barrier, disp, dispatching>>
  /\ UNCHANGED <<prior, runVars, kicks, userVars, boot, acked, execs>>

ContinueMessageQueue ==
  /\ boot = "up" /\ "continue" \in UserOps /\ kicks < MaxKicks
  /\ mem.life = "live" /\ ~HeadState(mem.queue, "blocked")
  /\ \/ /\ mem.pause # "no"
        /\ Acquire("continue", NoId, Resumed(mem))
        /\ UNCHANGED kicks
     \/ /\ mem.pause = "no" /\ Unlocked
        /\ kicks' = kicks + 1
        /\ UNCHANGED <<mem, lock, saved>>
  /\ UNCHANGED <<disk, prior, runVars, dispatching, disp, userVars, boot, history>>

ContinueSaved ==
  /\ lock.op = "continue"
  /\ \/ Commit /\ barrier' = FALSE /\ kicks' = kicks + 1
     \/ Rollback("continue") /\ UNCHANGED <<barrier, kicks>>
  /\ UNCHANGED <<prior, runVars, dispatching, disp, userVars, boot, acked, dropped,
                 execs>>

\* JobStop: PauseMessageQueueForStop, then Stop the run if the job is running.
PauseMessageQueueForStop ==
  /\ boot = "up" /\ "stop" \in UserOps /\ stopper = "idle"
  /\ mem.life = "live"
  /\ mem.status = "running" \/ mem.queue # <<>>
  /\ \/ /\ mem.pause # "user_stopped"
        /\ Acquire("pause", NoId, Stopped(mem))
        /\ UNCHANGED <<stopper, barrier>>
     \/ /\ mem.pause = "user_stopped" /\ Unlocked
        /\ stopper' = "cancel" /\ barrier' = TRUE
        /\ UNCHANGED <<mem, lock, saved>>
  /\ UNCHANGED <<disk, prior, runVars, dispVars, deleter, boot, acked, dropped,
                 execs>>

PauseSaved ==
  /\ lock.op = "pause"
  /\ \/ Commit /\ barrier' = TRUE /\ stopper' = "cancel"
     \/ Rollback("pause") /\ UNCHANGED <<barrier, stopper>>
  /\ UNCHANGED <<prior, runVars, dispVars, deleter, boot, acked, dropped, execs>>

\* Stop: call the registered cancel function and drop it.
CancelRegistered ==
  /\ run' = [r \in Run |-> [run[r] EXCEPT !.cancelled = @ \/ r = cancels]]
  /\ cancels' = NoRun

JobStop ==
  /\ boot = "up" /\ stopper = "cancel"
  /\ stopper' = "idle"
  /\ IF mem.status = "running" THEN CancelRegistered ELSE UNCHANGED <<run, cancels>>
  /\ UNCHANGED <<jobVars, dones, dispVars, deleter, boot, history>>

(***************************************************************************)
(* Deleting the job: tombstone, stop the run, then remove the directory.   *)
(* StopAndWait gives up after a timeout, so the removal may find the run   *)
(* still alive.  Both saves write disk first and memory second.            *)
(***************************************************************************)
MarkDeleted ==
  /\ boot = "up" /\ "deleteJob" \in UserOps /\ deleter = "idle"
  /\ Unlocked /\ mem.life = "live"
  /\ mem' = [mem EXCEPT !.life = "deleted"]
  /\ disk' = mem' /\ saved' = mem'
  /\ deleter' = "stop"
  /\ UNCHANGED <<lock, prior, runVars, dispVars, stopper, boot, history>>

StopDeleted ==
  /\ boot = "up" /\ deleter = "stop"
  /\ CancelRegistered
  /\ deleter' = "remove"
  /\ UNCHANGED <<jobVars, dones, dispVars, stopper, boot, history>>

RemoveJob ==
  /\ boot = "up" /\ deleter = "remove"
  /\ Unlocked
  /\ mem' = [mem EXCEPT !.life = "removed"]
  /\ disk' = [disk EXCEPT !.life = "removed"]
  /\ saved' = mem'
  /\ deleter' = "idle"
  /\ UNCHANGED <<lock, prior, runVars, dispVars, stopper, boot, history>>

(***************************************************************************)
(* SendMessage.  The run's cancel and done entries are registered before   *)
(* the save and withdrawn if it fails.                                     *)
(***************************************************************************)
BeginStart(op, i, r) ==
  /\ MayStart(mem, i)
  /\ Acquire(op, i, Started(mem, i))
  /\ run[r].pc = "idle"
  /\ run' = [run EXCEPT ![r] = [IdleRun EXCEPT !.pc = "starting", !.id = i]]
  /\ cancels' = r /\ dones' = r

StartCommitted(r) ==
  /\ run[r].pc = "starting"
  /\ Commit
  /\ prior' = IF saved.status \in {"completed", "failed"} THEN saved.status ELSE prior
  /\ run' = [run EXCEPT ![r].pc = "body"]
  /\ execs' = [execs EXCEPT ![run[r].id] = @ + 1]
  /\ UNCHANGED <<cancels, dones>>

StartAborted(r) ==
  /\ run[r].pc = "starting"
  /\ Rollback("start")
  /\ run' = [run EXCEPT ![r] = IdleRun]
  /\ cancels' = IF cancels = r THEN NoRun ELSE cancels
  /\ dones' = IF dones = r THEN NoRun ELSE dones
  /\ UNCHANGED <<prior, execs>>

\* The IM gateway sends a message straight to the job.
SendDirect(i, r) ==
  /\ boot = "up"
  /\ BeginStart("direct", i, r)
  /\ UNCHANGED <<disk, prior, dispVars, userVars, boot, history>>

DirectSaved(r) ==
  /\ lock.op = "direct"
  /\ StartCommitted(r) \/ StartAborted(r)
  /\ UNCHANGED <<dispVars, userVars, boot, acked, dropped, barrier>>

(***************************************************************************)
(* The dispatcher goroutine: dispatchMessageQueueHead, then, unless it     *)
(* started a run, finishMessageQueueDispatch.                              *)
(***************************************************************************)
DispGoto(d, pc) == disp' = [disp EXCEPT ![d].pc = pc]

DispCheck(d) ==
  /\ disp[d].pc = "check"
  /\ IF Dispatchable(mem)
     THEN \E k \in DOMAIN mem.queue :
            /\ IsFirstWaiting(mem.queue, k)
            /\ disp' = [disp EXCEPT ![d] = [pc |-> "dones", item |-> mem.queue[k].id]]
     ELSE DispGoto(d, "finish")
  /\ UNCHANGED <<jobVars, runVars, dispatching, kicks, userVars, boot, history>>

DispDones(d) ==
  /\ disp[d].pc = "dones"
  /\ DispGoto(d, IF dones = NoRun THEN "prepare" ELSE "finish")
  /\ UNCHANGED <<jobVars, runVars, dispatching, kicks, userVars, boot, history>>

\* prepareQueuedJobDispatch: session, agent revision and execution gate.
DispPrepare(d) ==
  /\ disp[d].pc = "prepare"
  /\ \/ mem.life # "removed" /\ DispGoto(d, "send")
     \/ (mem.life = "removed" \/ "prepare" \in Faults) /\ DispGoto(d, "block")
  /\ UNCHANGED <<jobVars, runVars, dispatching, kicks, userVars, boot, history>>

\* SendMessage refuses: a deleted job blocks the item, the rest ends the dispatch.
DispRefused(d) ==
  /\ disp[d].pc = "send"
  /\ Unlocked
  /\ ~MayStart(mem, disp[d].item)
  /\ DispGoto(d, IF mem.life = "live" THEN "finish" ELSE "block")
  /\ UNCHANGED <<jobVars, runVars, dispatching, kicks, userVars, boot, history>>

DispSend(d, r) ==
  /\ disp[d].pc = "send"
  /\ BeginStart("dispatch", disp[d].item, r)
  /\ DispGoto(d, "sendSave")
  /\ UNCHANGED <<disk, prior, dispatching, kicks, userVars, boot, history>>

\* The run inherits the dispatch flag; a failed save blocks the item.
DispSendSaved(d, r) ==
  /\ disp[d].pc = "sendSave"
  /\ \/ StartCommitted(r) /\ disp' = [disp EXCEPT ![d] = IdleDisp]
     \/ StartAborted(r) /\ DispGoto(d, "block")
  /\ UNCHANGED <<dispatching, kicks, userVars, boot, acked, dropped, barrier>>

DispBlock(d) ==
  /\ disp[d].pc = "block"
  /\ IF mem.life # "removed" /\ HeadIs(mem.queue, disp[d].item)
     THEN Acquire("dispatch", disp[d].item, Blocked(mem, disp[d].item)) /\ DispGoto(d, "blockSave")
     ELSE Unlocked /\ DispGoto(d, "finish") /\ UNCHANGED <<mem, lock, saved>>
  /\ UNCHANGED <<disk, prior, runVars, dispatching, kicks, userVars, boot, history>>

\* blockMessageQueueHead itself releases the dispatch flag, whatever the save did.
DispBlockSaved(d) ==
  /\ disp[d].pc = "blockSave"
  /\ Commit \/ Rollback("block")
  /\ dispatching' = FALSE
  /\ DispGoto(d, "finish")
  /\ UNCHANGED <<prior, runVars, kicks, userVars, boot, history>>

DispFinish(d) ==
  /\ disp[d].pc = "finish"
  /\ dispatching' = FALSE
  /\ DispGoto(d, "recheck")
  /\ UNCHANGED <<jobVars, runVars, kicks, userVars, boot, history>>

Ready == Dispatchable(mem) /\ dones = NoRun

DispRecheck(d) ==
  /\ disp[d].pc = "recheck"
  /\ LET rest == [disp EXCEPT ![d] = IdleDisp]
     IN  IF Ready THEN RequestDispatch(rest) ELSE disp' = rest /\ UNCHANGED dispatching
  /\ UNCHANGED <<jobVars, runVars, kicks, userVars, boot, history>>

(***************************************************************************)
(* The run goroutine: runInteractive and its deferred calls.               *)
(***************************************************************************)
RunGoto(r, pc) == run' = [run EXCEPT ![r].pc = pc]

\* The agent's turn returns (also interrupted), or fails or panics (failJob).
RunBody(r) ==
  /\ run[r].pc = "body"
  /\ \/ RunGoto(r, "exit")
     \/ run' = [run EXCEPT ![r].pc = "term", ![r].outcome = "failed"]
  /\ UNCHANGED <<jobVars, cancels, dones, dispVars, userVars, boot, history>>

\* The deferred check reads the status under s.mu alone.
RunExit(r) ==
  /\ run[r].pc = "exit"
  /\ IF mem.status # "running"
     THEN RunGoto(r, "clear")
     ELSE run' = [run EXCEPT ![r].pc = "term",
                             ![r].outcome = IF run[r].cancelled THEN "stopped" ELSE "completed"]
  /\ UNCHANGED <<jobVars, cancels, dones, dispVars, userVars, boot, history>>

\* finishJob, stopJob, failJob.
RunTerm(r) ==
  /\ run[r].pc = "term"
  /\ Acquire("run", NoId, Terminated(mem, run[r].outcome, prior))
  /\ prior' = "none"
  /\ RunGoto(r, "termSave")
  /\ UNCHANGED <<disk, cancels, dones, dispVars, userVars, boot, acked, dropped, execs,
                 barrier>>

\* Mutant of RunTermSaved: a failed save rolls the terminal status back.
RunTermSavedRollback(r) ==
  /\ run[r].pc = "termSave"
  /\ Commit \/ Rollback("terminal")
  /\ RunGoto(r, IF run[r].outcome = "failed" THEN "exit" ELSE "clear")
  /\ UNCHANGED <<prior, cancels, dones, dispVars, userVars, boot, history>>

RunTermSaved(r) ==
  /\ run[r].pc = "termSave"
  /\ Commit \/ KeepUnsaved("terminal")
  /\ RunGoto(r, IF run[r].outcome = "failed" THEN "exit" ELSE "clear")
  /\ UNCHANGED <<prior, cancels, dones, dispVars, userVars, boot, history>>

\* clearCancel and cleanupDone only remove this run's own entries.
RunClear(r) ==
  /\ run[r].pc = "clear"
  /\ cancels' = IF cancels = r THEN NoRun ELSE cancels
  /\ dones' = IF dones = r THEN NoRun ELSE dones
  /\ RunGoto(r, IF run[r].id \in QueueId THEN "complete" ELSE "clearPause")
  /\ UNCHANGED <<jobVars, dispVars, userVars, boot, history>>

RunComplete(r) ==
  /\ run[r].pc = "complete"
  /\ LET mine == {k \in DOMAIN mem.queue :
                    mem.queue[k] = [id |-> run[r].id, state |-> "processing"]}
     IN  IF mem.life # "removed" /\ mine # {}
         THEN /\ \E k \in mine : /\ \A i \in mine : k <= i
                                 /\ Acquire("run", NoId, WithoutItem(mem, k))
              /\ RunGoto(r, "completeSave")
         ELSE Unlocked /\ RunGoto(r, "clearPause") /\ UNCHANGED <<mem, lock, saved>>
  /\ UNCHANGED <<disk, prior, cancels, dones, dispVars, userVars, boot, history>>

RunCompleteSaved(r) ==
  /\ run[r].pc = "completeSave"
  /\ Commit \/ Rollback("complete")
  /\ RunGoto(r, "clearPause")
  /\ UNCHANGED <<prior, cancels, dones, dispVars, userVars, boot, history>>

RunClearPause(r) ==
  /\ run[r].pc = "clearPause"
  /\ IF mem.life # "removed" /\ mem.pause # "no" /\ mem.queue = <<>>
     THEN Acquire("run", NoId, Resumed(mem)) /\ RunGoto(r, "clearPauseSave")
     ELSE Unlocked /\ RunGoto(r, "finish") /\ UNCHANGED <<mem, lock, saved>>
  /\ UNCHANGED <<disk, prior, cancels, dones, dispVars, userVars, boot, history>>

RunClearPauseSaved(r) ==
  /\ run[r].pc = "clearPauseSave"
  /\ \/ Commit /\ barrier' = (barrier /\ mem.status = "running")
     \/ Rollback("clearPause") /\ UNCHANGED barrier
  /\ RunGoto(r, "finish")
  /\ UNCHANGED <<prior, cancels, dones, dispVars, userVars, boot, acked, dropped, execs>>

\* A queued message's run gives the dispatch flag back; a direct one only requests.
RunFinish(r) ==
  /\ run[r].pc = "finish"
  /\ IF run[r].id \in QueueId
     THEN dispatching' = FALSE /\ RunGoto(r, "recheck") /\ UNCHANGED disp
     ELSE RequestDispatch(disp) /\ run' = [run EXCEPT ![r] = IdleRun]
  /\ UNCHANGED <<jobVars, cancels, dones, kicks, userVars, boot, history>>

\* Mutant of RunRecheck: the finished run does not look at the queue again.
RunRecheckSkipped(r) ==
  /\ run[r].pc = "recheck"
  /\ run' = [run EXCEPT ![r] = IdleRun]
  /\ UNCHANGED <<disp, dispatching>>
  /\ UNCHANGED <<jobVars, cancels, dones, kicks, userVars, boot, history>>

RunRecheck(r) ==
  /\ run[r].pc = "recheck"
  /\ run' = [run EXCEPT ![r] = IdleRun]
  /\ IF Ready THEN RequestDispatch(disp) ELSE UNCHANGED <<disp, dispatching>>
  /\ UNCHANGED <<jobVars, cancels, dones, kicks, userVars, boot, history>>

(***************************************************************************)
(* A crash loses everything but job.json.  A restart loads it (load,       *)
(* reconcileLoadedJob) and installs the dispatcher                         *)
(* (SetMessageQueueDispatcher), before it serves requests.                 *)
(***************************************************************************)
Crash ==
  /\ "crash" \in Faults
  /\ boot' = "down"
  /\ mem' = disk /\ saved' = disk
  /\ lock' = NoLock /\ prior' = "none"
  /\ run' = [r \in Run |-> IdleRun]
  /\ cancels' = NoRun /\ dones' = NoRun
  /\ dispatching' = FALSE /\ kicks' = 0
  /\ disp' = [d \in Dispatcher |-> IdleDisp]
  /\ stopper' = "idle" /\ deleter' = "idle"
  /\ UNCHANGED <<disk, acked, dropped, execs, barrier>>

\* A tombstoned job is swept (or kept, if the sweep fails) and never loaded.
Load ==
  /\ boot = "down"
  /\ boot' = "loaded"
  /\ IF disk.life = "live"
     THEN /\ mem' = Reconciled(disk)
          /\ \/ disk' = mem'
             \/ "load" \in Faults /\ UNCHANGED disk
     ELSE /\ mem' = [disk EXCEPT !.life = "removed"]
          /\ disk' \in {disk, mem'}
  /\ saved' = mem'
  /\ UNCHANGED <<lock, prior, runVars, dispVars, userVars, history>>

SetMessageQueueDispatcher ==
  /\ boot = "loaded"
  /\ boot' = "up"
  /\ \/ /\ mem.life # "removed" /\ HeadInterrupted(mem)
        /\ mem' = WithoutInterrupted(mem) /\ disk' = mem'
     \/ /\ mem.life = "removed" \/ ~HeadInterrupted(mem) \/ "recover" \in Faults
        /\ UNCHANGED <<mem, disk>>
  /\ saved' = mem'
  /\ IF mem'.life # "removed" /\ mem'.queue # <<>> /\ mem'.pause = "no"
     THEN RequestDispatch(disp)
     ELSE UNCHANGED <<disp, dispatching>>
  /\ UNCHANGED <<lock, prior, runVars, kicks, userVars, history>>

----------------------------------------------------------------------------
UserStep ==
  \/ \E i \in QueueId : Submit(i)
  \/ \E k \in DOMAIN mem.queue : DeleteQueuedMessage(k)
  \/ ContinueMessageQueue
  \/ PauseMessageQueueForStop
  \/ MarkDeleted
  \/ \E i \in DirectId, r \in Run : SendDirect(i, r)

HandlerStep ==
  \/ SubmitSaved \/ DeleteSaved \/ ContinueSaved \/ PauseSaved
  \/ Kick \/ JobStop \/ StopDeleted \/ RemoveJob
  \/ \E r \in Run : DirectSaved(r)

DispatcherStep(d) ==
  \/ DispCheck(d) \/ DispDones(d) \/ DispPrepare(d) \/ DispRefused(d)
  \/ \E r \in Run : DispSend(d, r) \/ DispSendSaved(d, r)
  \/ DispBlock(d) \/ DispBlockSaved(d) \/ DispFinish(d) \/ DispRecheck(d)

RunStep(r) ==
  \/ RunBody(r) \/ RunExit(r) \/ RunTerm(r) \/ RunTermSaved(r) \/ RunClear(r)
  \/ RunComplete(r) \/ RunCompleteSaved(r) \/ RunClearPause(r) \/ RunClearPauseSaved(r)
  \/ RunFinish(r) \/ RunRecheck(r)

BootStep == Load \/ SetMessageQueueDispatcher

Next ==
  \/ UserStep
  \/ HandlerStep
  \/ \E d \in Dispatcher : DispatcherStep(d)
  \/ \E r \in Run : RunStep(r)
  \/ Crash
  \/ BootStep

Spec == Init /\ [][Next]_vars

(***************************************************************************)
(* Safety.                                                                 *)
(***************************************************************************)
\* SendMessage hands one client message id to the agent at most once, whatever
\* the retries, the crashes, the failed saves and the two ways in.
AtMostOnce == \A i \in Id : execs[i] <= 1

\* A message whose DeleteQueuedMessage succeeded is never executed: deletion and
\* the dispatcher's claim exclude each other.
DeletedNeverRuns == \A i \in dropped : execs[i] = 0

\* Once SubmitMessage has answered, job.json holds the message in the queue until
\* the agent was started on it or the user deleted it.
NoLostMessage ==
  disk.life = "live" => \A i \in acked : Waits(disk, i) \/ execs[i] > 0 \/ i \in dropped

\* In memory and on disk the queue and the receipts never contradict each other,
\* through claims, failed saves, blocks, deletions and restarts.
QueueMatchesReceipts == Coherent(mem) /\ Coherent(disk)

\* The states a client message's durable record moves through, in one direction.
Lifecycle ==
  {<<"none", "queued">>, <<"none", "processing">>, <<"queued", "processing">>,
   <<"queued", "blocked">>, <<"queued", "deleted">>, <<"blocked", "deleted">>}
  \cup {"processing"} \X {"completed", "failed", "stopped", "interrupted"}

\* No step takes a durable receipt backwards or past a state: finishing, blocking,
\* rolling back and restarting all respect the one-way state machine.
ReceiptsMoveForward ==
  [][\A i \in Id : disk'.receipt[i] = disk.receipt[i]
                     \/ <<disk.receipt[i], disk'.receipt[i]>> \in Lifecycle]_vars

\* A running job has a goroutine that will still apply its terminal status: no
\* interleaving of exits, failed saves and new sends strands it in running.
RunningHasRun ==
  boot = "up" /\ mem.life # "removed" /\ mem.status = "running" =>
    \E r \in Run : run[r].pc \in {"starting", "body", "term", "exit"}

\* A tombstone is final: no late save of a run or a handler writes job.json back
\* after MarkDeleted or RemoveJob, and no agent starts on a deleted job.
TombstoneFinal ==
  [][/\ disk.life # "live" => disk'.life # "live"
     /\ disk.life = "removed" => disk'.life = "removed"
     /\ disk.life # "live" => execs' = execs]_vars

\* Until the user continues, a stopped job starts no queued message (a pause over
\* an empty, idle queue is lifted by the service itself).
StopBarrier ==
  [][barrier => \A i \in QueueId : execs'[i] = execs[i]]_vars

(***************************************************************************)
(* Liveness.  The goroutines are scheduled (weak fairness), a mutex is     *)
(* granted to a goroutine that keeps asking and a save that is retried for *)
(* ever succeeds once (strong fairness).  Users and crashes are not fair.  *)
(***************************************************************************)
Fairness ==
  /\ WF_vars(SubmitSaved) /\ WF_vars(DeleteSaved) /\ WF_vars(ContinueSaved) /\ WF_vars(PauseSaved)
  /\ WF_vars(Kick) /\ WF_vars(JobStop)
  /\ \A r \in Run : SF_vars(RunStep(r)) /\ WF_vars(DirectSaved(r))
  /\ \A d \in Dispatcher : SF_vars(DispatcherStep(d))
  /\ WF_vars(BootStep)

FairSpec == Spec /\ Fairness

\* An accepted message is eventually executed, unless it is deleted or blocked or
\* the queue is paused: no submission is left behind by a finishing run or
\* dispatcher that did not see it.
AcceptedEventuallyRuns ==
  \A i \in QueueId :
    i \in acked ~> \/ execs[i] > 0
                   \/ i \in dropped
                   \/ mem.pause # "no"
                   \/ mem.life # "live"
=============================================================================
