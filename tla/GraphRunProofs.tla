--------------------------- MODULE GraphRunProofs ---------------------------
(***************************************************************************)
(* One scheduler per run, nothing left after a deletion, no work lost: for *)
(* any number of requests, instances, generations, crashes and failing     *)
(* writes.                                                                 *)
(*                                                                         *)
(* What makes the generations exclusive is that the lifecycle's handle     *)
(* names the one that is prepared or runs, from before the run can be seen *)
(* until after its last write; everything the code does in between without *)
(* the lock is safe because a request that finds the handle taken, or the  *)
(* deleted mark, leaves the files alone.  The rest is about which request  *)
(* prepares a generation (only one at a time), what a deletion has reached *)
(* (the Job is marked before anything is joined), and whose copy of the    *)
(* instances the files follow.                                             *)
(***************************************************************************)
EXTENDS GraphRun, TLAPS, SequenceTheorems

CallPc ==
  {"idle", "stPersist", "stJob", "signal", "forceRead", "forceCommit", "swCapture", "swRead",
   "swLoop", "swSend", "swJoin", "swCheck", "swSettle", "jdDelete", "jdCleanup", "delete",
   "rsRead", "rsClaim", "rsPrepare", "rsMark", "rsJob"}
Phase == {"unused", "prep", "launched", "live", "settled", "done"}

Insts == [Keys -> InstStatus]
Lifecycle == [handle : 0 .. MaxGen, deleted : BOOLEAN, deleteJob : BOOLEAN]
JobState == [present : BOOLEAN, status : JobStatus, linked : BOOLEAN, deleted : BOOLEAN]
Generation == [phase : Phase, ctrl : Seq(Signals), st : RunStatus, insts : Insts]
Original == [run : RunStatus \cup {"none"}, insts : Insts]
Request == [pc : CallPc, op : Ops \cup {"none"}, gen : 0 .. MaxGen, changed : BOOLEAN,
            orig : Original]

\* The variables, every field of them.
Types ==
  /\ up \in BOOLEAN /\ located \in BOOLEAN
  /\ lc \in Lifecycle
  /\ run \in RunStatus \cup {"none"} /\ insts \in Insts
  /\ job \in JobState
  /\ gens \in [Gen -> Generation] /\ \A g \in Gen : Len(gens[g].ctrl) <= CtrlCap
  /\ call \in [Callers -> Request]
  /\ \A c \in Callers : call[c].pc = "signal" => call[c].op \in {"stop", "step", "session", "cancel"}
  /\ crashes \in 0 .. MaxCrash /\ fails \in 0 .. MaxFail

LEMMA StatusTypes ==
  /\ {"pending", "running", "stepStopping", "sessionStopping", "stepStopped", "sessionStopped",
      "stopped", "failed", "timedOut", "recovering", "awaitingInput", "completed"} = RunStatus
  /\ TerminalJob \subseteq JobStatus
BY DEF RunStatus, SchedulerlessInFlight, InFlight, Stopping, Resumable, TerminalJob, JobStatus

LEMMA NoInstsType == NoInsts \in Insts
BY DEF NoInsts, Insts, InstStatus

LEMMA NoGenType == NoGen.ctrl = <<>> /\ NoGen \in Generation
BY NoInstsType DEF NoGen, Generation, Phase, RunStatus, SchedulerlessInFlight

LEMMA IdleType == Idle \in Request /\ Idle.pc = "idle" /\ Idle.op = "none"
BY NoInstsType, GraphRunAssumption
   DEF Idle, Request, CallPc, Original, GraphRunAssumption

\* SetGraphRunState leaves a Job with the fields of a Job.
LEMMA JobAfterType ==
  ASSUME Types, NEW st \in JobStatus
  PROVE  /\ JobAfter(st) \in JobState
         /\ JobAfter(st).present = job.present /\ JobAfter(st).deleted = job.deleted
         /\ job.linked => JobAfter(st).linked
         /\ JobAccepts(st) /\ st \notin TerminalJob => JobAfter(st).linked /\ ~job.deleted
BY DEF Types, JobAfter, JobAccepts, JobState

\* completeControl ends one generation and frees the handle only if it is its own.
LEMMA CompleteType ==
  ASSUME Types, NEW g \in Gen, Complete(g)
  PROVE  /\ gens' \in [Gen -> Generation] /\ \A h \in Gen : Len(gens'[h].ctrl) <= CtrlCap
         /\ lc' \in Lifecycle /\ lc'.deleted = lc.deleted
         /\ lc'.handle = IF lc.handle = g THEN 0 ELSE lc.handle
         /\ gens'[g].phase = "done" /\ \A h \in Gen \ {g} : gens'[h] = gens[h]
<1> DEFINE done == [NoGen EXCEPT !.phase = "done"]
<1>1. done \in Generation /\ done.phase = "done" /\ Len(done.ctrl) = 0
  BY NoGenType DEF Generation, Phase
<1>2. gens' = [gens EXCEPT ![g] = done]
  BY DEF Complete
<1>3. CtrlCap \in Nat
  BY GraphRunAssumption DEF GraphRunAssumption
<1> HIDE DEF done
<1>4. /\ gens' \in [Gen -> Generation] /\ \A h \in Gen : Len(gens'[h].ctrl) <= CtrlCap
      /\ gens'[g].phase = "done" /\ \A h \in Gen \ {g} : gens'[h] = gens[h]
  BY <1>1, <1>2, <1>3 DEF Types
<1>5. /\ lc' \in Lifecycle /\ lc'.deleted = lc.deleted
      /\ lc'.handle = IF lc.handle = g THEN 0 ELSE lc.handle
  BY GraphRunAssumption DEF Complete, Types, Lifecycle, GraphRunAssumption
<1> QED
  BY <1>4, <1>5

(***************************************************************************)
(* The requests' program counters and locals.                              *)
(***************************************************************************)
Controls == {"stop", "step", "session", "cancel"}

CallTypes ==
  /\ call \in [Callers -> Request]
  /\ \A c \in Callers : call[c].pc = "signal" => call[c].op \in Controls

LEMMA MoveTypes ==
  ASSUME Types, NEW c \in Callers, NEW r \in Request, r.pc = "signal" => r.op \in Controls,
         call' = [call EXCEPT ![c] = r]
  PROVE  CallTypes'
BY DEF Types, CallTypes, Controls

LEMMA GotoTypes ==
  ASSUME Types, NEW c \in Callers, NEW p \in CallPc \ {"signal"}, Goto(c, p)
  PROVE  CallTypes' /\ \E r \in Request : /\ call' = [call EXCEPT ![c] = r]
                                          /\ r = [call[c] EXCEPT !.pc = p]
<1>1. call[c] \in Request
  BY DEF Types
<1>2. [call[c] EXCEPT !.pc = p] \in Request /\ [call[c] EXCEPT !.pc = p].pc = p
  BY <1>1 DEF Request
<1>3. call' = [call EXCEPT ![c] = [call[c] EXCEPT !.pc = p]]
  BY DEF Goto, Types
<1> QED
  BY <1>2, <1>3, MoveTypes

LEMMA ReturnTypes ==
  ASSUME Types, NEW c \in Callers, Return(c)
  PROVE  CallTypes'
BY IdleType, MoveTypes DEF Return

\* Only the request, and what a look at the run may register.
LEMMA LookTypes ==
  ASSUME Types, CallTypes', lc' \in Lifecycle, located' \in BOOLEAN, job' \in JobState,
         UNCHANGED <<up, disk, gens, crashes, fails>>
  PROVE  Types'
BY DEF Types, CallTypes, Controls, disk

LEMMA ReadingTypes ==
  ASSUME Types, NEW c \in Callers,
         \/ ForceRead(c) \/ WaitCapture(c) \/ WaitRead(c) \/ WaitLoop(c) \/ WaitJoin(c)
         \/ WaitCheck(c) \/ WaitSettle(c) \/ WaitCancelled(c) \/ ResumeRead(c)
  PROVE  Types'
<1>1. /\ UNCHANGED <<up, disk, gens, crashes, fails, lc, located, job>>
      /\ lc' \in Lifecycle /\ located' \in BOOLEAN /\ job' \in JobState
  BY DEF Types, ForceRead, WaitCapture, WaitRead, WaitLoop, WaitJoin, WaitCheck, WaitSettle,
         WaitCancelled, ResumeRead
<1>2. call[c] \in Request /\ lc.handle \in 0 .. MaxGen
  BY DEF Types, Lifecycle
<1>3. {"jdDelete", "swLoop", "swRead", "swSend", "swCheck", "swJoin", "forceRead", "swSettle",
       "rsClaim"} \subseteq CallPc \ {"signal"}
  BY DEF CallPc
<1>4. CASE WaitCapture(c) \/ WaitRead(c) \/ WaitJoin(c) \/ WaitCheck(c) \/ WaitSettle(c)
  <2>1. \E p \in CallPc \ {"signal"} : Goto(c, p)
    BY <1>3, <1>4 DEF WaitCapture, WaitRead, WaitJoin, WaitCheck, WaitSettle
  <2> QED
    BY <1>1, <2>1, GotoTypes, LookTypes
<1>5. CASE WaitCancelled(c)
  BY <1>1, <1>5, ReturnTypes, LookTypes DEF WaitCancelled
<1>6. CASE ResumeRead(c)
  <2>1. Goto(c, "rsClaim") \/ Return(c)
    BY <1>6 DEF ResumeRead
  <2> QED
    BY <1>1, <1>3, <2>1, GotoTypes, ReturnTypes, LookTypes
<1>7. CASE WaitLoop(c)
  <2> DEFINE p == IF lc.deleted THEN "jdDelete" ELSE IF lc.handle # 0 THEN "swSend" ELSE "swCheck"
  <2> DEFINE g == IF lc.deleted THEN 0 ELSE lc.handle
  <2> DEFINE r == [call[c] EXCEPT !.pc = p, !.gen = g]
  <2>1. p \in CallPc \ {"signal"} /\ g \in 0 .. MaxGen
    BY <1>2, <1>3, GraphRunAssumption DEF GraphRunAssumption
  <2>2. call' = [call EXCEPT ![c] = r]
    BY <1>7 DEF WaitLoop, Types
  <2> HIDE DEF p, g
  <2>3. r \in Request /\ r.pc # "signal"
    BY <1>2, <2>1 DEF Request
  <2> QED
    BY <1>1, <2>2, <2>3, MoveTypes, LookTypes
<1>8. CASE ForceRead(c)
  <2>1. CASE \E p \in CallPc \ {"signal"} : Goto(c, p)
    BY <1>1, <2>1, GotoTypes, LookTypes
  <2>2. CASE Return(c)
    BY <1>1, <2>2, ReturnTypes, LookTypes
  <2>3. CASE \E b \in BOOLEAN : call' = [call EXCEPT ![c].pc = "forceCommit", ![c].changed = b]
    <3>1. PICK b \in BOOLEAN : call' = [call EXCEPT ![c].pc = "forceCommit", ![c].changed = b]
      BY <2>3
    <3> DEFINE r == [call[c] EXCEPT !.pc = "forceCommit", !.changed = b]
    <3>2. call' = [call EXCEPT ![c] = r]
      BY <3>1 DEF Types
    <3>3. r \in Request /\ r.pc # "signal"
      BY <1>2 DEF Request, CallPc
    <3> QED
      BY <1>1, <3>2, <3>3, MoveTypes, LookTypes
  <2>4. (\E k \in Keys : insts[k] = "running") \in BOOLEAN
    OBVIOUS
  <2> QED
    BY <1>3, <1>8, <2>1, <2>2, <2>3, <2>4 DEF ForceRead, Repaired, NothingToRepair
<1> QED
  BY <1>4, <1>5, <1>6, <1>7, <1>8

(***************************************************************************)
(* The files, the generations and the Job.                                 *)
(***************************************************************************)
GenTypes == gens \in [Gen -> Generation] /\ \A g \in Gen : Len(gens[g].ctrl) <= CtrlCap
DiskTypes == run \in RunStatus \cup {"none"} /\ insts \in Insts /\ located \in BOOLEAN

LEMMA AllTypes ==
  ASSUME up' \in BOOLEAN, lc' \in Lifecycle, job' \in JobState, CallTypes', GenTypes', DiskTypes',
         crashes' \in 0 .. MaxCrash, fails' \in 0 .. MaxFail
  PROVE  Types'
BY DEF Types, CallTypes, GenTypes, DiskTypes, Controls

LEMMA TheTypes ==
  ASSUME Types
  PROVE  /\ up \in BOOLEAN /\ lc \in Lifecycle /\ job \in JobState /\ CallTypes /\ GenTypes
         /\ DiskTypes /\ crashes \in 0 .. MaxCrash /\ fails \in 0 .. MaxFail
         /\ gens \in [Gen -> Generation] /\ call \in [Callers -> Request]
         /\ 1 \in Gen
BY GraphRunAssumption DEF Types, CallTypes, GenTypes, DiskTypes, Controls, Gen, GraphRunAssumption

LEMMA GenMoves ==
  ASSUME Types, NEW g \in Gen, NEW r \in Generation, Len(r.ctrl) <= CtrlCap,
         gens' = [gens EXCEPT ![g] = r]
  PROVE  GenTypes'
BY DEF Types, GenTypes

LEMMA PhaseMoves ==
  ASSUME Types, NEW g \in Gen, NEW p \in Phase, gens' = [gens EXCEPT ![g].phase = p]
  PROVE  GenTypes' /\ gens' = [gens EXCEPT ![g] = [gens[g] EXCEPT !.phase = p]]
<1> DEFINE r == [gens[g] EXCEPT !.phase = p]
<1>1. gens[g] \in Generation /\ Len(gens[g].ctrl) <= CtrlCap
  BY DEF Types
<1>2. r \in Generation /\ r.ctrl = gens[g].ctrl
  BY <1>1 DEF Generation
<1>3. gens' = [gens EXCEPT ![g] = r]
  BY DEF Types
<1> QED
  BY <1>1, <1>2, <1>3, GenMoves

LEMMA SignalTypes ==
  ASSUME Types, NEW g \in Gen, NEW sig \in Signals, Len(gens[g].ctrl) < CtrlCap,
         gens' = [gens EXCEPT ![g].ctrl = Append(@, sig)]
  PROVE  /\ GenTypes'
         /\ \A h \in Gen : gens'[h].phase = gens[h].phase /\ gens'[h].insts = gens[h].insts
<1> DEFINE q == Append(gens[g].ctrl, sig)
<1> DEFINE r == [gens[g] EXCEPT !.ctrl = q]
<1>1. gens[g] \in Generation /\ gens[g].ctrl \in Seq(Signals) /\ CtrlCap \in Nat
  BY GraphRunAssumption DEF Types, Generation, GraphRunAssumption
<1>2. q \in Seq(Signals) /\ Len(q) = Len(gens[g].ctrl) + 1 /\ Len(gens[g].ctrl) \in Nat
  BY <1>1, AppendProperties, LenProperties
<1>3. gens' = [gens EXCEPT ![g] = r]
  BY DEF Types
<1> HIDE DEF q
<1>4. /\ r \in Generation /\ r.ctrl = q
      /\ r.phase = gens[g].phase /\ r.insts = gens[g].insts
  BY <1>1, <1>2 DEF Generation
<1>5. Len(r.ctrl) <= CtrlCap
  BY <1>1, <1>2, <1>4
<1>6. GenTypes'
  BY <1>3, <1>4, <1>5, GenMoves
<1> QED
  BY <1>3, <1>4, <1>6 DEF Types

LEMMA FailTypes ==
  ASSUME Types, WriteFails
  PROVE  fails' \in 0 .. MaxFail
BY GraphRunAssumption DEF Types, WriteFails, GraphRunAssumption

LEMMA PersistTypes ==
  ASSUME Types, NEW m \in Insts, NEW st \in RunStatus, Persist(m, st)
  PROVE  DiskTypes' /\ fails' \in 0 .. MaxFail
BY TheTypes, FailTypes DEF DiskTypes, Persist

LEMMA InterruptedType ==
  ASSUME NEW m \in Insts
  PROVE  Interrupted(m) \in Insts /\ \A k \in Keys : Interrupted(m)[k] = "succeeded" <=> m[k] = "succeeded"
BY DEF Interrupted, Insts, InstStatus

LEMMA ResetType ==
  ASSUME NEW m \in Insts
  PROVE  ResetInsts(m) \in Insts /\ \A k \in Keys : ResetInsts(m)[k] = "succeeded" <=> m[k] = "succeeded"
BY DEF ResetInsts, Insts, InstStatus

LEMMA EntryTypes ==
  ASSUME Types, NEW c \in Callers, NEW p \in CallPc, NEW op \in Ops,
         p = "signal" => op \in Controls,
         \/ call' = [call EXCEPT ![c] = [Idle EXCEPT !.pc = p, !.op = op]]
         \/ call' = [call EXCEPT ![c] = [Idle EXCEPT !.pc = p, !.op = op, !.gen = 1]]
  PROVE  CallTypes'
<1> DEFINE r == [Idle EXCEPT !.pc = p, !.op = op]
<1> DEFINE q == [Idle EXCEPT !.pc = p, !.op = op, !.gen = 1]
<1>1. r \in Request /\ r.pc = p /\ r.op = op
  BY IdleType DEF Request
<1>2. q \in Request /\ q.pc = p /\ q.op = op
  <2>1. 1 \in 0 .. MaxGen
    BY GraphRunAssumption DEF GraphRunAssumption
  <2>2. q = [r EXCEPT !.gen = 1]
    BY IdleType DEF Request
  <2> HIDE DEF q, r
  <2> QED
    BY <1>1, <2>1, <2>2 DEF Request
<1>3. call' = [call EXCEPT ![c] = r] \/ call' = [call EXCEPT ![c] = q]
  OBVIOUS
<1> HIDE DEF r, q
<1> QED
  BY <1>1, <1>2, <1>3, MoveTypes

LEMMA EntryStepTypes ==
  ASSUME Types, NEW c \in Callers,
         (\E op \in Ops : ResolveJobGraphRun(c, op)) \/ StartClaim(c) \/ JobDeleteMark(c)
  PROVE  Types'
<1> USE TheTypes
<1>1. ASSUME NEW op \in Ops, ResolveJobGraphRun(c, op) PROVE Types'
  <2>1. EntryOf(op) \in CallPc /\ (EntryOf(op) = "signal" => op \in Controls)
    BY <1>1, GraphRunAssumption DEF ResolveJobGraphRun, EntryOf, CallPc, Controls, GraphRunAssumption
  <2>2. CallTypes'
    BY <1>1, <2>1, EntryTypes DEF ResolveJobGraphRun
  <2> QED
    BY <1>1, <2>2, LookTypes DEF ResolveJobGraphRun, Lifecycle
<1>2. CASE StartClaim(c)
  <2>1. CallTypes'
    BY <1>2, EntryTypes DEF StartClaim, CallPc
  <2>2. GenTypes'
    BY <1>2, PhaseMoves DEF StartClaim, Phase
  <2>3. lc' \in Lifecycle
    BY <1>2, GraphRunAssumption DEF StartClaim, Lifecycle, GraphRunAssumption
  <2> QED
    BY <1>2, <2>1, <2>2, <2>3, AllTypes DEF StartClaim, DiskTypes, disk
<1>3. CASE JobDeleteMark(c)
  <2>1. CallTypes'
    BY <1>3, EntryTypes DEF JobDeleteMark, CallPc
  <2> QED
    BY <1>3, <2>1, LookTypes DEF JobDeleteMark, Lifecycle, JobState, DiskTypes
<1> QED
  BY <1>1, <1>2, <1>3

LEMMA StartTypes ==
  ASSUME Types, NEW c \in Callers, call[c].gen \in Gen, StartPersist(c) \/ StartBind(c)
  PROVE  Types'
<1> USE TheTypes
<1>1. ASSUME StartAbandon(c), fails' \in 0 .. MaxFail, UNCHANGED <<up, crashes>> PROVE Types'
  <2>1. lc' \in Lifecycle /\ GenTypes'
    BY <1>1, CompleteType DEF StartAbandon, GenTypes
  <2>2. DiskTypes' /\ job' \in JobState
    BY <1>1, NoInstsType DEF StartAbandon, DiskTypes, JobState
  <2>3. CallTypes'
    BY <1>1, ReturnTypes DEF StartAbandon
  <2> QED
    BY <1>1, <2>1, <2>2, <2>3, AllTypes
<1>2. CASE StartPersist(c)
  <2>1. CASE WriteFails /\ StartAbandon(c)
    BY <1>1, <1>2, <2>1, FailTypes DEF StartPersist
  <2>2. CASE Goto(c, "stJob") /\ UNCHANGED <<lc, gens, job, fails>> /\ run' = "pending"
             /\ insts' = NoInsts /\ located' = TRUE
    <3>1. CallTypes'
      BY <2>2, GotoTypes DEF CallPc
    <3> QED
      BY <1>2, <2>2, <3>1, AllTypes, NoInstsType, StatusTypes DEF StartPersist, DiskTypes, GenTypes
  <2> QED
    BY <1>2, <2>1, <2>2 DEF StartPersist
<1>3. CASE StartBind(c)
  <2>1. CASE StartAbandon(c)
    BY <1>1, <1>3, <2>1, FailTypes DEF StartBind
  <2>2. CASE /\ job' = JobAfter("pending")
             /\ gens' = [gens EXCEPT ![call[c].gen].phase = "launched"]
             /\ Return(c)
             /\ UNCHANGED <<lc, located, disk, fails>>
    BY <1>3, <2>2, ReturnTypes, PhaseMoves, JobAfterType, AllTypes
       DEF StartBind, Phase, DiskTypes, disk, JobStatus
  <2> QED
    BY <1>3, <2>1, <2>2 DEF StartBind
<1> QED
  BY <1>2, <1>3

LEMMA SendTypes ==
  ASSUME Types, NEW c \in Callers, SignalAndSnapshot(c) \/ WaitSend(c)
  PROVE  Types'
<1> USE TheTypes
<1>1. CASE SignalAndSnapshot(c)
  <2>1. CallTypes'
    <3>1. Goto(c, "forceRead") \/ Return(c)
      BY <1>1 DEF SignalAndSnapshot
    <3> QED
      BY <3>1, GotoTypes, ReturnTypes DEF CallPc
  <2>2. GenTypes'
    <3>1. \/ gens' = gens
          \/ /\ lc.handle # 0 /\ Len(gens[lc.handle].ctrl) < CtrlCap
             /\ gens' = [gens EXCEPT ![lc.handle].ctrl = Append(@, SignalOf(call[c].op))]
      BY <1>1 DEF SignalAndSnapshot
    <3>2. lc.handle # 0 => lc.handle \in Gen
      BY GraphRunAssumption DEF Lifecycle, Gen, GraphRunAssumption
    <3>3. SignalOf(call[c].op) \in Signals
      BY <1>1 DEF SignalAndSnapshot, At, CallTypes, Controls, SignalOf, Signals
    <3> QED
      BY <3>1, <3>2, <3>3, SignalTypes DEF GenTypes
  <2> QED
    BY <1>1, <2>1, <2>2, AllTypes DEF SignalAndSnapshot, DiskTypes, disk
<1>2. CASE WaitSend(c)
  <2>1. CallTypes'
    <3>1. Goto(c, "swJoin") \/ Goto(c, "swLoop")
      BY <1>2 DEF WaitSend
    <3> QED
      BY <3>1, GotoTypes DEF CallPc
  <2>2. GenTypes'
    <3> DEFINE g == call[c].gen
    <3>1. \/ gens' = gens
          \/ /\ Len(gens[g].ctrl) < CtrlCap
             /\ gens' = [gens EXCEPT ![g].ctrl = Append(@, "hard")]
      BY <1>2 DEF WaitSend
    <3>2. CASE g \in Gen
      BY <3>1, <3>2, SignalTypes DEF GenTypes, Signals
    <3>3. CASE g \notin Gen
      <4>1. gens' = gens
        BY <3>1, <3>3
      <4> QED
        BY <4>1 DEF GenTypes
    <3> QED
      BY <3>2, <3>3
  <2> QED
    BY <1>2, <2>1, <2>2, AllTypes DEF WaitSend, DiskTypes, disk
<1> QED
  BY <1>1, <1>2

LEMMA RepairTypes ==
  ASSUME Types, NEW c \in Callers, ForceCommit(c)
  PROVE  Types'
<1> USE TheTypes
<1>1. CallTypes'
  <2>1. Return(c) \/ Goto(c, "jdDelete") \/ Goto(c, "swLoop")
    BY DEF ForceCommit, Repaired, NothingToRepair
  <2> QED
    BY <2>1, ReturnTypes, GotoTypes DEF CallPc
<1>2. job' \in JobState
  <2>1. job' = job \/ job' = JobAfter("stopped")
    BY DEF ForceCommit
  <2> QED
    BY <2>1, JobAfterType DEF JobStatus
<1>3. DiskTypes' /\ fails' \in 0 .. MaxFail
  <2>1. run' \in {run, "stopped"} /\ insts' \in {insts, NoInsts} /\ located' \in {located, TRUE}
        /\ (fails' = fails \/ WriteFails)
    BY DEF ForceCommit, ForcedInsts, disk
  <2> QED
    BY <2>1, FailTypes, NoInstsType, StatusTypes DEF DiskTypes
<1> QED
  BY <1>1, <1>2, <1>3, AllTypes DEF ForceCommit, GenTypes

LEMMA DeletionTypes ==
  ASSUME Types, NEW c \in Callers, JobDeleteRun(c) \/ JobDeletePurge(c) \/ DeleteRun(c)
  PROVE  Types'
<1> USE TheTypes
<1>1. CASE JobDeleteRun(c)
  <2>1. CallTypes'
    <3>1. Return(c) \/ Goto(c, "jdCleanup") \/ Goto(c, "swCapture")
      BY <1>1 DEF JobDeleteRun
    <3> QED
      BY <3>1, ReturnTypes, GotoTypes DEF CallPc
  <2>2. DiskTypes' /\ fails' \in 0 .. MaxFail /\ lc' \in Lifecycle
    <3>1. run' \in {run, "none"} /\ insts' \in {insts, NoInsts} /\ located' \in {located, FALSE}
          /\ (fails' = fails \/ WriteFails)
      BY <1>1 DEF JobDeleteRun, DeleteArtifacts, disk
    <3>2. lc' \in Lifecycle
      BY <1>1 DEF JobDeleteRun, Lifecycle
    <3> QED
      BY <3>1, <3>2, FailTypes, NoInstsType DEF DiskTypes
  <2> QED
    BY <1>1, <2>1, <2>2, AllTypes DEF JobDeleteRun, GenTypes
<1>2. CASE JobDeletePurge(c)
  BY <1>2, ReturnTypes, NoInstsType, AllTypes DEF JobDeletePurge, DiskTypes, GenTypes, JobState
<1>3. CASE DeleteRun(c)
  <2>1. CallTypes'
    BY <1>3, ReturnTypes DEF DeleteRun
  <2>2. ASSUME NEW l \in Lifecycle, ClearGraphRunLinkage(l)
        PROVE  lc' \in Lifecycle /\ job' \in JobState /\ fails' \in 0 .. MaxFail
    BY <2>2, FailTypes DEF ClearGraphRunLinkage, Unlink, Lifecycle, JobState
  <2>3. lc' \in Lifecycle /\ job' \in JobState /\ fails' \in 0 .. MaxFail
    <3>1. /\ [lc EXCEPT !.deleteJob = TRUE] \in Lifecycle
          /\ [[lc EXCEPT !.deleteJob = TRUE] EXCEPT !.deleted = TRUE] \in Lifecycle
      BY DEF Lifecycle
    <3> QED
      BY <1>3, <2>2, <3>1, FailTypes DEF DeleteRun
  <2>4. DiskTypes'
    <3>1. run' \in {run, "none"} /\ insts' \in {insts, NoInsts} /\ located' \in {located, FALSE}
      BY <1>3 DEF DeleteRun, DeleteArtifacts, disk
    <3> QED
      BY <3>1, NoInstsType DEF DiskTypes
  <2> QED
    BY <1>3, <2>1, <2>3, <2>4, AllTypes DEF DeleteRun, GenTypes
<1> QED
  BY <1>1, <1>2, <1>3

LEMMA ResumeTypes ==
  ASSUME Types, NEW c \in Callers,
         call[c].pc \in {"rsPrepare", "rsMark", "rsJob"} => call[c].gen \in Gen,
         ResumeClaim(c) \/ ResumePrepare(c) \/ ResumeMark(c) \/ ResumeLaunch(c)
  PROVE  Types'
<1> USE TheTypes
<1>1. CASE ResumeClaim(c)
  <2>1. CASE Return(c) /\ UNCHANGED <<lc, gens>>
    BY <1>1, <2>1, ReturnTypes, LookTypes DEF ResumeClaim, DiskTypes
  <2>2. ASSUME NEW g \in Gen, gens' = [gens EXCEPT ![g].phase = "prep"],
               lc' = [lc EXCEPT !.handle = g],
               call' = [call EXCEPT ![c].pc = "rsPrepare", ![c].gen = g,
                               ![c].orig = [run |-> run, insts |-> insts]]
        PROVE  Types'
    <3> DEFINE o == [run |-> run, insts |-> insts]
    <3> DEFINE r == [call[c] EXCEPT !.pc = "rsPrepare", !.gen = g, !.orig = o]
    <3>1. o \in Original /\ g \in 0 .. MaxGen /\ call[c] \in Request
      BY DEF Original, DiskTypes, Gen
    <3>2. call' = [call EXCEPT ![c] = r]
      BY <2>2
    <3> HIDE DEF o
    <3>3. r \in Request /\ r.pc # "signal"
      BY <3>1 DEF Request, CallPc
    <3>4. CallTypes'
      BY <3>2, <3>3, MoveTypes
    <3>5. GenTypes' /\ lc' \in Lifecycle
      BY <2>2, <3>1, PhaseMoves DEF Phase, Lifecycle
    <3> QED
      BY <1>1, <3>4, <3>5, AllTypes DEF ResumeClaim, DiskTypes, disk
  <2> QED
    BY <1>1, <2>1, <2>2 DEF ResumeClaim
<1>2. ASSUME call[c].gen \in Gen, RestoreOriginal(c), fails' \in 0 .. MaxFail,
             UNCHANGED <<up, crashes, job, located>>
      PROVE  Types'
  <2>1. lc' \in Lifecycle /\ GenTypes'
    BY <1>2, CompleteType DEF RestoreOriginal, GenTypes
  <2>2. call[c].orig \in Original
    BY DEF Request
  <2>3. DiskTypes'
    BY <1>2, <2>2 DEF RestoreOriginal, DiskTypes, Original
  <2>4. CallTypes'
    BY <1>2, ReturnTypes DEF RestoreOriginal
  <2> QED
    BY <1>2, <2>1, <2>3, <2>4, AllTypes
<1>3. CASE ResumePrepare(c)
  <2>1. call[c].gen \in Gen
    BY <1>3 DEF ResumePrepare, At
  <2>2. CASE insts' = ResetInsts(insts) /\ Goto(c, "rsMark") /\ UNCHANGED <<lc, gens, fails>>
    <3>1. CallTypes'
      BY <2>2, GotoTypes DEF CallPc
    <3>2. DiskTypes'
      BY <1>3, <2>2, ResetType DEF DiskTypes, ResumePrepare
    <3> QED
      BY <1>3, <2>2, <3>1, <3>2, AllTypes DEF ResumePrepare, GenTypes
  <2>3. CASE /\ Complete(call[c].gen) /\ Return(c) /\ insts' \in {insts, ResetInsts(insts)}
             /\ UNCHANGED fails \/ WriteFails
    <3>1. lc' \in Lifecycle /\ GenTypes'
      BY <2>1, <2>3, CompleteType DEF GenTypes
    <3>2. DiskTypes' /\ CallTypes' /\ fails' \in 0 .. MaxFail
      BY <1>3, <2>3, ReturnTypes, FailTypes, ResetType DEF DiskTypes, ResumePrepare
    <3> QED
      BY <1>3, <3>1, <3>2, AllTypes DEF ResumePrepare
  <2> QED
    BY <1>3, <2>2, <2>3 DEF ResumePrepare
<1>4. CASE ResumeMark(c)
  <2>1. call[c].gen \in Gen
    BY <1>4 DEF ResumeMark, At
  <2>2. CASE WriteFails /\ RestoreOriginal(c) /\ UNCHANGED located
    BY <1>2, <1>4, <2>1, <2>2, FailTypes DEF ResumeMark
  <2>3. CASE run' = "running" /\ located' = TRUE /\ Goto(c, "rsJob")
             /\ UNCHANGED <<insts, lc, gens, fails>>
    BY <1>4, <2>3, GotoTypes, AllTypes, StatusTypes DEF ResumeMark, CallPc, DiskTypes, GenTypes
  <2> QED
    BY <1>4, <2>2, <2>3 DEF ResumeMark
<1>5. CASE ResumeLaunch(c)
  <2>1. call[c].gen \in Gen
    BY <1>5 DEF ResumeLaunch, At
  <2>2. CASE RestoreOriginal(c) /\ UNCHANGED job /\ (UNCHANGED fails \/ WriteFails)
    BY <1>2, <1>5, <2>1, <2>2, FailTypes DEF ResumeLaunch
  <2>3. CASE job' = JobAfter("running") /\ Return(c) /\ UNCHANGED <<lc, disk, fails>>
             /\ gens' = [gens EXCEPT ![call[c].gen].phase = "launched"]
    BY <1>5, <2>1, <2>3, ReturnTypes, PhaseMoves, JobAfterType, AllTypes
       DEF ResumeLaunch, Phase, DiskTypes, disk, JobStatus
  <2> QED
    BY <1>5, <2>2, <2>3 DEF ResumeLaunch
<1> QED
  BY <1>1, <1>3, <1>4, <1>5

(***************************************************************************)
(* The scheduler: its own state, then the files.                           *)
(***************************************************************************)
\* A live generation works on its copy of the instances and writes it, or fails to.
Works(g, m, st) ==
  /\ gens[g].phase = "live" /\ up
  /\ GenTypes' /\ gens'[g].insts = m /\ gens'[g].phase \in {"live", "settled"}
  /\ \A h \in Gen \ {g} : gens'[h] = gens[h]
  /\ UNCHANGED <<up, lc, call, crashes>>
  /\ Persist(m, st) \/ UNCHANGED <<disk, located, fails>>
  /\ \A k \in Keys : gens[g].insts[k] = "succeeded" => m[k] = "succeeded"

LEMMA SettleWorks ==
  ASSUME Types, NEW g \in Gen, Live(g), NEW m \in Insts, NEW st \in RunStatus,
         NEW js \in JobStatus, Settle(g, m, st, js), UNCHANGED <<up, lc, call, crashes>>,
         \A k \in Keys : gens[g].insts[k] = "succeeded" => m[k] = "succeeded"
  PROVE  Works(g, m, st) /\ job' = JobAfter(js)
<1> DEFINE r == [gens[g] EXCEPT !.phase = "settled", !.insts = m, !.st = st]
<1>1. gens[g] \in Generation /\ Len(gens[g].ctrl) <= CtrlCap
  BY DEF Types
<1>2. /\ r \in Generation /\ r.ctrl = gens[g].ctrl /\ r.insts = m
      /\ r.phase = "settled"
  BY <1>1 DEF Generation, Phase
<1>3. gens' = [gens EXCEPT ![g] = r]
  BY DEF Settle, Types
<1> HIDE DEF r
<1>4. GenTypes'
  BY <1>1, <1>2, <1>3, GenMoves
<1>5. gens'[g] = r /\ \A h \in Gen \ {g} : gens'[h] = gens[h]
  BY <1>3 DEF Types
<1> QED
  BY <1>2, <1>4, <1>5 DEF Works, Settle, Live

LEMMA InstsWork ==
  ASSUME Types, NEW g \in Gen, Live(g), NEW m \in Insts,
         gens' = [gens EXCEPT ![g].insts = m], Persist(m, gens[g].st),
         UNCHANGED <<up, lc, call, crashes>>,
         \A k \in Keys : gens[g].insts[k] = "succeeded" => m[k] = "succeeded"
  PROVE  Works(g, m, gens[g].st) /\ gens[g].st \in RunStatus
<1> DEFINE r == [gens[g] EXCEPT !.insts = m]
<1>1. gens[g] \in Generation /\ Len(gens[g].ctrl) <= CtrlCap /\ gens[g].phase = "live"
  BY DEF Types, Live
<1>2. /\ r \in Generation /\ r.ctrl = gens[g].ctrl /\ r.insts = m /\ r.phase = "live"
      /\ gens[g].st \in RunStatus
  BY <1>1 DEF Generation
<1>3. gens' = [gens EXCEPT ![g] = r]
  BY DEF Types
<1> HIDE DEF r
<1>4. GenTypes'
  BY <1>1, <1>2, <1>3, GenMoves
<1>5. gens'[g] = r /\ \A h \in Gen \ {g} : gens'[h] = gens[h]
  BY <1>3 DEF Types
<1> QED
  BY <1>1, <1>2, <1>4, <1>5 DEF Works, Live

\* Every step of a live scheduler is of that form.
LEMMA LiveWorks ==
  ASSUME Types, NEW g \in Gen,
         \/ SchedControl(g) \/ SchedQuiesce(g) \/ SchedTimeout(g)
         \/ \E k \in Keys : SchedDispatch(g, k) \/ SchedResult(g, k) \/ SchedFail(g, k)
  PROVE  /\ \E m \in Insts, st \in RunStatus : Works(g, m, st)
         /\ UNCHANGED job \/ \E js \in JobStatus : job' = JobAfter(js)
<1> DEFINE done == /\ \E m \in Insts, st \in RunStatus : Works(g, m, st)
                   /\ UNCHANGED job \/ \E js \in JobStatus : job' = JobAfter(js)
<1>1. /\ gens[g].insts \in Insts /\ gens[g].st \in RunStatus /\ gens[g].ctrl \in Seq(Signals)
      /\ gens[g] \in Generation
  BY DEF Types, Generation
<1>2. {"stopped", "failed", "timedOut", "stepStopped", "sessionStopped", "awaitingInput",
       "completed", "running", "stepStopping", "sessionStopping"} \subseteq RunStatus
  BY StatusTypes
<1>3. {"stopped", "failed", "completed"} \subseteq JobStatus
  BY DEF JobStatus
<1>4. ASSUME NEW m \in Insts, NEW st \in RunStatus, NEW js \in JobStatus, Live(g),
             Settle(g, m, st, js), UNCHANGED <<up, lc, call, crashes>>,
             \A k \in Keys : gens[g].insts[k] = "succeeded" => m[k] = "succeeded"
      PROVE  done
  BY <1>4, SettleWorks
<1>5. ASSUME NEW m \in Insts, Live(g), gens' = [gens EXCEPT ![g].insts = m],
             Persist(m, gens[g].st), UNCHANGED <<up, lc, call, crashes, job>>,
             \A k \in Keys : gens[g].insts[k] = "succeeded" => m[k] = "succeeded"
      PROVE  done
  BY <1>5, InstsWork
<1> SUFFICES done
  OBVIOUS
<1> HIDE DEF done
<1>6. ASSUME NEW k \in Keys, NEW st \in InstStatus, gens[g].insts[k] # "succeeded"
      PROVE  LET m == [gens[g].insts EXCEPT ![k] = st]
             IN  m \in Insts /\ \A j \in Keys : gens[g].insts[j] = "succeeded" => m[j] = "succeeded"
  BY <1>1, <1>6 DEF Insts
<1>7. CASE SchedTimeout(g)
  <2> DEFINE m == Interrupted(gens[g].insts)
  <2>1. m \in Insts /\ \A k \in Keys : gens[g].insts[k] = "succeeded" => m[k] = "succeeded"
    BY <1>1, InterruptedType
  <2>2. Live(g) /\ Settle(g, m, "timedOut", "failed") /\ UNCHANGED <<up, lc, call, crashes>>
    BY <1>7 DEF SchedTimeout
  <2> HIDE DEF m
  <2> QED
    BY <1>2, <1>3, <1>4, <2>1, <2>2
<1>8. ASSUME NEW k \in Keys, SchedDispatch(g, k) PROVE done
  <2> DEFINE m == [gens[g].insts EXCEPT ![k] = "running"]
  <2>1. m \in Insts /\ \A j \in Keys : gens[g].insts[j] = "succeeded" => m[j] = "succeeded"
    BY <1>6, <1>8 DEF SchedDispatch, InstStatus
  <2>2. gens' = [gens EXCEPT ![g].insts = m] /\ Persist(m, gens[g].st)
    BY <1>8 DEF SchedDispatch
  <2> HIDE DEF m
  <2> QED
    BY <1>5, <1>8, <2>1, <2>2 DEF SchedDispatch
<1>9. ASSUME NEW k \in Keys, SchedResult(g, k) PROVE done
  <2>1. PICK st \in {"succeeded", "awaitingInput"} :
          LET m == [gens[g].insts EXCEPT ![k] = st]
          IN  gens' = [gens EXCEPT ![g].insts = m] /\ Persist(m, gens[g].st)
    BY <1>9 DEF SchedResult
  <2> DEFINE m == [gens[g].insts EXCEPT ![k] = st]
  <2>2. m \in Insts /\ \A j \in Keys : gens[g].insts[j] = "succeeded" => m[j] = "succeeded"
    <3>1. st \in InstStatus /\ gens[g].insts[k] # "succeeded"
      BY <1>9 DEF SchedResult, InstStatus
    <3> QED
      BY <1>6, <3>1
  <2>3. gens' = [gens EXCEPT ![g].insts = m] /\ Persist(m, gens[g].st)
    BY <2>1
  <2> HIDE DEF m
  <2> QED
    BY <1>5, <1>9, <2>2, <2>3 DEF SchedResult
<1>10. ASSUME NEW k \in Keys, SchedFail(g, k) PROVE done
  <2> DEFINE m == [gens[g].insts EXCEPT ![k] = "failed"]
  <2>1. m \in Insts /\ \A j \in Keys : gens[g].insts[j] = "succeeded" => m[j] = "succeeded"
    BY <1>6, <1>10 DEF SchedFail, InstStatus
  <2>2. Settle(g, Interrupted(m), "failed", "failed")
    BY <1>10 DEF SchedFail
  <2> HIDE DEF m
  <2> QED
    BY <1>2, <1>3, <1>4, <1>10, <2>1, <2>2, InterruptedType DEF SchedFail
<1>11. CASE SchedControl(g)
  <2> DEFINE sig == Head(gens[g].ctrl)
  <2> DEFINE next == CASE sig = "step" -> "stepStopping"
                       [] sig = "session" -> "sessionStopping"
                       [] OTHER -> "running"
  <2>1. CASE sig = "hard"
    <3> DEFINE m == Interrupted(gens[g].insts)
    <3>1. m \in Insts /\ \A k \in Keys : gens[g].insts[k] = "succeeded" => m[k] = "succeeded"
      BY <1>1, InterruptedType
    <3>2. Live(g) /\ Settle(g, m, "stopped", "stopped") /\ UNCHANGED <<up, lc, call, crashes>>
      BY <1>11, <2>1 DEF SchedControl
    <3> HIDE DEF m
    <3> QED
      BY <1>2, <1>3, <1>4, <3>1, <3>2
  <2>2. CASE sig # "hard"
    <3> DEFINE r == [gens[g] EXCEPT !.ctrl = Tail(gens[g].ctrl), !.st = next]
    <3>1. next \in RunStatus
      BY <1>2
    <3>2. /\ gens' = [gens EXCEPT ![g].ctrl = Tail(@), ![g].st = next]
          /\ UNCHANGED job /\ Live(g) /\ UNCHANGED <<up, lc, call, crashes>>
          /\ Persist(gens[g].insts, next) \/ UNCHANGED <<disk, located, fails>>
      BY <1>11, <2>2 DEF SchedControl
    <3> HIDE DEF next
    <3>3. gens' = [gens EXCEPT ![g] = r]
      BY <3>2 DEF Types
    <3>4. /\ Tail(gens[g].ctrl) \in Seq(Signals)
          /\ Len(Tail(gens[g].ctrl)) = Len(gens[g].ctrl) - 1 /\ Len(gens[g].ctrl) \in Nat
          /\ Len(gens[g].ctrl) <= CtrlCap /\ CtrlCap \in Nat
      BY <1>1, <1>11, HeadTailProperties, LenProperties, GraphRunAssumption
         DEF SchedControl, Types, GraphRunAssumption
    <3>5. r \in Generation /\ r.ctrl = Tail(gens[g].ctrl)
          /\ r.insts = gens[g].insts /\ r.phase = gens[g].phase
      BY <1>1, <3>1, <3>4 DEF Generation
    <3>6. Len(r.ctrl) <= CtrlCap
      BY <3>4, <3>5
    <3> HIDE DEF r
    <3>7. GenTypes'
      BY <3>3, <3>5, <3>6, GenMoves
    <3>8. gens'[g] = r /\ \A h \in Gen \ {g} : gens'[h] = gens[h]
      BY <3>3 DEF Types
    <3>9. Works(g, gens[g].insts, next)
      BY <3>2, <3>5, <3>7, <3>8 DEF Works, Live
    <3> QED
      BY <1>1, <3>1, <3>2, <3>9 DEF done
  <2> QED
    BY <2>1, <2>2
<1>12. CASE SchedQuiesce(g)
  <2> DEFINE m == gens[g].insts
  <2>1. /\ Live(g) /\ UNCHANGED <<up, lc, call, crashes>>
        /\ \/ Settle(g, m, "stepStopped", "stopped")
           \/ Settle(g, m, "sessionStopped", "stopped")
           \/ Settle(g, m, "awaitingInput", "stopped")
           \/ Settle(g, m, "completed", "completed")
    BY <1>12 DEF SchedQuiesce
  <2> QED
    BY <1>1, <1>2, <1>3, <1>4, <2>1
<1> QED
  BY <1>7, <1>8, <1>9, <1>10, <1>11, <1>12

LEMMA SchedTypes ==
  ASSUME Types, NEW g \in Gen, SchedNext(g)
  PROVE  Types'
<1> USE TheTypes
<1>1. ASSUME NEW m \in Insts, NEW st \in RunStatus, Works(g, m, st), job' \in JobState
      PROVE  Types'
  <2>1. DiskTypes' /\ fails' \in 0 .. MaxFail
    BY <1>1, PersistTypes DEF Works, DiskTypes, disk
  <2> QED
    BY <1>1, <2>1, AllTypes DEF Works, CallTypes
<1>2. CASE \/ SchedControl(g) \/ SchedQuiesce(g) \/ SchedTimeout(g)
           \/ \E k \in Keys : SchedDispatch(g, k) \/ SchedResult(g, k) \/ SchedFail(g, k)
  <2>1. PICK m \in Insts, st \in RunStatus : Works(g, m, st)
    BY <1>2, LiveWorks
  <2>2. job' \in JobState
    BY <1>2, LiveWorks, JobAfterType
  <2> QED
    BY <1>1, <2>1, <2>2
<1>3. CASE SchedExit(g)
  <2>1. lc' \in Lifecycle /\ GenTypes'
    BY <1>3, CompleteType DEF SchedExit, GenTypes
  <2> QED
    BY <1>3, <2>1, AllTypes DEF SchedExit, DiskTypes, CallTypes, disk
<1>4. CASE SchedStart(g)
  <2>1. CASE ~HasRun
    <3>1. lc' \in Lifecycle /\ GenTypes'
      BY <1>4, <2>1, CompleteType DEF SchedStart, GenTypes
    <3> QED
      BY <1>4, <2>1, <3>1, AllTypes DEF SchedStart, DiskTypes, CallTypes, disk
  <2>2. CASE HasRun
    <3> DEFINE m == [k \in Keys |-> IF insts[k] = "awaitingInput" THEN "succeeded" ELSE insts[k]]
    <3> DEFINE r == [gens[g] EXCEPT !.phase = "live", !.st = "running", !.insts = m]
    <3>1. m \in Insts
      BY DEF DiskTypes, Insts, InstStatus
    <3>2. gens' = [gens EXCEPT ![g] = r]
      BY <1>4, <2>2 DEF SchedStart
    <3> HIDE DEF m
    <3>3. r \in Generation /\ r.ctrl = gens[g].ctrl
      BY <3>1, StatusTypes DEF Generation, Phase
    <3>4. GenTypes'
      BY <3>2, <3>3, GenMoves DEF GenTypes
    <3>5. job' \in JobState
      BY <1>4, <2>2, JobAfterType DEF SchedStart, JobStatus
    <3>6. DiskTypes' /\ fails' \in 0 .. MaxFail
      BY <1>4, <2>2, FailTypes, StatusTypes DEF SchedStart, DiskTypes
    <3> QED
      BY <1>4, <2>2, <3>4, <3>5, <3>6, AllTypes DEF SchedStart, CallTypes
  <2> QED
    BY <2>1, <2>2
<1> QED
  BY <1>2, <1>3, <1>4 DEF SchedNext, SchedOwn

LEMMA CrashTypes ==
  ASSUME Types, Crash \/ Boot
  PROVE  Types'
<1> USE TheTypes
<1>1. CASE Crash
  <2> DEFINE done == [NoGen EXCEPT !.phase = "done"]
  <2>1. done \in Generation /\ Len(done.ctrl) = 0 /\ NoGen \in Generation /\ Len(NoGen.ctrl) = 0
    BY NoGenType DEF Generation, Phase
  <2>2. gens' = [g \in Gen |-> IF gens[g].phase = "unused" THEN NoGen ELSE done]
    BY <1>1 DEF Crash
  <2>3. CtrlCap \in Nat /\ MaxGen \in Nat /\ MaxCrash \in Nat
    BY GraphRunAssumption DEF GraphRunAssumption
  <2> HIDE DEF done
  <2>4. GenTypes'
    BY <2>1, <2>2, <2>3 DEF GenTypes
  <2>5. CallTypes'
    BY <1>1, IdleType DEF Crash, CallTypes
  <2>6. lc' \in Lifecycle /\ crashes' \in 0 .. MaxCrash
    BY <1>1, <2>3 DEF Crash, FreshLifecycle, Lifecycle
  <2> QED
    BY <1>1, <2>4, <2>5, <2>6, AllTypes DEF Crash, DiskTypes, disk
<1>2. CASE Boot
  <2>1. DiskTypes'
    BY <1>2, NoInstsType, StatusTypes
       DEF Boot, ReconcileInterruptedRun, ForcedInsts, DiskTypes, disk
  <2>2. job' \in JobState
    BY <1>2 DEF Boot, JobState, JobStatus
  <2> QED
    BY <1>2, <2>1, <2>2, AllTypes DEF Boot, CallTypes, GenTypes
<1> QED
  BY <1>1, <1>2

(***************************************************************************)
(* The invariant.                                                          *)
(***************************************************************************)
PrepPc == {"stPersist", "stJob", "rsPrepare", "rsMark", "rsJob"}
JoinPc == {"swCapture", "swRead", "swLoop", "swSend", "swJoin", "swCheck", "swSettle",
           "jdDelete", "jdCleanup"}

Preparing(c) == call[c].pc \in PrepPc

\* One request at a time prepares a generation.
Owned ==
  /\ \A c \in Callers : Preparing(c) => call[c].gen \in Gen /\ gens[call[c].gen].phase = "prep"
  /\ \A c, d \in Callers : Preparing(c) /\ Preparing(d) => c = d

\* A process that is down does nothing and remembers nothing.
Down ==
  ~up => /\ ~located
         /\ \A g \in Gen : gens[g].phase \in {"unused", "done"}
         /\ \A c \in Callers : call[c] = Idle

\* The Job is marked before a deletion joins anything.
Joining ==
  \A c \in Callers :
    /\ call[c].op = "jobDelete" => job.deleted
    /\ call[c].pc \in JoinPc => call[c].op = "jobDelete"
    /\ call[c].pc \in {"forceRead", "forceCommit"} => call[c].op \in {"stop", "jobDelete"}

\* A scheduler works for a Job that is there and linked; a cleanup has joined it.
Fenced ==
  /\ \A g \in Gen : gens[g].phase \in Producing => job.present /\ job.linked
  /\ \A c \in Callers : call[c].pc = "jdCleanup" => \A g \in Gen : gens[g].phase \notin Producing
  /\ lc.deleted => run = "none"

\* Whoever writes the instances next has every success the files have.
Work ==
  /\ gens[1].phase = "unused" => /\ run = "none" /\ insts = NoInsts
                                 /\ \A g \in Gen : gens[g].phase = "unused"
  /\ \A c \in Callers : call[c].pc = "stPersist" => insts = NoInsts
  /\ \A c \in Callers : call[c].pc \in {"rsPrepare", "rsMark", "rsJob"} =>
       \A k \in Keys : insts[k] = "succeeded" => call[c].orig.insts[k] = "succeeded"
  /\ \A g \in Gen : gens[g].phase = "live" =>
       \A k \in Keys : insts[k] = "succeeded" => gens[g].insts[k] = "succeeded"

Inv == Types /\ OneOwner /\ Owned /\ Down /\ Joining /\ Fenced /\ Work

\* No generation is prepared or runs: the handle is free, or nothing happens.
LEMMA FreeHandle ==
  ASSUME Inv, lc.handle = 0 \/ lc.deleted
  PROVE  /\ \A g \in Gen : gens[g].phase \in {"unused", "done"}
         /\ \A c \in Callers : ~Preparing(c)
<1>1. ASSUME NEW g \in Gen PROVE gens[g].phase \in {"unused", "done"}
  <2>1. gens[g].phase \notin Producing \cup {"prep"}
    <3>1. g # 0
      BY DEF Gen
    <3> QED
      BY <3>1 DEF Inv, OneOwner
  <2>2. gens[g].phase \in Phase
    BY DEF Inv, Types, Generation
  <2> QED
    BY <2>1, <2>2 DEF Phase, Producing
<1> QED
  BY <1>1 DEF Inv, Owned

\* The owner is alone.
LEMMA SoleOwner ==
  ASSUME Inv, NEW g \in Gen, gens[g].phase \in Producing \cup {"prep"}
  PROVE  /\ lc.handle = g /\ ~lc.deleted
         /\ \A h \in Gen \ {g} : gens[h].phase \in {"unused", "done"}
         /\ \A c \in Callers : Preparing(c) => call[c].gen = g /\ gens[g].phase = "prep"
         /\ gens[1].phase # "unused"
<1>1. lc.handle = g /\ ~lc.deleted
  BY DEF Inv, OneOwner
<1>2. ASSUME NEW h \in Gen \ {g} PROVE gens[h].phase \in {"unused", "done"}
  <2>1. gens[h].phase \notin Producing \cup {"prep"}
    BY <1>1 DEF Inv, OneOwner
  <2>2. gens[h].phase \in Phase
    BY DEF Inv, Types, Generation
  <2> QED
    BY <2>1, <2>2 DEF Phase, Producing
<1>3. ASSUME NEW c \in Callers, Preparing(c) PROVE call[c].gen = g /\ gens[g].phase = "prep"
  BY <1>2, <1>3 DEF Inv, Owned
<1>4. gens[1].phase # "unused"
  BY DEF Inv, Work, Producing
<1> QED
  BY <1>1, <1>2, <1>3, <1>4

\* With no generation at work little is left to show.
LEMMA QuietInv ==
  ASSUME Types', Joining', Down', \A g \in Gen : gens'[g].phase \in {"unused", "done"},
         \A c \in Callers : ~Preparing(c)', lc'.deleted => run' = "none",
         gens'[1].phase = "unused" => /\ run' = "none" /\ insts' = NoInsts
                                      /\ \A g \in Gen : gens'[g].phase = "unused"
  PROVE  Inv'
<1>1. OneOwner'
  BY DEF OneOwner, Producing
<1>2. Owned'
  BY DEF Owned
<1>3. Fenced'
  BY DEF Fenced, Producing
<1>4. Work'
  BY DEF Work, Preparing, PrepPc
<1> QED
  BY <1>1, <1>2, <1>3, <1>4 DEF Inv

\* A request's step that touches no generation's phase or work.
Harmless(c, r) ==
  /\ up /\ up' = up
  /\ r \in Request /\ call' = [call EXCEPT ![c] = r]
  /\ \A g \in Gen : gens'[g].phase = gens[g].phase /\ gens'[g].insts = gens[g].insts
  /\ lc'.handle = lc.handle /\ (lc'.deleted => lc.deleted \/ lc.handle = 0)
  /\ lc'.deleted => run' = "none"
  /\ gens[1].phase = "unused" => run' = "none" /\ insts' = NoInsts
  /\ insts' \in {insts, NoInsts}
  /\ job.deleted => job'.deleted
  /\ (\E g \in Gen : gens[g].phase \in Producing) => job'.present /\ job'.linked
  /\ r.pc \notin PrepPc
  /\ r.op = "jobDelete" => job'.deleted
  /\ r.pc \in JoinPc => r.op = "jobDelete"
  /\ r.pc \in {"forceRead", "forceCommit"} => r.op \in {"stop", "jobDelete"}
  /\ r.pc = "jdCleanup" => \A g \in Gen : gens[g].phase \notin Producing

LEMMA HarmlessInv ==
  ASSUME Inv, Types', NEW c \in Callers, NEW r, Harmless(c, r)
  PROVE  Inv'
<1>1. call'[c] = r /\ \A d \in Callers \ {c} : call'[d] = call[d]
  BY DEF Harmless, Inv, Types
<1>2. OneOwner'
  <2>1. ASSUME NEW g \in Gen, gens'[g].phase \in Producing \cup {"prep"}
        PROVE  lc'.handle = g /\ ~lc'.deleted
    <3>1. lc.handle = g /\ ~lc.deleted /\ g # 0
      BY <2>1 DEF Harmless, Inv, OneOwner, Gen
    <3> QED
      BY <3>1 DEF Harmless
  <2> QED
    BY <2>1 DEF OneOwner
<1>3. Owned'
  BY <1>1 DEF Harmless, Inv, Owned, Preparing
<1>4. Down' /\ Joining'
  BY <1>1 DEF Harmless, Inv, Down, Joining
<1>5. Fenced'
  BY <1>1 DEF Harmless, Inv, Fenced
<1>6. \A k \in Keys : insts'[k] = "succeeded" => insts[k] = "succeeded"
  BY DEF Harmless, NoInsts
<1>7. Work'
  <2>1. gens'[1].phase = "unused" => /\ run' = "none" /\ insts' = NoInsts
                                     /\ \A g \in Gen : gens'[g].phase = "unused"
    BY TheTypes DEF Harmless, Inv, Work
  <2>2. \A d \in Callers : call'[d].pc = "stPersist" => insts' = NoInsts
    BY <1>1 DEF Harmless, Inv, Work, PrepPc
  <2>3. \A d \in Callers : call'[d].pc \in {"rsPrepare", "rsMark", "rsJob"} =>
          \A k \in Keys : insts'[k] = "succeeded" => call'[d].orig.insts[k] = "succeeded"
    BY <1>1, <1>6 DEF Harmless, Inv, Work, PrepPc
  <2>4. \A g \in Gen : gens'[g].phase = "live" =>
          \A k \in Keys : insts'[k] = "succeeded" => gens'[g].insts[k] = "succeeded"
    BY <1>6 DEF Harmless, Inv, Work
  <2> QED
    BY <2>1, <2>2, <2>3, <2>4 DEF Work
<1> QED
  BY <1>2, <1>3, <1>4, <1>5, <1>7 DEF Inv

LEMMA GotoIs ==
  ASSUME Types, NEW c \in Callers, NEW p \in CallPc, Goto(c, p)
  PROVE  \E r \in Request : /\ call' = [call EXCEPT ![c] = r]
                            /\ r.pc = p /\ r.op = call[c].op /\ r.gen = call[c].gen
                            /\ r.orig = call[c].orig
<1> DEFINE r == [call[c] EXCEPT !.pc = p]
<1>1. call[c] \in Request
  BY DEF Types
<1>2. /\ r \in Request /\ r.pc = p /\ r.op = call[c].op /\ r.gen = call[c].gen
      /\ r.orig = call[c].orig
  BY <1>1 DEF Request
<1>3. call' = [call EXCEPT ![c] = r]
  BY DEF Goto, Types
<1> QED
  BY <1>2, <1>3

\* Nothing but where the request is.
Still == up /\ UNCHANGED <<up, lc, disk, job, gens>>

LEMMA StillHarmless ==
  ASSUME Inv, Still, NEW c \in Callers, NEW r \in Request, call' = [call EXCEPT ![c] = r],
         r.pc \notin PrepPc,
         r.op = "jobDelete" => job.deleted,
         r.pc \in JoinPc => r.op = "jobDelete",
         r.pc \in {"forceRead", "forceCommit"} => r.op \in {"stop", "jobDelete"},
         r.pc = "jdCleanup" => \A g \in Gen : gens[g].phase \notin Producing
  PROVE  Harmless(c, r)
BY TheTypes DEF Inv, Still, Harmless, disk, Fenced, Work, Joining

LEMMA GotoStill ==
  ASSUME Inv, Types', Still, NEW c \in Callers, NEW p \in CallPc \ PrepPc, Goto(c, p),
         p \in JoinPc => call[c].op = "jobDelete",
         p \in {"forceRead", "forceCommit"} => call[c].op \in {"stop", "jobDelete"},
         p = "jdCleanup" => \A g \in Gen : gens[g].phase \notin Producing
  PROVE  Inv'
<1>1. PICK r \in Request : /\ call' = [call EXCEPT ![c] = r]
                           /\ r.pc = p /\ r.op = call[c].op
  BY GotoIs DEF Inv
<1>2. Harmless(c, r)
  BY <1>1, StillHarmless DEF Inv, Joining
<1> QED
  BY <1>2, HarmlessInv

LEMMA ReturnStill ==
  ASSUME Inv, Types', Still, NEW c \in Callers, Return(c)
  PROVE  Inv'
<1>1. Harmless(c, Idle)
  BY IdleType, StillHarmless DEF Return, PrepPc, JoinPc
<1> QED
  BY <1>1, HarmlessInv

LEMMA ReadingInv ==
  ASSUME Inv, NEW c \in Callers,
         \/ ForceRead(c) \/ WaitCapture(c) \/ WaitRead(c) \/ WaitLoop(c) \/ WaitJoin(c)
         \/ WaitCheck(c) \/ WaitSettle(c) \/ WaitCancelled(c) \/ ResumeRead(c)
  PROVE  Inv'
<1>1. Types' /\ Types
  BY ReadingTypes DEF Inv
<1>2. Still
  BY DEF Still, ForceRead, WaitCapture, WaitRead, WaitLoop, WaitJoin, WaitCheck, WaitSettle,
         WaitCancelled, ResumeRead, At, disk
<1>3. {"jdDelete", "swLoop", "swRead", "swSend", "swCheck", "swJoin", "forceRead", "swSettle",
       "rsClaim"} \subseteq CallPc \ PrepPc
  BY DEF CallPc, PrepPc
<1>4. CASE WaitCapture(c) \/ WaitRead(c) \/ WaitJoin(c) \/ WaitCheck(c) \/ WaitSettle(c)
  <2>1. \E p \in {"jdDelete", "swLoop", "swRead", "forceRead", "swSettle"} : Goto(c, p)
    BY <1>4 DEF WaitCapture, WaitRead, WaitJoin, WaitCheck, WaitSettle
  <2>2. call[c].op = "jobDelete"
    BY <1>4 DEF WaitCapture, WaitRead, WaitJoin, WaitCheck, WaitSettle, At, Inv, Joining, JoinPc
  <2> QED
    BY <1>1, <1>2, <1>3, <2>1, <2>2, GotoStill
<1>5. CASE WaitCancelled(c)
  BY <1>1, <1>2, <1>5, ReturnStill DEF WaitCancelled
<1>6. CASE ResumeRead(c)
  <2>1. Goto(c, "rsClaim") \/ Return(c)
    BY <1>6 DEF ResumeRead
  <2> QED
    BY <1>1, <1>2, <1>3, <2>1, ReturnStill, GotoStill DEF JoinPc
<1>7. CASE WaitLoop(c)
  <2> DEFINE p == IF lc.deleted THEN "jdDelete" ELSE IF lc.handle # 0 THEN "swSend" ELSE "swCheck"
  <2> DEFINE g == IF lc.deleted THEN 0 ELSE lc.handle
  <2> DEFINE r == [call[c] EXCEPT !.pc = p, !.gen = g]
  <2>1. p \in {"jdDelete", "swSend", "swCheck"} /\ g \in 0 .. MaxGen /\ call[c] \in Request
    BY <1>1, GraphRunAssumption DEF GraphRunAssumption, Types, Lifecycle
  <2>2. call' = [call EXCEPT ![c] = r]
    BY <1>1, <1>7 DEF WaitLoop, Types
  <2>3. call[c].op = "jobDelete"
    BY <1>7 DEF WaitLoop, At, Inv, Joining, JoinPc
  <2> HIDE DEF p, g
  <2>4. r \in Request /\ r.pc = p /\ r.op = "jobDelete"
    BY <1>3, <2>1, <2>3 DEF Request
  <2> HIDE DEF r
  <2>5. Harmless(c, r)
    <3>1. p \notin PrepPc /\ p \notin {"forceRead", "forceCommit", "jdCleanup"}
      BY <2>1 DEF PrepPc
    <3>2. job.deleted
      BY <2>3 DEF Inv, Joining
    <3> QED
      BY <1>2, <2>2, <2>4, <3>1, <3>2, StillHarmless
  <2> QED
    BY <1>1, <2>5, HarmlessInv
<1>8. CASE ForceRead(c)
  <2>1. call[c].op \in {"stop", "jobDelete"}
    BY <1>8 DEF ForceRead, At, Inv, Joining
  <2>2. CASE call[c].op # "stop" /\ (Goto(c, "jdDelete") \/ Goto(c, "swLoop"))
    BY <1>1, <1>2, <1>3, <2>1, <2>2, GotoStill
  <2>3. CASE Return(c)
    BY <1>1, <1>2, <2>3, ReturnStill
  <2>4. CASE \E b \in BOOLEAN : call' = [call EXCEPT ![c].pc = "forceCommit", ![c].changed = b]
    <3>1. PICK b \in BOOLEAN : call' = [call EXCEPT ![c].pc = "forceCommit", ![c].changed = b]
      BY <2>4
    <3> DEFINE r == [call[c] EXCEPT !.pc = "forceCommit", !.changed = b]
    <3>2. call' = [call EXCEPT ![c] = r] /\ call[c] \in Request
      BY <1>1, <3>1 DEF Types
    <3>3. r \in Request /\ r.pc = "forceCommit" /\ r.op = call[c].op
      BY <3>2 DEF Request, CallPc
    <3> HIDE DEF r
    <3>4. Harmless(c, r)
      BY <1>2, <2>1, <3>2, <3>3, StillHarmless DEF PrepPc, JoinPc, Inv, Joining
    <3> QED
      BY <1>1, <3>4, HarmlessInv
  <2>5. (\E k \in Keys : insts[k] = "running") \in BOOLEAN
    OBVIOUS
  <2> QED
    BY <1>8, <2>2, <2>3, <2>4, <2>5 DEF ForceRead, Repaired, NothingToRepair
<1> QED
  BY <1>4, <1>5, <1>6, <1>7, <1>8

\* A request begins.
LEMMA EntryInv ==
  ASSUME Inv, NEW c \in Callers,
         (\E op \in Ops : ResolveJobGraphRun(c, op)) \/ JobDeleteMark(c)
  PROVE  Inv'
<1>1. Types' /\ Types
  BY EntryStepTypes DEF Inv
<1>2. call[c].pc = "idle" /\ up /\ lc \in Lifecycle /\ job \in JobState
  BY <1>1 DEF ResolveJobGraphRun, JobDeleteMark, At, Types
<1>3. ASSUME NEW op \in Ops, ResolveJobGraphRun(c, op) PROVE Inv'
  <2> DEFINE r == [Idle EXCEPT !.pc = EntryOf(op), !.op = op]
  <2>1. op \notin {"start", "jobDelete"} /\ EntryOf(op) \in {"signal", "rsRead", "delete"}
    BY <1>3, GraphRunAssumption DEF ResolveJobGraphRun, EntryOf, GraphRunAssumption
  <2>2. call' = [call EXCEPT ![c] = r]
    BY <1>3 DEF ResolveJobGraphRun
  <2>3. r \in Request /\ r.pc = EntryOf(op) /\ r.op = op
    BY <2>1, IdleType DEF Request, CallPc
  <2> HIDE DEF r
  <2>4. /\ lc'.handle = lc.handle /\ lc'.deleted = lc.deleted
        /\ UNCHANGED <<up, run, insts, job, gens>>
    BY <1>2, <1>3 DEF ResolveJobGraphRun, Lifecycle, disk
  <2>5. Harmless(c, r)
    BY <1>2, <2>1, <2>2, <2>3, <2>4, TheTypes
       DEF Harmless, Inv, Fenced, Work, PrepPc, JoinPc
  <2> QED
    BY <1>1, <2>5, HarmlessInv
<1>4. CASE JobDeleteMark(c)
  <2> DEFINE p == IF job.linked THEN "swCapture" ELSE "jdCleanup"
  <2> DEFINE r == [Idle EXCEPT !.pc = p, !.op = "jobDelete"]
  <2>1. call' = [call EXCEPT ![c] = r]
    BY <1>4 DEF JobDeleteMark
  <2>2. p \in CallPc /\ "jobDelete" \in Ops /\ p \in {"swCapture", "jdCleanup"}
        /\ (p = "jdCleanup" => ~job.linked)
    BY <1>4 DEF JobDeleteMark, CallPc
  <2> HIDE DEF p
  <2>3. r \in Request /\ r.pc = p /\ r.op = "jobDelete"
    BY <2>2, IdleType DEF Request
  <2> HIDE DEF r
  <2>4. /\ lc'.handle = lc.handle /\ lc'.deleted = lc.deleted
        /\ UNCHANGED <<up, run, insts, gens>>
        /\ job'.present = job.present /\ job'.linked = job.linked /\ job'.deleted
    BY <1>2, <1>4 DEF JobDeleteMark, Lifecycle, JobState, disk
  <2>5. Harmless(c, r)
    BY <1>2, <2>1, <2>2, <2>3, <2>4, TheTypes
       DEF Harmless, Inv, Fenced, Work, PrepPc, JoinPc
  <2> QED
    BY <1>1, <2>5, HarmlessInv
<1> QED
  BY <1>3, <1>4

\* A signal is queued for the generation the handle names.
LEMMA SendInv ==
  ASSUME Inv, NEW c \in Callers, SignalAndSnapshot(c) \/ WaitSend(c)
  PROVE  Inv'
<1>1. Types' /\ Types /\ up
  BY SendTypes DEF Inv, SignalAndSnapshot, WaitSend, At
<1>2. \A g \in Gen : gens'[g].phase = gens[g].phase /\ gens'[g].insts = gens[g].insts
  <2>1. CASE gens' = gens
    BY <2>1
  <2>2. ASSUME NEW n, NEW q, gens' = [gens EXCEPT ![n].ctrl = q]
        PROVE  \A g \in Gen : gens'[g].phase = gens[g].phase /\ gens'[g].insts = gens[g].insts
    BY <1>1, <2>2 DEF Types, Generation
  <2> QED
    BY <2>1, <2>2 DEF SignalAndSnapshot, WaitSend
<1>3. UNCHANGED <<up, lc, disk, job>>
  BY DEF SignalAndSnapshot, WaitSend, disk
<1>4. \E p \in {"forceRead", "swJoin", "swLoop"} :
        \/ Return(c)
        \/ Goto(c, p) /\ (p = "forceRead" => call[c].op = "stop")
           /\ (p # "forceRead" => call[c].pc = "swSend")
  BY DEF SignalAndSnapshot, WaitSend, At
<1>5. ASSUME NEW r \in Request, call' = [call EXCEPT ![c] = r],
             r.pc \in {"idle", "forceRead", "swJoin", "swLoop"},
             r.op = "jobDelete" => job.deleted,
             r.pc \in {"swJoin", "swLoop"} => r.op = "jobDelete",
             r.pc = "forceRead" => r.op = "stop"
      PROVE  Inv'
  <2>1. Harmless(c, r)
    BY <1>1, <1>2, <1>3, <1>5, TheTypes DEF Harmless, Inv, Fenced, Work, PrepPc, JoinPc, disk
  <2> QED
    BY <1>1, <2>1, HarmlessInv
<1>6. CASE Return(c)
  BY <1>5, <1>6, IdleType DEF Return
<1>7. ASSUME NEW p \in {"forceRead", "swJoin", "swLoop"}, Goto(c, p),
             p = "forceRead" => call[c].op = "stop", p # "forceRead" => call[c].pc = "swSend"
      PROVE  Inv'
  <2>1. PICK r \in Request : /\ call' = [call EXCEPT ![c] = r]
                             /\ r.pc = p /\ r.op = call[c].op
    BY <1>1, <1>7, GotoIs DEF CallPc
  <2> QED
    BY <1>5, <1>7, <2>1 DEF Inv, Joining, JoinPc
<1> QED
  BY <1>4, <1>6, <1>7

\* A repair writes only while no generation is there; it may forget the instances.
LEMMA RepairInv ==
  ASSUME Inv, NEW c \in Callers, ForceCommit(c)
  PROVE  Inv'
<1>1. Types' /\ Types /\ up /\ call[c].pc = "forceCommit"
  BY RepairTypes DEF Inv, ForceCommit, At
<1>2. UNCHANGED <<up, lc, gens>>
  BY DEF ForceCommit
<1>3. CASE UNCHANGED disk /\ UNCHANGED job
  <2>1. Still
    BY <1>1, <1>2, <1>3 DEF Still
  <2>2. \/ Return(c)
        \/ call[c].op # "stop" /\ (Goto(c, "jdDelete") \/ Goto(c, "swLoop"))
    BY DEF ForceCommit, Repaired, NothingToRepair
  <2>3. call[c].op \in {"stop", "jobDelete"} /\ {"jdDelete", "swLoop"} \subseteq CallPc \ PrepPc
    BY <1>1 DEF Inv, Joining, CallPc, PrepPc
  <2> QED
    BY <1>1, <2>1, <2>2, <2>3, ReturnStill, GotoStill
<1>4. CASE ~(UNCHANGED disk /\ UNCHANGED job)
  <2>1. ~lc.deleted /\ lc.handle = 0 /\ run # "none" /\ insts' \in {insts, NoInsts}
        /\ (job' = job \/ job' = JobAfter("stopped"))
        /\ (Return(c) \/ (call[c].op # "stop" /\ Goto(c, "jdDelete")))
    BY <1>4 DEF ForceCommit, Repaired, HasRun, ForcedInsts, disk
  <2>2. \A g \in Gen : gens[g].phase \in {"unused", "done"}
    BY <2>1, FreeHandle
  <2>3. gens[1].phase # "unused" /\ \A g \in Gen : gens[g].phase \notin Producing
    BY <2>1, <2>2 DEF Inv, Work, Producing
  <2>4. job.deleted => job'.deleted
    BY <1>1, <2>1, JobAfterType DEF JobStatus
  <2>5. ASSUME NEW r \in Request, call' = [call EXCEPT ![c] = r], r.pc \in {"idle", "jdDelete"},
               r.op = "jobDelete" => job.deleted, r.pc = "jdDelete" => r.op = "jobDelete"
        PROVE  Inv'
    <3>1. Harmless(c, r)
      BY <1>1, <1>2, <2>1, <2>3, <2>4, <2>5 DEF Harmless, PrepPc, JoinPc
    <3> QED
      BY <1>1, <3>1, HarmlessInv
  <2>6. CASE Return(c)
    BY <2>5, <2>6, IdleType DEF Return
  <2>7. CASE call[c].op # "stop" /\ Goto(c, "jdDelete")
    <3>1. PICK r \in Request : /\ call' = [call EXCEPT ![c] = r]
                               /\ r.pc = "jdDelete" /\ r.op = call[c].op
      BY <1>1, <2>7, GotoIs DEF CallPc
    <3>2. call[c].op = "jobDelete" /\ job.deleted
      BY <1>1, <2>7 DEF Inv, Joining
    <3> QED
      BY <2>5, <3>1, <3>2
  <2> QED
    BY <2>1, <2>6, <2>7
<1> QED
  BY <1>3, <1>4

\* A deletion takes effect only while no generation is there.
LEMMA DeletionInv ==
  ASSUME Inv, NEW c \in Callers, JobDeleteRun(c) \/ JobDeletePurge(c) \/ DeleteRun(c)
  PROVE  Inv'
<1>1. Types' /\ Types /\ up /\ UNCHANGED <<up, gens>> /\ lc \in Lifecycle /\ job \in JobState
  BY DeletionTypes DEF Inv, JobDeleteRun, JobDeletePurge, DeleteRun, At, Types
<1>2. ASSUME NEW r \in Request, call' = [call EXCEPT ![c] = r],
             r.pc \in {"idle", "jdCleanup"},
             r.op = "jobDelete" => job.deleted, r.pc = "jdCleanup" => r.op = "jobDelete",
             \A g \in Gen : gens[g].phase \notin Producing,
             lc'.handle = lc.handle, lc'.deleted => lc.deleted \/ lc.handle = 0,
             run' \in {run, "none"}, insts' \in {insts, NoInsts},
             lc'.deleted => run' = "none", job.deleted => job'.deleted
      PROVE  Inv'
  <2>1. Harmless(c, r)
    BY <1>1, <1>2, TheTypes DEF Harmless, PrepPc, JoinPc, Inv, Work
  <2> QED
    BY <1>1, <2>1, HarmlessInv
<1>3. CASE JobDeletePurge(c)
  <2>1. call[c].pc = "jdCleanup"
    BY <1>3 DEF JobDeletePurge, At
  <2>2. \A g \in Gen : gens[g].phase \notin Producing
    BY <2>1 DEF Inv, Fenced
  <2>3. job'.deleted = job.deleted
    BY <1>1, <1>3 DEF JobDeletePurge, JobState
  <2> QED
    BY <1>2, <1>3, <2>2, <2>3, IdleType DEF JobDeletePurge, Return, Inv, Fenced
<1>4. CASE JobDeleteRun(c)
  <2>1. call[c].op = "jobDelete" /\ job.deleted /\ {"jdCleanup", "swCapture"} \subseteq CallPc \ PrepPc
    BY <1>4 DEF JobDeleteRun, At, Inv, Joining, JoinPc, CallPc, PrepPc
  <2>2. CASE Goto(c, "swCapture") /\ UNCHANGED <<lc, located, disk, fails>>
    <3>1. Still
      BY <1>1, <1>4, <2>2 DEF Still, JobDeleteRun
    <3> QED
      BY <1>1, <2>1, <2>2, <3>1, GotoStill
  <2>3. CASE (lc.deleted \/ lc.handle = 0) /\ (Goto(c, "jdCleanup") \/ Return(c))
             /\ run' \in {run, "none"} /\ insts' \in {insts, NoInsts}
             /\ lc'.handle = lc.handle /\ (lc'.deleted => run' = "none")
    <3>1. \A g \in Gen : gens[g].phase \notin Producing
      BY <2>3, FreeHandle DEF Producing
    <3>2. job' = job
      BY <1>4 DEF JobDeleteRun
    <3>3. CASE Goto(c, "jdCleanup")
      <4>1. PICK r \in Request : /\ call' = [call EXCEPT ![c] = r]
                                 /\ r.pc = "jdCleanup" /\ r.op = call[c].op
        BY <1>1, <2>1, <3>3, GotoIs
      <4> QED
        BY <1>2, <2>1, <2>3, <3>1, <3>2, <4>1
    <3>4. CASE Return(c)
      BY <1>2, <2>3, <3>1, <3>2, <3>4, IdleType DEF Return
    <3> QED
      BY <2>3, <3>3, <3>4
  <2> QED
    BY <1>1, <1>4, <2>2, <2>3 DEF JobDeleteRun, DeleteArtifacts, Lifecycle, disk, Inv, Fenced
<1>5. CASE DeleteRun(c)
  <2>1. Return(c)
    BY <1>5 DEF DeleteRun
  <2>2. CASE UNCHANGED <<lc, job, located, disk, fails>>
    <3>1. Still
      BY <1>1, <2>2 DEF Still
    <3> QED
      BY <1>1, <2>1, <3>1, ReturnStill
  <2>3. ASSUME NEW l \in Lifecycle, ClearGraphRunLinkage(l)
        PROVE  /\ lc'.handle = l.handle /\ lc'.deleted = l.deleted
               /\ job.deleted => job'.deleted
    BY <1>1, <2>3 DEF ClearGraphRunLinkage, Unlink, Lifecycle, JobState
  <2>4. CASE ~UNCHANGED <<lc, job, located, disk, fails>>
    <3> DEFINE l == [lc EXCEPT !.deleteJob = TRUE]
    <3>1. /\ l \in Lifecycle /\ l.handle = lc.handle /\ l.deleted = lc.deleted
          /\ [l EXCEPT !.deleted = TRUE] \in Lifecycle
          /\ [l EXCEPT !.deleted = TRUE].handle = lc.handle
      BY <1>1 DEF Lifecycle
    <3> HIDE DEF l
    <3>2. /\ lc.deleted \/ lc.handle = 0
          /\ run' \in {run, "none"} /\ insts' \in {insts, NoInsts}
          /\ \/ lc.deleted /\ ClearGraphRunLinkage(lc) /\ run' = run
             \/ run' = "none" /\ ClearGraphRunLinkage([l EXCEPT !.deleted = TRUE])
             \/ ~lc.deleted /\ lc' = l /\ job' = job
      BY <1>5, <2>4 DEF DeleteRun, DeleteArtifacts, disk, l
    <3>3. /\ lc'.handle = lc.handle /\ (job.deleted => job'.deleted)
          /\ lc'.deleted => run' = "none"
      BY <1>1, <2>3, <3>1, <3>2 DEF Inv, Fenced
    <3>4. \A g \in Gen : gens[g].phase \notin Producing
      BY <3>2, FreeHandle DEF Producing
    <3> QED
      BY <1>2, <2>1, <3>2, <3>3, <3>4, IdleType DEF Return
  <2> QED
    BY <2>2, <2>4
<1> QED
  BY <1>3, <1>4, <1>5

(***************************************************************************)
(* A generation is claimed, prepared, launched or abandoned.               *)
(***************************************************************************)
LEMMA ClaimInv ==
  ASSUME Inv, Types', NEW c \in Callers, NEW g \in Gen, NEW r \in Request, up, up' = up,
         lc.handle = 0, ~lc.deleted, lc' = [lc EXCEPT !.handle = g],
         gens' = [gens EXCEPT ![g].phase = "prep"], UNCHANGED <<disk, job>>,
         call' = [call EXCEPT ![c] = r], r.op = "jobDelete" => job.deleted, r.gen = g,
         \/ r.pc = "stPersist" /\ g = 1 /\ gens[1].phase = "unused"
         \/ r.pc = "rsPrepare" /\ gens[1].phase # "unused" /\ r.orig.insts = insts
  PROVE  Inv'
<1>1. /\ \A h \in Gen : gens[h].phase \in {"unused", "done"}
      /\ \A d \in Callers : ~Preparing(d)
  BY FreeHandle
<1>2. call'[c] = r /\ \A d \in Callers \ {c} : call'[d] = call[d]
  BY DEF Inv, Types
<1>3. /\ gens'[g].phase = "prep" /\ \A h \in Gen \ {g} : gens'[h] = gens[h]
      /\ lc'.handle = g /\ ~lc'.deleted
  BY DEF Inv, Types, Lifecycle, Generation
<1>4. OneOwner'
  BY <1>1, <1>3 DEF OneOwner, Producing
<1>5. Owned'
  BY <1>1, <1>2, <1>3 DEF Owned, Preparing
<1>6. Down' /\ Joining'
  <2>1. r.pc \notin JoinPc /\ r.pc \notin {"forceRead", "forceCommit"}
    BY DEF JoinPc
  <2> QED
    BY <1>2, <2>1 DEF Inv, Down, Joining
<1>7. Fenced'
  BY <1>1, <1>3 DEF Fenced, Producing
<1>8. Work'
  <2>1. gens'[1].phase # "unused"
    <3>1. 1 \in Gen
      BY TheTypes DEF Inv
    <3> QED
      BY <1>3, <3>1
  <2>2. \A d \in Callers : call'[d].pc = "stPersist" => insts' = NoInsts
    BY <1>1, <1>2 DEF Inv, Work, Preparing, PrepPc, disk
  <2>3. \A d \in Callers : call'[d].pc \in {"rsPrepare", "rsMark", "rsJob"} =>
          \A k \in Keys : insts'[k] = "succeeded" => call'[d].orig.insts[k] = "succeeded"
    BY <1>1, <1>2 DEF Preparing, PrepPc, disk
  <2>4. \A h \in Gen : gens'[h].phase # "live"
    BY <1>1, <1>3
  <2> QED
    BY <2>1, <2>2, <2>3, <2>4 DEF Work
<1> QED
  BY <1>4, <1>5, <1>6, <1>7, <1>8 DEF Inv

LEMMA ClaimingInv ==
  ASSUME Inv, NEW c \in Callers, StartClaim(c) \/ ResumeClaim(c)
  PROVE  Inv'
<1>1. Types /\ up /\ up' = up
  BY DEF Inv, StartClaim, ResumeClaim, At
<1>2. CASE StartClaim(c)
  <2> DEFINE r == [Idle EXCEPT !.pc = "stPersist", !.op = "start", !.gen = 1]
  <2>1. 1 \in Gen /\ 1 \in 0 .. MaxGen
    BY GraphRunAssumption DEF GraphRunAssumption, Gen
  <2>2. r \in Request /\ r.pc = "stPersist" /\ r.op = "start" /\ r.gen = 1
    BY <1>2, <2>1, IdleType DEF StartClaim, Request, CallPc
  <2>3. call' = [call EXCEPT ![c] = r]
    BY <1>2 DEF StartClaim
  <2> HIDE DEF r
  <2>4. Types'
    BY <1>1, <1>2, EntryStepTypes
  <2>5. /\ gens[1].phase = "unused" /\ lc.handle = 0 /\ ~lc.deleted
        /\ gens' = [gens EXCEPT ![1].phase = "prep"] /\ lc' = [lc EXCEPT !.handle = 1]
        /\ UNCHANGED <<disk, job>>
    BY <1>2 DEF StartClaim
  <2> QED
    BY <1>1, <2>1, <2>2, <2>3, <2>4, <2>5, ClaimInv
<1>3. CASE ResumeClaim(c)
  <2>1. Types'
    BY <1>1, <1>3, ResumeTypes DEF ResumeClaim, At
  <2>2. CASE Return(c) /\ UNCHANGED <<lc, gens>>
    <3>1. Still
      BY <1>1, <1>3, <2>2 DEF Still, ResumeClaim
    <3> QED
      BY <2>1, <2>2, <3>1, ReturnStill
  <2>3. ASSUME NEW g \in Gen, ~lc.deleted, lc.handle = 0, HasRun,
               \A h \in 1 .. (g - 1) : gens[h].phase # "unused",
               gens' = [gens EXCEPT ![g].phase = "prep"],
               lc' = [lc EXCEPT !.handle = g],
               call' = [call EXCEPT ![c].pc = "rsPrepare", ![c].gen = g,
                               ![c].orig = [run |-> run, insts |-> insts]]
        PROVE  Inv'
    <3> DEFINE o == [run |-> run, insts |-> insts]
    <3> DEFINE r == [call[c] EXCEPT !.pc = "rsPrepare", !.gen = g, !.orig = o]
    <3>1. o \in Original /\ g \in 0 .. MaxGen /\ call[c] \in Request /\ o.insts = insts
      BY <1>1 DEF Original, Types, Gen
    <3>2. call' = [call EXCEPT ![c] = r]
      BY <1>1, <2>3 DEF Types
    <3> HIDE DEF o
    <3>3. /\ r \in Request /\ r.pc = "rsPrepare" /\ r.gen = g /\ r.orig.insts = insts
          /\ r.op = call[c].op
      BY <3>1 DEF Request, CallPc
    <3> HIDE DEF r
    <3>4. gens[1].phase # "unused"
      BY <2>3 DEF Inv, Work, HasRun
    <3>5. r.op = "jobDelete" => job.deleted
      BY <3>3 DEF Inv, Joining
    <3> QED
      <4>1. UNCHANGED <<disk, job>>
        BY <1>3 DEF ResumeClaim
      <4>2. /\ ~lc.deleted /\ lc.handle = 0 /\ gens' = [gens EXCEPT ![g].phase = "prep"]
            /\ lc' = [lc EXCEPT !.handle = g]
        BY <2>3
      <4> QED
        BY <1>1, <2>1, <3>2, <3>3, <3>4, <3>5, <4>1, <4>2, ClaimInv
  <2> QED
    BY <1>3, <2>2, <2>3 DEF ResumeClaim
<1> QED
  BY <1>2, <1>3

\* What the request that prepares may rely on.
LEMMA Preparation ==
  ASSUME Inv, NEW c \in Callers, Preparing(c)
  PROVE  LET g == call[c].gen
         IN  /\ g \in Gen /\ gens[g].phase = "prep" /\ lc.handle = g /\ ~lc.deleted
             /\ \A h \in Gen \ {g} : gens[h].phase \in {"unused", "done"}
             /\ \A d \in Callers : Preparing(d) => d = c
             /\ gens[1].phase # "unused"
             /\ \A h \in Gen : gens[h].phase \notin Producing
<1> DEFINE g == call[c].gen
<1>1. g \in Gen /\ gens[g].phase = "prep"
  BY DEF Inv, Owned
<1>2. /\ lc.handle = g /\ ~lc.deleted
      /\ \A h \in Gen \ {g} : gens[h].phase \in {"unused", "done"}
      /\ gens[1].phase # "unused"
  BY <1>1, SoleOwner
<1>3. \A h \in Gen : gens[h].phase \notin Producing
  BY <1>1, <1>2 DEF Producing
<1> QED
  BY <1>1, <1>2, <1>3 DEF Inv, Owned

\* A preparation or a scheduler gives up: nothing is left at work.
LEMMA EndedInv ==
  ASSUME Inv, Types', NEW g \in Gen, gens[g].phase \in Producing \cup {"prep"}, Complete(g),
         up, up' = up, Joining', \A c \in Callers : ~Preparing(c)'
  PROVE  Inv'
<1>1. /\ ~lc.deleted /\ gens[1].phase # "unused"
      /\ \A h \in Gen \ {g} : gens[h].phase \in {"unused", "done"}
  BY SoleOwner
<1>2. /\ lc'.deleted = lc.deleted /\ gens'[g].phase = "done"
      /\ \A h \in Gen \ {g} : gens'[h] = gens[h]
  BY CompleteType DEF Inv
<1>3. \A h \in Gen : gens'[h].phase \in {"unused", "done"}
  BY <1>1, <1>2
<1>4. gens'[1].phase # "unused"
  BY <1>1, <1>2, TheTypes DEF Inv
<1>5. Down'
  BY DEF Down
<1> QED
  BY <1>1, <1>2, <1>3, <1>4, <1>5, QuietInv

\* So a scheduler that ends leaves the requests as they are.
LEMMA EndingInv ==
  ASSUME Inv, Types', NEW g \in Gen, gens[g].phase \in Producing, Complete(g), up,
         UNCHANGED <<up, call, job>>
  PROVE  Inv'
<1>1. gens[g].phase # "prep"
  BY DEF Producing
<1>2. Joining' /\ \A c \in Callers : ~Preparing(c)'
  BY <1>1, SoleOwner DEF Inv, Joining, Preparing
<1> QED
  BY <1>2, EndedInv

LEMMA AbandonInv ==
  ASSUME Inv, Types', NEW c \in Callers, Preparing(c), Complete(call[c].gen), Return(c),
         up, up' = up, job.deleted => job'.deleted
  PROVE  Inv'
<1>1. call'[c] = Idle /\ \A d \in Callers \ {c} : call'[d] = call[d]
  BY DEF Return, Inv, Types
<1>2. Joining'
  BY <1>1, IdleType DEF Inv, Joining, JoinPc
<1>3. \A d \in Callers : ~Preparing(d)'
  BY <1>1, IdleType, Preparation DEF Preparing, PrepPc
<1> QED
  BY <1>2, <1>3, Preparation, EndedInv

\* A preparation goes on.
LEMMA AdvanceInv ==
  ASSUME Inv, Types', NEW c \in Callers, Preparing(c), NEW p \in PrepPc, Goto(c, p),
         up, UNCHANGED <<up, lc, gens, job>>,
         p # "stPersist",
         p \in {"rsPrepare", "rsMark", "rsJob"} =>
           /\ call[c].pc \in {"rsPrepare", "rsMark", "rsJob"}
           /\ \A k \in Keys : insts'[k] = "succeeded" => insts[k] = "succeeded"
  PROVE  Inv'
<1>1. PICK r \in Request : /\ call' = [call EXCEPT ![c] = r]
                           /\ r.pc = p /\ r.op = call[c].op /\ r.gen = call[c].gen
                           /\ r.orig = call[c].orig
  BY GotoIs DEF Inv, PrepPc, CallPc
<1>2. call'[c] = r /\ \A d \in Callers \ {c} : call'[d] = call[d] /\ ~Preparing(d)
  BY <1>1, Preparation DEF Inv, Types
<1>3. /\ gens[call[c].gen].phase = "prep" /\ call[c].gen \in Gen /\ ~lc.deleted
      /\ gens[1].phase # "unused" /\ \A h \in Gen : gens[h].phase \notin Producing
  BY Preparation
<1>4. OneOwner'
  BY DEF Inv, OneOwner
<1>5. Owned'
  BY <1>1, <1>2, <1>3 DEF Owned, Preparing
<1>6. Down' /\ Joining'
  <2>1. p \notin JoinPc /\ p \notin {"forceRead", "forceCommit"}
    BY DEF PrepPc, JoinPc
  <2> QED
    BY <1>1, <1>2, <2>1 DEF Inv, Down, Joining
<1>7. Fenced'
  BY <1>3 DEF Inv, Fenced
<1>8. Work'
  <2>1. \A d \in Callers : call'[d].pc # "stPersist"
    BY <1>1, <1>2 DEF Preparing, PrepPc
  <2>2. \A d \in Callers : call'[d].pc \in {"rsPrepare", "rsMark", "rsJob"} =>
          \A k \in Keys : insts'[k] = "succeeded" => call'[d].orig.insts[k] = "succeeded"
    BY <1>1, <1>2 DEF Inv, Work, Preparing, PrepPc
  <2>3. \A h \in Gen : gens'[h].phase # "live"
    BY <1>3 DEF Producing
  <2> QED
    BY <1>3, <2>1, <2>2, <2>3 DEF Work
<1> QED
  BY <1>4, <1>5, <1>6, <1>7, <1>8 DEF Inv

\* The Job has accepted the run, and the scheduler starts.
LEMMA LaunchInv ==
  ASSUME Inv, Types', NEW c \in Callers, Preparing(c), Return(c), up, UNCHANGED <<up, lc, disk>>,
         gens' = [gens EXCEPT ![call[c].gen].phase = "launched"],
         NEW st \in JobStatus \ TerminalJob, JobAccepts(st), job' = JobAfter(st)
  PROVE  Inv'
<1> DEFINE g == call[c].gen
<1>1. /\ g \in Gen /\ gens[g].phase = "prep" /\ lc.handle = g /\ ~lc.deleted
      /\ \A h \in Gen \ {g} : gens[h].phase \in {"unused", "done"}
      /\ \A d \in Callers : Preparing(d) => d = c
      /\ gens[1].phase # "unused"
  BY Preparation
<1>2. call'[c] = Idle /\ \A d \in Callers \ {c} : call'[d] = call[d] /\ ~Preparing(d)
  BY <1>1 DEF Return, Inv, Types
<1>3. gens'[g].phase = "launched" /\ \A h \in Gen \ {g} : gens'[h] = gens[h]
  BY <1>1 DEF Inv, Types, Generation
<1>4. job'.present /\ job'.linked /\ ~job.deleted /\ ~job'.deleted
  BY JobAfterType DEF JobAccepts, Inv
<1> HIDE DEF g
<1>5. OneOwner'
  BY <1>1, <1>3 DEF OneOwner, Producing
<1>6. \A d \in Callers : ~Preparing(d)'
  BY <1>2, IdleType DEF Preparing, PrepPc
<1>7. Owned'
  BY <1>6 DEF Owned
<1>8. Down' /\ Joining'
  BY <1>2, <1>4, IdleType DEF Inv, Down, Joining, JoinPc
<1>9. Fenced'
  <2>1. \A d \in Callers : call'[d].pc # "jdCleanup"
    BY <1>4, <1>8 DEF Joining, JoinPc
  <2> QED
    BY <1>1, <1>4, <2>1 DEF Fenced
<1>10. Work'
  <2>1. \A h \in Gen : gens'[h].phase # "live"
    BY <1>1, <1>3
  <2>2. gens'[1].phase # "unused"
    BY <1>1, <1>3, TheTypes DEF Inv
  <2>3. \A d \in Callers : call'[d].pc \notin PrepPc
    BY <1>6 DEF Preparing
  <2> QED
    BY <2>1, <2>2, <2>3 DEF Work, PrepPc
<1> QED
  BY <1>5, <1>7, <1>8, <1>9, <1>10 DEF Inv

LEMMA StartInv ==
  ASSUME Inv, NEW c \in Callers, StartPersist(c) \/ StartBind(c)
  PROVE  Inv'
<1>1. Preparing(c) /\ up /\ up' = up
  BY DEF StartPersist, StartBind, At, Preparing, PrepPc
<1>2. Types' /\ job \in JobState
  BY <1>1, Preparation, StartTypes DEF Inv, Types
<1>3. CASE StartAbandon(c)
  <2>1. job'.deleted
    BY <1>2, <1>3 DEF StartAbandon, JobState
  <2> QED
    BY <1>1, <1>2, <1>3, <2>1, AbandonInv DEF StartAbandon
<1>4. CASE StartPersist(c) /\ ~StartAbandon(c)
  BY <1>1, <1>2, <1>4, AdvanceInv DEF StartPersist, PrepPc
<1>5. CASE StartBind(c) /\ ~StartAbandon(c)
  BY <1>1, <1>2, <1>5, LaunchInv DEF StartBind, JobStatus, TerminalJob
<1> QED
  BY <1>3, <1>4, <1>5

LEMMA ResumeInv ==
  ASSUME Inv, NEW c \in Callers, ResumePrepare(c) \/ ResumeMark(c) \/ ResumeLaunch(c)
  PROVE  Inv'
<1>1. Preparing(c) /\ up /\ up' = up
  BY DEF ResumePrepare, ResumeMark, ResumeLaunch, At, Preparing, PrepPc
<1>2. Types' /\ insts \in Insts
  BY <1>1, Preparation, ResumeTypes DEF Inv, Types
<1>3. CASE Complete(call[c].gen) /\ Return(c) /\ UNCHANGED job
  BY <1>1, <1>2, <1>3, AbandonInv
<1>4. CASE ResumePrepare(c) /\ insts' = ResetInsts(insts) /\ Goto(c, "rsMark") /\ UNCHANGED <<lc, gens>>
  BY <1>1, <1>2, <1>4, AdvanceInv, ResetType DEF ResumePrepare, PrepPc, At
<1>5. CASE ResumeMark(c) /\ Goto(c, "rsJob") /\ UNCHANGED <<insts, lc, gens>>
  BY <1>1, <1>2, <1>5, AdvanceInv DEF ResumeMark, PrepPc, At
<1>6. CASE ResumeLaunch(c) /\ JobAccepts("running") /\ job' = JobAfter("running") /\ Return(c)
           /\ gens' = [gens EXCEPT ![call[c].gen].phase = "launched"] /\ UNCHANGED <<lc, disk>>
  BY <1>1, <1>2, <1>6, LaunchInv DEF JobStatus, TerminalJob
<1>7. ResumePrepare(c) => \/ Complete(call[c].gen) /\ Return(c) /\ UNCHANGED job
                          \/ insts' = ResetInsts(insts) /\ Goto(c, "rsMark") /\ UNCHANGED <<lc, gens>>
  BY DEF ResumePrepare
<1>8. ResumeMark(c) => \/ Complete(call[c].gen) /\ Return(c) /\ UNCHANGED job
                       \/ Goto(c, "rsJob") /\ UNCHANGED <<insts, lc, gens>>
  BY DEF ResumeMark, RestoreOriginal
<1>9. ResumeLaunch(c) =>
        \/ Complete(call[c].gen) /\ Return(c) /\ UNCHANGED job
        \/ /\ JobAccepts("running") /\ job' = JobAfter("running") /\ Return(c)
           /\ gens' = [gens EXCEPT ![call[c].gen].phase = "launched"] /\ UNCHANGED <<lc, disk>>
  BY DEF ResumeLaunch, RestoreOriginal
<1> QED
  BY <1>3, <1>4, <1>5, <1>6, <1>7, <1>8, <1>9

\* A scheduler at work: the files follow its copy of the instances.
LEMMA WorkingInv ==
  ASSUME Inv, Types', NEW g \in Gen, gens[g].phase \in Producing, gens'[g].phase \in Producing,
         \A h \in Gen \ {g} : gens'[h] = gens[h],
         up, UNCHANGED <<up, lc, call>>,
         UNCHANGED job \/ \E js \in JobStatus : job' = JobAfter(js),
         gens'[g].phase = "live" =>
           \A k \in Keys : insts'[k] = "succeeded" => gens'[g].insts[k] = "succeeded"
  PROVE  Inv'
<1>1. /\ lc.handle = g /\ ~lc.deleted
      /\ \A h \in Gen \ {g} : gens[h].phase \in {"unused", "done"}
      /\ gens[1].phase # "unused" /\ \A c \in Callers : ~Preparing(c)
  <2>1. gens[g].phase # "prep"
    BY DEF Producing
  <2> QED
    BY <2>1, SoleOwner
<1>2. job.present /\ job.linked
  BY DEF Inv, Fenced
<1>3. job'.present /\ job'.linked /\ job'.deleted = job.deleted
  BY <1>2, JobAfterType DEF Inv
<1>4. OneOwner'
  BY <1>1 DEF OneOwner, Producing
<1>5. Owned' /\ Down'
  BY <1>1 DEF Owned, Down, Preparing
<1>6. Joining'
  BY <1>3 DEF Inv, Joining
<1>7. Fenced'
  <2>1. \A c \in Callers : call'[c].pc # "jdCleanup"
    BY DEF Inv, Fenced
  <2> QED
    BY <1>1, <1>3, <2>1 DEF Fenced
<1>8. Work'
  <2>1. gens'[1].phase # "unused"
    BY <1>1, TheTypes DEF Inv, Producing
  <2>2. \A c \in Callers : call'[c].pc \notin {"stPersist", "rsPrepare", "rsMark", "rsJob"}
    BY <1>1 DEF Preparing, PrepPc
  <2>3. \A h \in Gen \ {g} : gens'[h].phase # "live"
    BY <1>1
  <2> QED
    BY <2>1, <2>2, <2>3 DEF Work
<1> QED
  BY <1>4, <1>5, <1>6, <1>7, <1>8 DEF Inv

LEMMA SchedInv ==
  ASSUME Inv, NEW g \in Gen, SchedNext(g)
  PROVE  Inv'
<1>1. Types' /\ Types
  BY SchedTypes DEF Inv
<1>2. CASE \/ SchedControl(g) \/ SchedQuiesce(g) \/ SchedTimeout(g)
           \/ \E k \in Keys : SchedDispatch(g, k) \/ SchedResult(g, k) \/ SchedFail(g, k)
  <2>1. PICK m \in Insts, st \in RunStatus : Works(g, m, st)
    BY <1>1, <1>2, LiveWorks
  <2>2. UNCHANGED job \/ \E js \in JobStatus : job' = JobAfter(js)
    BY <1>1, <1>2, LiveWorks
  <2>3. gens[g].phase \in Producing /\ gens'[g].phase \in Producing
    BY <2>1 DEF Works, Producing
  <2>4. \A k \in Keys : insts'[k] = "succeeded" => m[k] = "succeeded"
    <3>1. insts' \in {m, insts}
      BY <2>1 DEF Works, Persist, disk
    <3>2. \A k \in Keys : insts[k] = "succeeded" => m[k] = "succeeded"
      BY <2>1 DEF Works, Inv, Work
    <3> QED
      BY <3>1, <3>2
  <2>5. /\ up /\ UNCHANGED <<up, lc, call>> /\ gens'[g].insts = m
        /\ \A h \in Gen \ {g} : gens'[h] = gens[h]
    BY <2>1 DEF Works
  <2> QED
    BY <1>1, <2>2, <2>3, <2>4, <2>5, WorkingInv
<1>3. CASE SchedExit(g)
  BY <1>1, <1>3, EndingInv DEF SchedExit, Producing
<1>4. CASE SchedStart(g)
  <2>1. CASE ~HasRun
    BY <1>1, <1>4, <2>1, EndingInv DEF SchedStart, Producing
  <2>2. CASE HasRun
    <3> DEFINE m == [k \in Keys |-> IF insts[k] = "awaitingInput" THEN "succeeded" ELSE insts[k]]
    <3> DEFINE r == [gens[g] EXCEPT !.phase = "live", !.st = "running", !.insts = m]
    <3>1. \A k \in Keys : insts[k] = "succeeded" => m[k] = "succeeded"
      OBVIOUS
    <3>2. gens' = [gens EXCEPT ![g] = r] /\ insts' = insts
      BY <1>1, <1>4, <2>2 DEF SchedStart, Types
    <3> HIDE DEF m
    <3>3. r.phase = "live" /\ r.insts = m
      BY <1>1 DEF Types, Generation
    <3> HIDE DEF r
    <3>4. /\ up /\ UNCHANGED <<up, lc, call>> /\ gens[g].phase = "launched"
          /\ job' = JobAfter("running")
      BY <1>4, <2>2 DEF SchedStart
    <3>5. gens'[g] = r /\ \A h \in Gen \ {g} : gens'[h] = gens[h]
      BY <1>1, <3>2 DEF Types
    <3> QED
      BY <1>1, <3>1, <3>2, <3>3, <3>4, <3>5, WorkingInv DEF Producing, JobStatus
  <2> QED
    BY <2>1, <2>2
<1> QED
  BY <1>2, <1>3, <1>4 DEF SchedNext, SchedOwn

\* A crash leaves the files, a boot finds no location and repairs nothing.
LEMMA CrashInv ==
  ASSUME Inv, Crash \/ Boot
  PROVE  Inv'
<1>1. Types' /\ Types
  BY CrashTypes DEF Inv
<1>2. CASE Crash
  <2>1. /\ ~up' /\ ~located' /\ ~lc'.deleted /\ UNCHANGED disk
        /\ \A c \in Callers : call'[c] = Idle
    BY <1>2 DEF Crash, FreshLifecycle
  <2>2. \A g \in Gen : /\ gens'[g].phase \in {"unused", "done"}
                       /\ gens'[g].phase = "unused" <=> gens[g].phase = "unused"
    BY <1>2 DEF Crash, NoGen
  <2>3. Down' /\ Joining' /\ \A c \in Callers : ~Preparing(c)'
    BY <2>1, <2>2, IdleType DEF Down, Joining, JoinPc, Preparing, PrepPc
  <2> QED
    BY <1>1, <2>1, <2>2, <2>3, QuietInv, TheTypes DEF Inv, Work, disk
<1>3. CASE Boot
  <2>1. /\ ~up /\ up' /\ ~located /\ UNCHANGED <<lc, located, gens, call>>
        /\ \A g \in Gen : gens[g].phase \in {"unused", "done"}
        /\ \A c \in Callers : call[c] = Idle
    BY <1>3 DEF Boot, Inv, Down
  <2>2. UNCHANGED disk \/ (run' = "none" /\ insts' = NoInsts)
    BY <1>3, <2>1 DEF Boot, ReconcileInterruptedRun, HasRun
  <2>3. Down' /\ Joining' /\ \A c \in Callers : ~Preparing(c)'
    BY <2>1, IdleType DEF Down, Joining, JoinPc, Preparing, PrepPc
  <2>4. lc'.deleted => run' = "none"
    BY <2>1, <2>2 DEF Inv, Fenced, disk
  <2>5. gens'[1].phase = "unused" => /\ run' = "none" /\ insts' = NoInsts
                                     /\ \A g \in Gen : gens'[g].phase = "unused"
    BY <2>1, <2>2 DEF Inv, Work, disk
  <2> QED
    BY <1>1, <2>1, <2>3, <2>4, <2>5, QuietInv
<1> QED
  BY <1>2, <1>3

LEMMA InitInv ==
  ASSUME Init
  PROVE  Inv
<1>1. /\ up /\ lc = FreshLifecycle /\ run = "none" /\ insts = NoInsts
      /\ gens = [g \in Gen |-> NoGen] /\ call = [c \in Callers |-> Idle]
      /\ MaxGen \in Nat /\ CtrlCap \in Nat /\ MaxCrash \in Nat /\ MaxFail \in Nat
  BY GraphRunAssumption DEF Init, GraphRunAssumption
<1>2. Types
  <2>1. job \in JobState /\ run \in RunStatus \cup {"none"} /\ insts \in Insts
    BY NoInstsType DEF Init, JobState, JobStatus
  <2>2. lc \in Lifecycle
    BY <1>1 DEF FreshLifecycle, Lifecycle
  <2>3. gens \in [Gen -> Generation] /\ \A g \in Gen : Len(gens[g].ctrl) <= CtrlCap
    BY <1>1, NoGenType
  <2>4. CallTypes
    BY <1>1, IdleType DEF CallTypes
  <2>5. up \in BOOLEAN /\ located \in BOOLEAN /\ crashes \in 0 .. MaxCrash /\ fails \in 0 .. MaxFail
    <3>1. up \in BOOLEAN /\ located \in BOOLEAN
      BY DEF Init
    <3>2. crashes \in 0 .. MaxCrash /\ fails \in 0 .. MaxFail
      BY <1>1 DEF Init
    <3> QED
      BY <3>1, <3>2
  <2> QED
    BY <2>1, <2>2, <2>3, <2>4, <2>5 DEF Types, CallTypes, Controls
<1>3. \A g \in Gen : gens[g].phase = "unused"
  BY <1>1 DEF NoGen
<1>4. OneOwner
  BY <1>3 DEF OneOwner, Producing
<1>5. Owned /\ Down /\ Joining
  BY <1>1, IdleType DEF Owned, Down, Joining, JoinPc, Preparing, PrepPc
<1>6. Fenced /\ Work
  BY <1>1, <1>3, IdleType DEF Fenced, Work, FreshLifecycle, Producing
<1> QED
  BY <1>2, <1>4, <1>5, <1>6 DEF Inv

LEMMA NextInv ==
  ASSUME Inv, [Next]_vars
  PROVE  Inv'
<1>1. ASSUME NEW c \in Callers, CallerNext(c) PROVE Inv'
  BY <1>1, EntryInv, ClaimingInv, ReadingInv DEF CallerNext
<1>2. ASSUME NEW c \in Callers, CallerStep(c) PROVE Inv'
  BY <1>2, StartInv, SendInv, ReadingInv, RepairInv, DeletionInv, ClaimingInv, ResumeInv
     DEF CallerStep
<1>3. ASSUME NEW g \in Gen, SchedNext(g) PROVE Inv'
  BY <1>3, SchedInv
<1>4. CASE Crash \/ Boot
  BY <1>4, CrashInv
<1>5. CASE UNCHANGED vars
  BY <1>5 DEF vars, Inv, Types, OneOwner, Owned, Down, Joining, Fenced, Work, Preparing
<1> QED
  BY <1>1, <1>2, <1>3, <1>4, <1>5 DEF Next

\* What every reachable state of the lifecycle satisfies.
THEOREM GraphInvariant == Spec => []Inv
<1>1. Init => Inv
  BY InitInv
<1>2. Inv /\ [Next]_vars => Inv'
  BY NextInv
<1> QED
  BY <1>1, <1>2, PTL DEF Spec

\* Every field of every variable has its type.
THEOREM LifecycleTypes == Spec => []Types
BY GraphInvariant, PTL DEF Inv

\* At most one scheduler generation is prepared or runs, whoever starts, resumes,
\* stops, repairs or deletes the run meanwhile: relaunchResumableRunLocked joins
\* before it installs, completeControl frees only its own handle.
THEOREM OneScheduler == Spec => []OneOwner
BY GraphInvariant, PTL DEF Inv

\* No scheduler is left once the deletion of its Job cleans up, and the files of
\* a deleted run do not come back (deleteMarkedJob, DeleteRun).
THEOREM CleanupIsFenced == Spec => []CleanupFenced
<1>1. Inv => CleanupFenced
  <2> SUFFICES ASSUME Inv PROVE CleanupFenced
    OBVIOUS
  <2>1. ASSUME NEW g \in Gen, gens[g].phase \in Producing
        PROVE  job.present /\ \A c \in Callers : call[c].pc # "jdCleanup"
    BY <2>1 DEF Inv, Fenced
  <2>2. lc.deleted => ~HasRun
    BY DEF Inv, Fenced, HasRun
  <2> QED
    BY <2>1, <2>2 DEF CleanupFenced
<1> QED
  BY <1>1, GraphInvariant, PTL

\* A success is forgotten only with the run, or by the repair of an orphan.
Kept(k) ==
  insts[k] = "succeeded" /\ insts'[k] # "succeeded" =>
    \/ run' = "none"
    \/ \E c \in Callers : call[c].pc = "forceCommit"

LEMMA PreparationKeeps ==
  ASSUME Inv, NEW c \in Callers, NEW k \in Keys,
         \/ StartPersist(c) \/ StartBind(c) \/ ResumePrepare(c) \/ ResumeMark(c) \/ ResumeLaunch(c)
  PROVE  Kept(k)
<1>1. insts \in Insts
  BY DEF Inv, Types
<1>2. CASE StartPersist(c)
  <2>1. insts = NoInsts
    BY <1>2 DEF StartPersist, At, Inv, Work
  <2> QED
    BY <2>1 DEF Kept, NoInsts
<1>3. CASE StartBind(c)
  BY <1>3 DEF StartBind, StartAbandon, Kept, disk
<1>4. CASE ResumePrepare(c)
  BY <1>1, <1>4, ResetType DEF ResumePrepare, Kept
<1>5. CASE RestoreOriginal(c) /\ call[c].pc \in {"rsMark", "rsJob"}
  <2>1. insts[k] = "succeeded" => call[c].orig.insts[k] = "succeeded"
    BY <1>5 DEF Inv, Work
  <2> QED
    BY <1>5, <2>1 DEF RestoreOriginal, Kept
<1>6. ResumeMark(c) \/ ResumeLaunch(c) =>
        UNCHANGED insts \/ (RestoreOriginal(c) /\ call[c].pc \in {"rsMark", "rsJob"})
  BY DEF ResumeMark, ResumeLaunch, At, disk
<1>7. CASE UNCHANGED insts
  BY <1>7 DEF Kept
<1> QED
  BY <1>2, <1>3, <1>4, <1>5, <1>6, <1>7

LEMMA RequestKeeps ==
  ASSUME Inv, NEW c \in Callers, NEW k \in Keys, CallerNext(c) \/ CallerStep(c)
  PROVE  Kept(k)
<1>1. CASE \/ StartPersist(c) \/ StartBind(c) \/ ResumePrepare(c)
           \/ ResumeMark(c) \/ ResumeLaunch(c)
  BY <1>1, PreparationKeeps
<1>2. CASE ForceCommit(c)
  BY <1>2 DEF ForceCommit, At, Kept
<1>3. CASE JobDeleteRun(c) \/ JobDeletePurge(c) \/ DeleteRun(c)
  <2>1. UNCHANGED insts \/ run' = "none"
    BY <1>3 DEF JobDeleteRun, JobDeletePurge, DeleteRun, DeleteArtifacts, disk
  <2> QED
    BY <2>1 DEF Kept
<1>4. CASE UNCHANGED insts
  BY <1>4 DEF Kept
<1>5. CallerNext(c) => UNCHANGED insts
  BY DEF CallerNext, ResolveJobGraphRun, StartClaim, JobDeleteMark, WaitCancelled, disk
<1>6. CASE \/ SignalAndSnapshot(c) \/ ForceRead(c) \/ WaitCapture(c) \/ WaitRead(c) \/ WaitLoop(c)
           \/ WaitSend(c) \/ WaitJoin(c) \/ WaitCheck(c) \/ WaitSettle(c) \/ ResumeRead(c)
           \/ ResumeClaim(c)
  BY <1>4, <1>6 DEF SignalAndSnapshot, ForceRead, WaitCapture, WaitRead, WaitLoop, WaitSend, WaitJoin,
         WaitCheck, WaitSettle, ResumeRead, ResumeClaim, disk
<1> QED
  BY <1>1, <1>2, <1>3, <1>4, <1>5, <1>6 DEF CallerStep

LEMMA SchedulerKeeps ==
  ASSUME Inv, NEW g \in Gen, NEW k \in Keys, SchedNext(g)
  PROVE  Kept(k)
<1>1. CASE UNCHANGED insts
  BY <1>1 DEF Kept
<1>2. CASE \/ SchedControl(g) \/ SchedQuiesce(g) \/ SchedTimeout(g)
           \/ \E j \in Keys : SchedDispatch(g, j) \/ SchedResult(g, j) \/ SchedFail(g, j)
  <2>1. PICK m \in Insts, st \in RunStatus : Works(g, m, st)
    BY <1>2, LiveWorks DEF Inv
  <2>2. insts' \in {m, insts}
    BY <2>1 DEF Works, Persist, disk
  <2>3. insts[k] = "succeeded" => m[k] = "succeeded"
    BY <2>1 DEF Works, Inv, Work
  <2> QED
    BY <2>2, <2>3 DEF Kept
<1>3. SchedStart(g) \/ SchedExit(g) => UNCHANGED insts
  BY DEF SchedStart, SchedExit, disk
<1> QED
  BY <1>1, <1>2, <1>3 DEF SchedNext, SchedOwn

\* Whatever stops, resumes, restores, crashes and failing writes do, an instance
\* that succeeded is not forgotten while its run lives, the orphan's repair apart.
THEOREM SuccessIsKept == Spec => SucceededKept
<1>1. Inv /\ [Next]_vars =>
        [\A k \in Keys :
            insts[k] = "succeeded" /\ insts'[k] # "succeeded" =>
              \/ run' = "none"
              \/ \E c \in Callers : call[c].pc = "forceCommit"]_vars
  <2> SUFFICES ASSUME Inv, [Next]_vars, NEW k \in Keys
               PROVE  Kept(k)
    BY DEF Kept
  <2>1. CASE \E c \in Callers : CallerNext(c) \/ CallerStep(c)
    BY <2>1, RequestKeeps
  <2>2. CASE \E g \in Gen : SchedNext(g)
    BY <2>2, SchedulerKeeps
  <2>3. CASE Crash \/ Boot
    <3>1. Boot => ~HasRun
      BY DEF Boot, Inv, Down, HasRun
    <3>2. UNCHANGED insts \/ run' = "none"
      BY <2>3, <3>1 DEF Crash, Boot, ReconcileInterruptedRun, disk
    <3> QED
      BY <3>2 DEF Kept
  <2>4. CASE UNCHANGED vars
    BY <2>4 DEF vars, Kept
  <2> QED
    BY <2>1, <2>2, <2>3, <2>4 DEF Next
<1> QED
  BY <1>1, GraphInvariant, PTL DEF Spec, SucceededKept
=============================================================================
