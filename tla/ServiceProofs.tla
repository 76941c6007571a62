---------------------------- MODULE ServiceProofs ----------------------------
(***************************************************************************)
(* Two components that the service runs on timers, the WeChat outbox and,  *)
(* in the second part, the schedules (Schedule), and, in the third, the    *)
(* one that every request passes: the accounts (Accounts).                 *)
(*                                                                         *)
(* What the recipients of the outbox see, for any number of recipients,    *)
(* requests, chunks and faults (DeliveredInOrder).                         *)
(*                                                                         *)
(* The worker takes the oldest task that is not through and touches no     *)
(* other, so what arrived is known from the tasks but for one chunk: the   *)
(* next one of that task, which may have arrived without a record of it.   *)
(* That chunk is the only one that can arrive again, and it takes a fault  *)
(* to leave it unrecorded, which pays for the repetition (Repeated).  The  *)
(* pause after a chunk is kept twice, in memory and with the task, and a   *)
(* new send needs both to be over (Paced).                                 *)
(***************************************************************************)
EXTENDS WechatOutbox, SequenceTheorems, FiniteSetTheorems, TLAPS

CONSTANTS Runs,
          Clients, Ids, Usernames, Custom, Starts, MaxChanges, MaxSessions, AccFaults
VARIABLES schDef, schState, slots, trig, graphJob, mark, taskLock, held, notified, ask, schSeen,
          accDisk, accMem, browser, acSeen

\* The schedules, and the accounts.
Sched == INSTANCE Schedule
Acct == INSTANCE Accounts WITH MaxFaults <- AccFaults, disk <- accDisk, mem <- accMem,
                               client <- browser

Task == [to : Recipients, status : {"queued", "sending", "retrying", "sent"}, next : Nat,
         wait : BOOLEAN, fresh : BOOLEAN]
Chunk == Nat \X Nat
Worker == [pc : {"idle", "mark", "send", "save"}, at : Nat, task : Task \cup {0}]
Seen == [requests : Nat, faults : Nat, got : Seq(Chunk), fresh : BOOLEAN, lost : BOOLEAN]
Got == ToSet(obSeen.got)

Types ==
  /\ tasks \in Seq(Task)
  /\ request \in SUBSET Recipients
  /\ worker \in Worker
  /\ IF worker.pc = "idle" THEN worker = Idle
     ELSE worker.at \in 1 .. Len(tasks) /\ worker.task \in Task
  /\ resting \in BOOLEAN
  /\ obSeen \in Seen

\* A task is through when its chunks are, and those before its next one have arrived.
Recorded(t, task) ==
  /\ task.next \in 1 .. Chunks + 1
  /\ task.status = "sent" <=> task.next = Chunks + 1
  /\ \A c \in 1 .. task.next - 1 : <<t, c>> \in Got

\* Every task before t is through.
Oldest(t) == \A s \in 1 .. t - 1 : tasks[s].status = "sent"

\* What arrived beyond that is the next chunk of the oldest task that is not through.
Progress ==
  /\ \A t \in 1 .. Len(tasks) : Recorded(t, tasks[t])
  /\ \A t, c \in Nat : <<t, c>> \in Got =>
        /\ t \in 1 .. Len(tasks) /\ c \in 1 .. Chunks /\ c <= tasks[t].next
        /\ c = tasks[t].next => Oldest(t)

Working ==
  worker.pc # "idle" =>
    /\ Oldest(worker.at) /\ tasks[worker.at].status # "sent"
    /\ worker.pc # "save" => worker.task = tasks[worker.at]
    /\ worker.pc = "save" =>
         /\ worker.task.next \in {tasks[worker.at].next, tasks[worker.at].next + 1}
         /\ Recorded(worker.at, worker.task)
         /\ tasks[worker.at].fresh => worker.task.fresh

\* No chunk before all that are due before it.
DueBefore(t, c, chunk) == t < chunk[1] \/ (t = chunk[1] /\ c < chunk[2])
Earlier(got, i, t, c) == \E j \in 1 .. i - 1 : got[j] = <<t, c>>
Ordered ==
  \A i \in 1 .. Len(obSeen.got), t \in 1 .. Len(tasks), c \in 1 .. Chunks :
     DueBefore(t, c, obSeen.got[i]) => Earlier(obSeen.got, i, t, c)

\* A chunk has arrived that its task still is to send, and the worker does not know.
Unrecorded ==
  /\ \E t \in 1 .. Len(tasks) : <<t, tasks[t].next>> \in Got
  /\ ~(worker.pc = "save" /\ worker.task.next = tasks[worker.at].next + 1)

Repeated ==
  /\ IsFiniteSet(Got)
  /\ Len(obSeen.got) - Cardinality(Got) + (IF Unrecorded THEN 1 ELSE 0) <= obSeen.faults

Paced ==
  /\ obSeen.fresh /\ ~obSeen.lost => resting \/ \E i \in 1 .. Len(tasks) : tasks[i].fresh
  /\ worker.pc \in {"mark", "send"} /\ obSeen.fresh => obSeen.lost

Inv == Types /\ Progress /\ Working /\ Ordered /\ Repeated /\ Paced

\* A message has chunks.
ChunkAssumption == Chunks \in Nat \ {0}
-----------------------------------------------------------------------------
\* Appending to a sequence.
LEMMA Appended ==
  ASSUME NEW S, NEW s \in Seq(S), NEW x \in S
  PROVE  /\ Append(s, x) \in Seq(S) /\ Len(s) \in Nat /\ Len(Append(s, x)) = Len(s) + 1
         /\ \A i \in 1 .. Len(s) : Append(s, x)[i] = s[i]
         /\ Append(s, x)[Len(s) + 1] = x
         /\ ToSet(Append(s, x)) = ToSet(s) \cup {x}
<1>1. /\ Append(s, x) \in Seq(S) /\ Len(s) \in Nat /\ Len(Append(s, x)) = Len(s) + 1
      /\ \A i \in 1 .. Len(s) : Append(s, x)[i] = s[i]
      /\ Append(s, x)[Len(s) + 1] = x
  BY AppendProperties, LenProperties
<1>2. DOMAIN s = 1 .. Len(s) /\ DOMAIN Append(s, x) = 1 .. Len(s) + 1
  BY <1>1, LenProperties
<1>3. 1 .. Len(s) + 1 = 1 .. Len(s) \cup {Len(s) + 1}
  BY <1>1
<1>4. ToSet(Append(s, x)) = ToSet(s) \cup {x}
  <2> HIDE <1>3
  <2>1. ASSUME NEW y \in ToSet(Append(s, x))  PROVE y \in ToSet(s) \cup {x}
    <3>1. PICK i \in 1 .. Len(s) + 1 : y = Append(s, x)[i]
      BY <1>2, <2>1 DEF ToSet
    <3>2. CASE i = Len(s) + 1
      BY <1>1, <3>1, <3>2
    <3>3. CASE i \in 1 .. Len(s)
      BY <1>1, <1>2, <3>1, <3>3 DEF ToSet
    <3> QED BY <1>3, <3>1, <3>2, <3>3
  <2>2. ASSUME NEW y \in ToSet(s)  PROVE y \in ToSet(Append(s, x))
    <3>1. PICK i \in 1 .. Len(s) : y = s[i]
      BY <1>2, <2>2 DEF ToSet
    <3>2. y = Append(s, x)[i] /\ i \in 1 .. Len(s) + 1
      BY <1>1, <1>3, <3>1
    <3> QED BY <1>2, <3>2 DEF ToSet
  <2>3. x \in ToSet(Append(s, x))
    <3>1. Len(s) + 1 \in DOMAIN Append(s, x)
      BY <1>1, <1>2
    <3> QED BY <1>1, <3>1 DEF ToSet
  <2> QED BY <2>1, <2>2, <2>3
<1> QED BY <1>1, <1>4

\* What a sequence contains is at a place of it.
LEMMA Contained ==
  ASSUME NEW S, NEW s \in Seq(S), NEW x
  PROVE  x \in ToSet(s) <=> \E j \in 1 .. Len(s) : s[j] = x
BY LenProperties DEF ToSet

-----------------------------------------------------------------------------
(* The tasks after a step.                                                 *)

\* The tasks are a sequence.
LEMMA TaskTypes ==
  ASSUME Types
  PROVE  /\ Len(tasks) \in Nat /\ DOMAIN tasks = 1 .. Len(tasks)
         /\ \A i \in 1 .. Len(tasks) : tasks[i] \in Task
BY LenProperties, ElementOfSeq DEF Types

\* EnqueueNext: they stay, and a new one comes last.
LEMMA TaskAdded ==
  ASSUME Types, NEW r \in Recipients, tasks' = Append(tasks, NewTask(r))
  PROVE  /\ tasks' \in Seq(Task) /\ Len(tasks') = Len(tasks) + 1
         /\ \A i \in 1 .. Len(tasks) : tasks'[i] = tasks[i]
         /\ tasks'[Len(tasks) + 1] = NewTask(r)
<1>1. NewTask(r) \in Task
  BY DEF NewTask, Task
<1> QED BY <1>1, Appended DEF Types

\* MarkSending and Persist: one is replaced.
LEMMA TaskSaved ==
  ASSUME Types, NEW a \in 1 .. Len(tasks), NEW task \in Task,
         tasks' = [tasks EXCEPT ![a] = task]
  PROVE  /\ tasks' \in Seq(Task) /\ Len(tasks') = Len(tasks)
         /\ \A i \in 1 .. Len(tasks) : tasks'[i] = IF i = a THEN task ELSE tasks[i]
BY ExceptSeq DEF Types

\* Pass and PassLong: each of them changes a mark of its time.
LEMMA TasksRest ==
  ASSUME Types,
         \/ tasks' = [i \in DOMAIN tasks |-> [tasks[i] EXCEPT !.fresh = FALSE]]
         \/ tasks' = [i \in DOMAIN tasks |-> [tasks[i] EXCEPT !.wait = FALSE]]
  PROVE  /\ tasks' \in Seq(Task) /\ Len(tasks') = Len(tasks)
         /\ \A i \in 1 .. Len(tasks) : /\ tasks'[i].next = tasks[i].next
                                       /\ tasks'[i].status = tasks[i].status
<1>1. /\ Len(tasks) \in Nat /\ DOMAIN tasks = 1 .. Len(tasks)
      /\ \A i \in 1 .. Len(tasks) : tasks[i] \in Task
  BY TaskTypes
<1>2. tasks' \in [1 .. Len(tasks) -> Task]
  <2>1. \A i \in 1 .. Len(tasks) : /\ [tasks[i] EXCEPT !.fresh = FALSE] \in Task
                                   /\ [tasks[i] EXCEPT !.wait = FALSE] \in Task
    BY <1>1 DEF Task
  <2> QED BY <1>1, <2>1
<1>3. tasks' \in Seq(Task) /\ Len(tasks') = Len(tasks)
  BY <1>1, <1>2, SeqDef, LenProperties
<1> QED BY <1>1, <1>3 DEF Task

-----------------------------------------------------------------------------
(* The types.                                                              *)

LEMMA TypesStep ==
  ASSUME Types, [Next]_obVars
  PROVE  Types'
<1>a. /\ Len(tasks) \in Nat /\ DOMAIN tasks = 1 .. Len(tasks)
      /\ \A i \in 1 .. Len(tasks) : tasks[i] \in Task
  BY TaskTypes
<1>b. Idle.pc = "idle" /\ Idle \in Worker
  BY DEF Idle, Worker
<1>c. Fault => obSeen' \in Seen
  BY DEF Types, Fault, Seen
<1>1. ASSUME NEW rs \in SUBSET Recipients, Enqueue(rs)  PROVE Types'
  <2>1. obSeen' \in Seen
    BY <1>1 DEF Types, Enqueue, Seen
  <2> QED BY <1>1, <2>1 DEF Types, Enqueue
<1>2. ASSUME NEW r \in Recipients, EnqueueNext(r)  PROVE Types'
  <2>1. obSeen' \in Seen /\ request' \in SUBSET Recipients /\ UNCHANGED <<worker, resting>>
    BY <1>2, <1>c DEF Types, EnqueueNext
  <2>2. tasks' = tasks \/ tasks' = Append(tasks, NewTask(r))
    BY <1>2 DEF EnqueueNext
  <2>3. tasks' \in Seq(Task) /\ Len(tasks') \in {Len(tasks), Len(tasks) + 1}
    BY <2>2, TaskAdded DEF Types
  <2>4. worker.pc # "idle" => worker.at \in 1 .. Len(tasks')
    BY <2>3, <1>a DEF Types
  <2> QED BY <2>1, <2>3, <2>4 DEF Types
<1>3. ASSUME NextTask  PROVE Types'
  <2>1. PICK i \in 1 .. Len(tasks) : Take(i)
    BY <1>3, <1>a DEF NextTask, Due
  <2>2. worker' \in Worker /\ worker'.at = i /\ worker'.task = tasks[i] /\ worker'.pc = "mark"
    BY <2>1, <1>a DEF Take, Worker
  <2> QED BY <2>1, <2>2, <1>a DEF Types, Take
<1>4. ASSUME MarkSending  PROVE Types'
  <2>1. [worker.task EXCEPT !.status = "sending"] \in Task
    BY <1>4 DEF Types, MarkSending, Task
  <2>2. CASE tasks' = [tasks EXCEPT ![worker.at] = [worker.task EXCEPT !.status = "sending"]]
             /\ worker' = [worker EXCEPT !.pc = "send", !.task = [worker.task EXCEPT !.status = "sending"]]
             /\ UNCHANGED obSeen
    <3>1. worker.at \in 1 .. Len(tasks)
      BY <1>4 DEF Types, MarkSending
    <3>2. tasks' \in Seq(Task) /\ Len(tasks') = Len(tasks)
      BY <2>1, <2>2, <3>1, TaskSaved
    <3>3. worker' \in Worker /\ worker'.at = worker.at /\ worker'.task \in Task /\ worker'.pc = "send"
      BY <2>1, <2>2 DEF Types, Worker
    <3> QED BY <1>4, <2>2, <3>1, <3>2, <3>3 DEF Types, MarkSending
  <2>3. CASE Fault /\ worker' = Idle /\ UNCHANGED tasks
    BY <1>4, <1>b, <1>c, <2>3 DEF Types, MarkSending
  <2> QED BY <1>4, <2>2, <2>3 DEF MarkSending
<1>d. ASSUME worker.pc = "send"
      PROVE  /\ Reached(obSeen) \in Seen /\ worker.at \in 1 .. Len(tasks)
             /\ worker.task \in Task /\ worker.task.next \in Nat
  <2>1. worker.at \in 1 .. Len(tasks) /\ worker.task \in Task
    BY <1>d DEF Types
  <2>2. worker.task.next \in Nat /\ <<worker.at, worker.task.next>> \in Chunk
    BY <2>1, <1>a DEF Task, Chunk
  <2>3. Append(obSeen.got, <<worker.at, worker.task.next>>) \in Seq(Chunk)
    BY <2>2, Appended DEF Types, Seen
  <2>4. Reached(obSeen) \in Seen
    BY <2>3 DEF Types, Seen, Reached
  <2> QED BY <2>1, <2>2, <2>4
<1>5. ASSUME Sent  PROVE Types'
  <2>1. worker.pc = "send"
    BY <1>5 DEF Sent
  <2>2. obSeen' \in Seen
    BY <1>5, <1>d, <2>1 DEF Sent, Seen
  <2>3. [worker.task EXCEPT !.next = worker.task.next + 1, !.wait = FALSE, !.fresh = TRUE,
           !.status = IF worker.task.next = Chunks THEN "sent" ELSE "queued"] \in Task
    <3> DEFINE status == IF worker.task.next = Chunks THEN "sent" ELSE "queued"
    <3>1. status \in {"queued", "sent"}
      OBVIOUS
    <3> HIDE DEF status
    <3>2. PICK task \in Task : task = worker.task
      BY <1>d, <2>1
    <3>3. task.next + 1 \in Nat
      BY <1>d, <2>1, <3>2
    <3>4. [task EXCEPT !.next = task.next + 1, !.wait = FALSE, !.fresh = TRUE,
             !.status = status] \in Task
      BY <3>1, <3>3 DEF Task
    <3> QED BY <3>2, <3>4 DEF status
  <2>4. /\ worker' \in Worker /\ worker'.pc = "save" /\ worker'.at = worker.at
        /\ worker'.task = [worker.task EXCEPT !.next = worker.task.next + 1, !.wait = FALSE,
             !.fresh = TRUE, !.status = IF worker.task.next = Chunks THEN "sent" ELSE "queued"]
    BY <1>5, <2>3 DEF Types, Sent, Worker
  <2> QED BY <1>5, <1>d, <2>1, <2>2, <2>3, <2>4 DEF Types, Sent
<1>6. ASSUME SendFails  PROVE Types'
  <2>1. worker.pc = "send"
    BY <1>6 DEF SendFails
  <2>2. obSeen' \in Seen
    <3>1. PICK seen \in {obSeen, Reached(obSeen)} : obSeen' = [seen EXCEPT !.faults = @ + 1]
      BY <1>6 DEF SendFails
    <3>2. seen \in Seen
      BY <1>d, <2>1, <3>1 DEF Types
    <3> QED BY <3>1, <3>2 DEF Seen
  <2>3. [worker.task EXCEPT !.wait = TRUE, !.status = "retrying"] \in Task
    BY <1>d, <2>1 DEF Task
  <2>4. /\ worker' \in Worker /\ worker'.pc = "save" /\ worker'.at = worker.at
        /\ worker'.task = [worker.task EXCEPT !.wait = TRUE, !.status = "retrying"]
    BY <1>6, <2>3 DEF Types, SendFails, Worker
  <2> QED BY <1>6, <1>d, <2>1, <2>2, <2>3, <2>4 DEF Types, SendFails
<1>7. ASSUME Persist  PROVE Types'
  <2>1. worker.at \in 1 .. Len(tasks) /\ worker.task \in Task /\ worker' = Idle
    BY <1>7 DEF Types, Persist
  <2>2. CASE tasks' = [tasks EXCEPT ![worker.at] = worker.task] /\ UNCHANGED obSeen
    BY <1>7, <1>b, <2>1, <2>2, TaskSaved DEF Types, Persist
  <2>3. CASE Fault /\ UNCHANGED tasks
    BY <1>7, <1>b, <1>c, <2>1, <2>3 DEF Types, Persist
  <2> QED BY <1>7, <2>2, <2>3 DEF Persist
<1>8. ASSUME Pass  PROVE Types'
  <2>1. tasks' \in Seq(Task) /\ Len(tasks') = Len(tasks) /\ obSeen' \in Seen
    BY <1>8, TasksRest DEF Pass, Types, Seen
  <2>2. CASE worker.pc = "idle"
    BY <1>8, <1>b, <2>1, <2>2 DEF Types, Pass
  <2>3. CASE worker.pc # "idle"
    <3>1. /\ worker' = [worker EXCEPT !.task = [worker.task EXCEPT !.fresh = FALSE]]
          /\ worker.task \in Task
      BY <1>8, <1>b, <2>3 DEF Types, Pass
    <3>2. [worker.task EXCEPT !.fresh = FALSE] \in Task
      BY <3>1 DEF Task
    <3>3. worker' \in Worker /\ worker'.pc = worker.pc /\ worker'.at = worker.at /\ worker'.task \in Task
      BY <3>1, <3>2 DEF Types, Worker
    <3> QED BY <1>8, <2>1, <2>3, <3>3 DEF Types, Pass
  <2> QED BY <2>2, <2>3
<1>9. ASSUME PassLong  PROVE Types'
  BY <1>9, TasksRest DEF Types, PassLong
<1>10. ASSUME Restart  PROVE Types'
  <2>1. obSeen' \in Seen
    <3> DEFINE lost == obSeen.fresh /\ \A i \in DOMAIN tasks : ~tasks[i].fresh
    <3>1. PICK b \in BOOLEAN : b = lost
      OBVIOUS
    <3>2. obSeen' = [obSeen EXCEPT !.faults = @ + 1, !.lost = b]
      BY <1>10, <3>1 DEF Restart
    <3> HIDE DEF lost
    <3>3. PICK seen \in Seen : seen = obSeen
      BY DEF Types
    <3>4. seen.faults + 1 \in Nat
      BY DEF Seen
    <3>5. [seen EXCEPT !.faults = seen.faults + 1, !.lost = b] \in Seen
      BY <3>4, Zenon DEF Seen
    <3> QED BY <3>2, <3>3, <3>5
  <2> QED BY <1>10, <1>b, <2>1 DEF Types, Restart
<1>11. CASE UNCHANGED obVars
  BY <1>11 DEF Types, obVars
<1> QED BY <1>1, <1>2, <1>3, <1>4, <1>5, <1>6, <1>7, <1>8, <1>9, <1>10, <1>11 DEF Next

-----------------------------------------------------------------------------
(* What has arrived and what is recorded of it.                            *)

\* As far as it is recorded, the tasks stay as they are.
SameTasks ==
  /\ Len(tasks') = Len(tasks)
  /\ \A i \in 1 .. Len(tasks) : /\ tasks'[i].next = tasks[i].next
                                /\ (tasks'[i].status = "sent") <=> (tasks[i].status = "sent")

\* At most the next chunk of the oldest task arrives.
LEMMA ProgressArrival ==
  ASSUME ChunkAssumption, Types, Progress, SameTasks, NEW a, Got \in SUBSET Got',
         \/ Got' = Got
         \/ /\ a \in 1 .. Len(tasks) /\ Oldest(a) /\ tasks[a].status # "sent"
            /\ Got' = Got \cup {<<a, tasks[a].next>>}
  PROVE  Progress'
<1>1. /\ Len(tasks) \in Nat /\ \A i \in 1 .. Len(tasks) : tasks[i].next \in Nat
  BY TaskTypes DEF Task
<1>2. \A t \in 1 .. Len(tasks) : Oldest(t) => Oldest(t)'
  BY <1>1 DEF SameTasks, Oldest
<1>3. ASSUME NEW t \in 1 .. Len(tasks)  PROVE Recorded(t, tasks[t])'
  BY <1>1, <1>3 DEF Progress, Recorded, SameTasks
<1>4. ASSUME NEW t \in Nat, NEW c \in Nat, <<t, c>> \in Got'
      PROVE  /\ t \in 1 .. Len(tasks) /\ c \in 1 .. Chunks /\ c <= tasks[t].next
             /\ c = tasks[t].next => Oldest(t)
  <2>1. CASE <<t, c>> \in Got
    BY <2>1 DEF Progress
  <2>2. CASE <<t, c>> \notin Got
    <3>1. /\ a \in 1 .. Len(tasks) /\ Oldest(a) /\ tasks[a].status # "sent"
          /\ t = a /\ c = tasks[a].next
      BY <1>4, <2>2
    <3>2. Recorded(a, tasks[a])
      BY <3>1 DEF Progress
    <3>3. c \in 1 .. Chunks + 1 /\ c # Chunks + 1
      BY <3>1, <3>2 DEF Recorded
    <3> QED BY <1>1, <3>1, <3>3 DEF ChunkAssumption
  <2> QED BY <2>1, <2>2
<1> QED BY <1>1, <1>2, <1>3, <1>4 DEF Progress, SameTasks

\* The oldest task is saved with what has arrived.
LEMMA ProgressSaved ==
  ASSUME Types, Progress, Got' = Got, NEW a \in 1 .. Len(tasks), NEW task \in Task,
         Oldest(a), tasks[a].status # "sent", Recorded(a, task), tasks[a].next <= task.next,
         tasks' = [tasks EXCEPT ![a] = task]
  PROVE  Progress'
<1>1. /\ Len(tasks) \in Nat /\ \A i \in 1 .. Len(tasks) : tasks[i].next \in Nat
  BY TaskTypes DEF Task
<1>2. /\ Len(tasks') = Len(tasks) /\ task.next \in Nat
      /\ \A i \in 1 .. Len(tasks) : tasks'[i] = IF i = a THEN task ELSE tasks[i]
  BY TaskSaved DEF Task
<1>3. ASSUME NEW t \in 1 .. Len(tasks)  PROVE Recorded(t, tasks[t])'
  <2>1. Recorded(t, tasks[t])
    BY DEF Progress
  <2> QED BY <1>2, <2>1 DEF Recorded
<1>4. ASSUME NEW t \in Nat, NEW c \in Nat, <<t, c>> \in Got'
      PROVE  /\ t \in 1 .. Len(tasks') /\ c \in 1 .. Chunks /\ c <= tasks'[t].next
             /\ c = tasks'[t].next => Oldest(t)'
  <2>1. /\ t \in 1 .. Len(tasks) /\ c \in 1 .. Chunks /\ c <= tasks[t].next
        /\ c = tasks[t].next => Oldest(t)
    BY <1>4 DEF Progress
  <2>2. tasks[t].next \in Nat /\ c <= tasks'[t].next
    BY <1>1, <1>2, <2>1
  <2>3. ASSUME c = tasks'[t].next  PROVE Oldest(t)'
    <3>1. c = tasks[t].next /\ Oldest(t)
      BY <1>2, <2>1, <2>2, <2>3
    <3>2. t <= a
      BY <2>1, <3>1 DEF Oldest
    <3> QED BY <1>1, <1>2, <2>1, <3>1, <3>2 DEF Oldest
  <2> QED BY <1>2, <2>1, <2>2, <2>3
<1> QED BY <1>2, <1>3, <1>4 DEF Progress

\* A new task has all of its chunks to send.
LEMMA ProgressAdded ==
  ASSUME ChunkAssumption, Types, Progress, Got' = Got, NEW r \in Recipients, tasks' = Append(tasks, NewTask(r))
  PROVE  Progress'
<1>1. /\ Len(tasks) \in Nat /\ \A i \in 1 .. Len(tasks) : tasks[i].next \in Nat
  BY TaskTypes DEF Task
<1>2. /\ Len(tasks') = Len(tasks) + 1
      /\ \A i \in 1 .. Len(tasks) : tasks'[i] = tasks[i]
      /\ tasks'[Len(tasks) + 1].next = 1 /\ tasks'[Len(tasks) + 1].status = "queued"
  BY TaskAdded DEF NewTask
<1>3. ASSUME NEW t \in 1 .. Len(tasks')  PROVE Recorded(t, tasks[t])'
  <2>1. CASE t \in 1 .. Len(tasks)
    BY <1>2, <2>1 DEF Progress, Recorded
  <2>2. CASE t = Len(tasks) + 1
    BY <1>2, <2>2 DEF Recorded, ChunkAssumption
  <2> QED BY <1>1, <1>2, <2>1, <2>2
<1>4. ASSUME NEW t \in Nat, NEW c \in Nat, <<t, c>> \in Got'
      PROVE  /\ t \in 1 .. Len(tasks') /\ c \in 1 .. Chunks /\ c <= tasks'[t].next
             /\ c = tasks'[t].next => Oldest(t)'
  <2>1. /\ t \in 1 .. Len(tasks) /\ c \in 1 .. Chunks /\ c <= tasks[t].next
        /\ c = tasks[t].next => Oldest(t)
    BY <1>4 DEF Progress
  <2> QED BY <1>1, <1>2, <2>1 DEF Oldest
<1> QED BY <1>2, <1>3, <1>4 DEF Progress

\* The worker sends the next chunk of the oldest task.
LEMMA Arriving ==
  ASSUME Types, Progress, Working, worker.pc = "send", ChunkAssumption
  PROVE  LET chunk == <<worker.at, worker.task.next>>
         IN  /\ worker.at \in 1 .. Len(tasks) /\ worker.task = tasks[worker.at]
             /\ worker.task \in Task /\ worker.task.next \in 1 .. Chunks
             /\ tasks[worker.at].status # "sent" /\ Oldest(worker.at)
             /\ chunk \in Chunk /\ obSeen.got \in Seq(Chunk)
             /\ Reached(obSeen).got = Append(obSeen.got, chunk)
             /\ ToSet(Reached(obSeen).got) = ToSet(obSeen.got) \cup {chunk}
<1> DEFINE chunk == <<worker.at, worker.task.next>>
<1>1. /\ worker.at \in 1 .. Len(tasks) /\ worker.task \in Task
      /\ Len(tasks) \in Nat /\ worker.task = tasks[worker.at]
      /\ tasks[worker.at].status # "sent" /\ Oldest(worker.at)
  BY TaskTypes DEF Types, Working
<1>2. worker.task.next \in 1 .. Chunks
  <2>1. Recorded(worker.at, tasks[worker.at])
    BY <1>1 DEF Progress
  <2> QED BY <1>1, <2>1 DEF Recorded, ChunkAssumption
<1>3. chunk \in Chunk
  BY <1>1, <1>2 DEF Chunk, ChunkAssumption
<1>4. Reached(obSeen).got = Append(obSeen.got, chunk) /\ obSeen.got \in Seq(Chunk)
  BY DEF Reached, Types, Seen
<1> HIDE DEF chunk
<1>5. ToSet(Append(obSeen.got, chunk)) = ToSet(obSeen.got) \cup {chunk}
  BY <1>3, <1>4, Appended
<1> QED BY <1>1, <1>2, <1>3, <1>4, <1>5 DEF chunk

LEMMA ProgressStep ==
  ASSUME ChunkAssumption, Types, Types', Progress, Working, [Next]_obVars
  PROVE  Progress' /\ Working'
<1>a. /\ Len(tasks) \in Nat /\ DOMAIN tasks = 1 .. Len(tasks)
      /\ \A i \in 1 .. Len(tasks) : tasks[i] \in Task /\ Recorded(i, tasks[i])
  BY TaskTypes DEF Progress
<1>b. Idle.pc = "idle"
  BY DEF Idle
<1>c. UNCHANGED tasks => SameTasks
  BY DEF SameTasks
<1>d. Fault => Got' = Got
  BY DEF Fault, Got, Types, Seen
<1>e. worker.pc # "idle" => worker.at \in 1 .. Len(tasks) /\ worker.task \in Task
  BY DEF Types
<1>1. ASSUME NEW rs \in SUBSET Recipients, Enqueue(rs)  PROVE Progress' /\ Working'
  <2>1. Got' = Got
    BY <1>1 DEF Enqueue, Got, Types, Seen
  <2> QED BY <1>1, <1>c, <2>1, ProgressArrival DEF Enqueue, Working, Oldest, Recorded
<1>2. ASSUME NEW r \in Recipients, EnqueueNext(r)  PROVE Progress' /\ Working'
  <2>1. Got' = Got /\ worker' = worker
    BY <1>2, <1>d DEF EnqueueNext, Got
  <2>2. CASE tasks' = tasks
    BY <1>c, <2>1, <2>2, ProgressArrival DEF Working, Oldest, Recorded
  <2>3. CASE tasks' = Append(tasks, NewTask(r))
    <3>1. Progress'
      BY <2>1, <2>3, ProgressAdded
    <3>2. \A i \in 1 .. Len(tasks) : tasks'[i] = tasks[i]
      BY <2>3, TaskAdded
    <3>3. worker.pc # "idle" => \A s \in 1 .. worker.at - 1 : s \in 1 .. Len(tasks)
      BY <1>a, <1>e
    <3> QED BY <1>e, <2>1, <3>1, <3>2, <3>3 DEF Working, Oldest, Recorded
  <2> QED BY <1>2, <2>2, <2>3 DEF EnqueueNext
<1>3. ASSUME NextTask  PROVE Progress' /\ Working'
  <2>1. PICK i \in Due : (\A j \in Due : i <= j) /\ Take(i)
    BY <1>3 DEF NextTask
  <2>2. i \in 1 .. Len(tasks) /\ tasks[i].status # "sent" /\ Oldest(i)
    BY <2>1, <1>a DEF Due, Oldest
  <2>3. /\ UNCHANGED tasks /\ Got' = Got
        /\ worker'.pc = "mark" /\ worker'.at = i /\ worker'.task = tasks[i]
    BY <2>1 DEF Take, Got
  <2> QED BY <1>c, <2>2, <2>3, ProgressArrival DEF Working, Oldest
<1>4. ASSUME MarkSending  PROVE Progress' /\ Working'
  <2>1. CASE /\ tasks' = [tasks EXCEPT ![worker.at] = [worker.task EXCEPT !.status = "sending"]]
             /\ worker' = [worker EXCEPT !.pc = "send", !.task = [worker.task EXCEPT !.status = "sending"]]
             /\ UNCHANGED obSeen
    <3> DEFINE task == [tasks[worker.at] EXCEPT !.status = "sending"]
    <3>1. /\ worker.at \in 1 .. Len(tasks) /\ worker.task = tasks[worker.at]
          /\ tasks[worker.at].status # "sent" /\ Oldest(worker.at)
      BY <1>4, <1>e DEF MarkSending, Working
    <3>2. /\ task \in Task /\ task.next = tasks[worker.at].next /\ task.status = "sending"
      BY <1>a, <3>1 DEF Task
    <3>3. tasks' = [tasks EXCEPT ![worker.at] = task]
      BY <2>1, <3>1
    <3> HIDE DEF task
    <3>4. Len(tasks') = Len(tasks)
          /\ \A i \in 1 .. Len(tasks) : tasks'[i] = IF i = worker.at THEN task ELSE tasks[i]
      BY <3>1, <3>2, <3>3, TaskSaved
    <3>5. SameTasks /\ Got' = Got
      BY <2>1, <3>1, <3>2, <3>4 DEF SameTasks, Got
    <3>6. worker'.pc = "send" /\ worker'.at = worker.at /\ worker'.task = task
      BY <2>1, <3>1 DEF Types, Worker, task
    <3>7. Working'
      BY <1>a, <3>1, <3>2, <3>4, <3>6 DEF Working, Oldest
    <3> QED BY <3>5, <3>7, ProgressArrival
  <2>2. CASE Fault /\ worker' = Idle /\ UNCHANGED tasks
    BY <1>b, <1>c, <1>d, <2>2, ProgressArrival DEF Working
  <2> QED BY <1>4, <2>1, <2>2 DEF MarkSending
<1>f. ASSUME worker.pc = "send"
      PROVE  /\ worker.at \in 1 .. Len(tasks) /\ worker.task = tasks[worker.at]
             /\ worker.task \in Task /\ worker.task.next \in 1 .. Chunks
             /\ tasks[worker.at].status # "sent" /\ Oldest(worker.at)
             /\ ToSet(Reached(obSeen).got) = Got \cup {<<worker.at, worker.task.next>>}
  BY <1>f, Arriving DEF Got
<1>5. ASSUME Sent  PROVE Progress' /\ Working'
  <2>1. worker.pc = "send" /\ UNCHANGED tasks
    BY <1>5 DEF Sent
  <2>2. Got' = Got \cup {<<worker.at, tasks[worker.at].next>>}
    BY <1>5, <1>f, <2>1 DEF Sent, Got, Reached, Types, Seen
  <2>3. Progress'
    BY <1>c, <1>f, <2>1, <2>2, ProgressArrival
  <2>4. /\ worker'.pc = "save" /\ worker'.at = worker.at
        /\ worker'.task.next = worker.task.next + 1 /\ worker'.task.fresh = TRUE
        /\ worker'.task.status = IF worker.task.next = Chunks THEN "sent" ELSE "queued"
    BY <1>5, <1>f, <2>1 DEF Sent, Types, Worker, Task
  <2>5. \A c \in 1 .. worker.task.next : <<worker.at, c>> \in Got'
    <3>1. Recorded(worker.at, worker.task)
      BY <1>a, <1>f, <2>1
    <3> QED BY <1>f, <2>1, <2>2, <3>1 DEF Recorded, ChunkAssumption
  <2>6. Recorded(worker.at, worker.task)'
    BY <1>f, <2>1, <2>4, <2>5 DEF Recorded, ChunkAssumption
  <2> QED BY <1>f, <2>1, <2>3, <2>4, <2>6 DEF Working, Oldest
<1>6. ASSUME SendFails  PROVE Progress' /\ Working'
  <2>1. worker.pc = "send" /\ UNCHANGED tasks
    BY <1>6 DEF SendFails
  <2>2. Got' \in {Got, Got \cup {<<worker.at, tasks[worker.at].next>>}}
    BY <1>6, <1>f, <2>1 DEF SendFails, Got, Reached, Types, Seen
  <2>3. Progress'
    BY <1>c, <1>f, <2>1, <2>2, ProgressArrival
  <2>4. /\ worker'.pc = "save" /\ worker'.at = worker.at
        /\ worker'.task.next = worker.task.next /\ worker'.task.fresh = worker.task.fresh
        /\ worker'.task.status = "retrying"
    BY <1>6, <1>f, <2>1 DEF SendFails, Types, Worker, Task
  <2>5. Recorded(worker.at, worker.task)
    BY <1>a, <1>f, <2>1
  <2>6. Recorded(worker.at, worker.task)'
    BY <1>f, <2>1, <2>2, <2>4, <2>5 DEF Recorded, ChunkAssumption
  <2> QED BY <1>f, <2>1, <2>3, <2>4, <2>6 DEF Working, Oldest
<1>7. ASSUME Persist  PROVE Progress' /\ Working'
  <2>1. CASE tasks' = [tasks EXCEPT ![worker.at] = worker.task] /\ UNCHANGED obSeen
    <3>1. /\ worker.at \in 1 .. Len(tasks) /\ worker.task \in Task /\ Oldest(worker.at)
          /\ tasks[worker.at].status # "sent" /\ Recorded(worker.at, worker.task)
          /\ tasks[worker.at].next <= worker.task.next
      <4>1. tasks[worker.at].next \in Nat
        BY <1>7, <1>a, <1>e DEF Persist, Task
      <4> QED BY <1>7, <1>e, <4>1 DEF Persist, Working
    <3> QED BY <1>7, <1>b, <2>1, <3>1, ProgressSaved DEF Persist, Working, Got
  <2>2. CASE Fault /\ UNCHANGED tasks
    BY <1>7, <1>b, <1>c, <1>d, <2>2, ProgressArrival DEF Persist, Working
  <2> QED BY <1>7, <2>1, <2>2 DEF Persist
<1>8. ASSUME Pass  PROVE Progress' /\ Working'
  <2>1. SameTasks /\ Got' = Got
    BY <1>8, TasksRest DEF Pass, SameTasks, Got, Types, Seen
  <2>2. Progress'
    BY <2>1, ProgressArrival
  <2>3. CASE worker = Idle
    BY <1>8, <1>b, <2>2, <2>3 DEF Pass, Working
  <2>4. CASE worker # Idle
    <3>1. /\ worker.pc # "idle" /\ worker'.pc = worker.pc /\ worker'.at = worker.at
          /\ worker'.task = [worker.task EXCEPT !.fresh = FALSE]
      BY <1>8, <1>b, <2>4 DEF Pass, Types, Worker
    <3>2. tasks'[worker.at] = [tasks[worker.at] EXCEPT !.fresh = FALSE]
      BY <1>8, <1>a, <1>e, <3>1 DEF Pass
    <3>3. tasks'[worker.at].fresh = FALSE /\ worker'.task.next = worker.task.next
          /\ worker'.task.status = worker.task.status
      BY <1>a, <1>e, <3>1, <3>2 DEF Task
    <3>4. Oldest(worker.at)' /\ tasks'[worker.at].status # "sent"
          /\ tasks'[worker.at].next = tasks[worker.at].next
      BY <1>a, <1>e, <2>1, <3>1 DEF Working, Oldest, SameTasks
    <3> QED BY <2>1, <2>2, <3>1, <3>2, <3>3, <3>4 DEF Working, Recorded
  <2> QED BY <2>3, <2>4
<1>9. ASSUME PassLong  PROVE Progress' /\ Working'
  <2>1. SameTasks /\ Got' = Got
    BY <1>9, TasksRest DEF PassLong, SameTasks, Got
  <2> QED BY <1>9, <2>1, ProgressArrival DEF Working, PassLong
<1>10. ASSUME Restart  PROVE Progress' /\ Working'
  <2>1. Got' = Got
    BY <1>10 DEF Restart, Got, Types, Seen
  <2> QED BY <1>10, <1>b, <1>c, <2>1, ProgressArrival DEF Restart, Working
<1>11. CASE UNCHANGED obVars
  <2>1. Got' = Got
    BY <1>11 DEF obVars, Got
  <2> QED BY <1>11, <1>c, <2>1, ProgressArrival DEF obVars, Working, Oldest, Recorded
<1> QED BY <1>1, <1>2, <1>3, <1>4, <1>5, <1>6, <1>7, <1>8, <1>9, <1>10, <1>11 DEF Next

-----------------------------------------------------------------------------
(* The order of arrival.                                                   *)

\* What is at a place has arrived, and its task is there.
LEMMA ArrivedAt ==
  ASSUME Types, Progress, NEW i \in 1 .. Len(obSeen.got)
  PROVE  /\ obSeen.got[i][1] \in 1 .. Len(tasks) /\ obSeen.got[i][2] \in 1 .. Chunks
<1>1. obSeen.got \in Seq(Chunk)
  BY DEF Types, Seen
<1>2. obSeen.got[i] \in Chunk /\ obSeen.got[i] \in Got
  BY <1>1, ElementOfSeq, Contained DEF Got
<1>3. PICK t \in Nat, c \in Nat : obSeen.got[i] = <<t, c>>
  BY <1>2 DEF Chunk
<1> QED BY <1>2, <1>3 DEF Progress

\* The next chunk of the oldest task follows all that are due before it.
LEMMA OrderedArrival ==
  ASSUME ChunkAssumption, Types, Progress, Ordered, UNCHANGED tasks,
         NEW a \in 1 .. Len(tasks), Oldest(a), NEW n, n = tasks[a].next, <<a, n>> \in Chunk,
         obSeen'.got = Append(obSeen.got, <<a, n>>)
  PROVE  Ordered'
<1>1. /\ obSeen.got \in Seq(Chunk) /\ Len(obSeen.got) \in Nat /\ Len(tasks) \in Nat
      /\ Len(obSeen'.got) = Len(obSeen.got) + 1
      /\ \A i \in 1 .. Len(obSeen.got) : obSeen'.got[i] = obSeen.got[i]
      /\ obSeen'.got[Len(obSeen.got) + 1] = <<a, n>>
  <2>1. obSeen.got \in Seq(Chunk)
    BY DEF Types, Seen
  <2> DEFINE chunk == <<a, n>>
  <2>2. chunk \in Chunk /\ obSeen'.got = Append(obSeen.got, chunk)
    OBVIOUS
  <2> HIDE DEF chunk
  <2>3. /\ Len(obSeen.got) \in Nat /\ Len(obSeen'.got) = Len(obSeen.got) + 1
        /\ \A i \in 1 .. Len(obSeen.got) : obSeen'.got[i] = obSeen.got[i]
        /\ obSeen'.got[Len(obSeen.got) + 1] = chunk
    BY <2>1, <2>2, Appended
  <2> QED BY <2>1, <2>3, TaskTypes DEF chunk
<1>2. SUFFICES ASSUME NEW i \in 1 .. Len(obSeen.got) + 1, NEW t \in 1 .. Len(tasks), NEW c \in 1 .. Chunks,
                      DueBefore(t, c, obSeen'.got[i])
               PROVE  Earlier(obSeen'.got, i, t, c)
  BY <1>1 DEF Ordered
<1>3. CASE i \in 1 .. Len(obSeen.got)
  <2>0. Earlier(obSeen.got, i, t, c)
    BY <1>1, <1>2, <1>3 DEF Ordered
  <2>1. PICK j \in 1 .. i - 1 : obSeen.got[j] = <<t, c>>
    BY <2>0 DEF Earlier
  <2>2. j \in 1 .. Len(obSeen.got)
    BY <1>1, <1>3
  <2> QED BY <1>1, <2>1, <2>2 DEF Earlier
<1>4. CASE i = Len(obSeen.got) + 1
  <2>1. t < a \/ (t = a /\ c < n)
    <3>1. DueBefore(t, c, <<a, n>>)
      BY <1>1, <1>2, <1>4
    <3> QED BY <3>1 DEF DueBefore
  <2>2. Recorded(t, tasks[t]) /\ tasks[t].next \in Nat
    BY TaskTypes DEF Progress, Task
  <2>3. c \in 1 .. tasks[t].next - 1
    <3>1. CASE t < a
      <4>1. t \in 1 .. a - 1
        BY <1>1, <3>1
      <4>2. tasks[t].next = Chunks + 1
        BY <2>2, <4>1 DEF Oldest, Recorded
      <4> QED BY <4>2 DEF ChunkAssumption
    <3>2. CASE t = a /\ c < n
      BY <2>2, <3>2 DEF ChunkAssumption
    <3> QED BY <2>1, <3>1, <3>2
  <2>4. <<t, c>> \in Got
    BY <2>2, <2>3 DEF Recorded
  <2>5. PICK j \in 1 .. Len(obSeen.got) : obSeen.got[j] = <<t, c>>
    BY <1>1, <2>4, Contained DEF Got
  <2>6. i - 1 = Len(obSeen.got) /\ obSeen'.got[j] = <<t, c>>
    BY <1>1, <1>4, <2>5
  <2> QED BY <2>5, <2>6 DEF Earlier
<1> QED BY <1>1, <1>2, <1>3, <1>4

LEMMA OrderedStep ==
  ASSUME ChunkAssumption, Types, Progress, Working, Ordered, [Next]_obVars
  PROVE  Ordered'
<1>a. Len(tasks) \in Nat
  BY TaskTypes
<1>b. Fault => obSeen'.got = obSeen.got
  BY DEF Fault, Types, Seen
<1>1. ASSUME obSeen'.got = obSeen.got, Len(tasks') = Len(tasks)
      PROVE  Ordered'
  BY <1>1 DEF Ordered
<1>2. ASSUME NEW r \in Recipients, EnqueueNext(r)  PROVE Ordered'
  <2>1. obSeen'.got = obSeen.got
    BY <1>2, <1>b DEF EnqueueNext
  <2>2. CASE tasks' = Append(tasks, NewTask(r))
    <3>1. Len(tasks') = Len(tasks) + 1
      BY <2>2, TaskAdded
    <3>2. SUFFICES ASSUME NEW i \in 1 .. Len(obSeen.got), NEW t \in 1 .. Len(tasks) + 1, NEW c \in 1 .. Chunks,
                          DueBefore(t, c, obSeen.got[i])
                   PROVE  Earlier(obSeen.got, i, t, c)
      BY <2>1, <3>1 DEF Ordered
    <3>3. t \in 1 .. Len(tasks)
      BY <1>a, <3>2, ArrivedAt DEF DueBefore
    <3> QED BY <3>2, <3>3 DEF Ordered
  <2> QED BY <1>1, <1>2, <2>1, <2>2 DEF EnqueueNext
<1>3. ASSUME Sent \/ SendFails  PROVE Ordered'
  <2>1. worker.pc = "send" /\ UNCHANGED tasks
    BY <1>3 DEF Sent, SendFails
  <2>2. obSeen'.got \in {obSeen.got, Reached(obSeen).got}
    BY <1>3 DEF Sent, SendFails, Reached, Types, Seen
  <2>3. CASE obSeen'.got = obSeen.got
    BY <1>1, <2>1, <2>3
  <2>4. CASE obSeen'.got = Reached(obSeen).got
    <3>1. /\ worker.at \in 1 .. Len(tasks) /\ worker.task = tasks[worker.at] /\ Oldest(worker.at)
          /\ <<worker.at, worker.task.next>> \in Chunk
          /\ obSeen'.got = Append(obSeen.got, <<worker.at, worker.task.next>>)
      BY <2>1, <2>4, Arriving
    <3> QED BY <2>1, <3>1, OrderedArrival
  <2> QED BY <2>2, <2>3, <2>4
<1>4. ASSUME NEW rs \in SUBSET Recipients, Enqueue(rs)  PROVE Ordered'
  BY <1>1, <1>4 DEF Enqueue, Types, Seen
<1>5. ASSUME NextTask \/ MarkSending \/ Persist  PROVE Ordered'
  <2>1. obSeen'.got = obSeen.got
    BY <1>5, <1>b DEF NextTask, Take, MarkSending, Persist
  <2>2. Len(tasks') = Len(tasks)
    <3>1. CASE NextTask
      BY <3>1 DEF NextTask, Take
    <3>2. CASE MarkSending \/ Persist
      <4>1. worker.at \in 1 .. Len(tasks) /\ worker.task \in Task
        BY <3>2 DEF MarkSending, Persist, Types
      <4>2. [worker.task EXCEPT !.status = "sending"] \in Task
        BY <4>1 DEF Task
      <4>3. PICK task \in Task : tasks' = tasks \/ tasks' = [tasks EXCEPT ![worker.at] = task]
        BY <3>2, <4>1, <4>2 DEF MarkSending, Persist
      <4> QED BY <4>1, <4>3, TaskSaved
    <3> QED BY <1>5, <3>1, <3>2
  <2> QED BY <1>1, <2>1, <2>2
<1>6. ASSUME Pass \/ PassLong  PROVE Ordered'
  <2>1. obSeen'.got = obSeen.got /\ Len(tasks') = Len(tasks)
    BY <1>6, TasksRest DEF Pass, PassLong, Types, Seen
  <2> QED BY <1>1, <2>1
<1>7. ASSUME Restart  PROVE Ordered'
  BY <1>1, <1>7 DEF Restart, Types, Seen
<1>8. CASE UNCHANGED obVars
  BY <1>1, <1>8 DEF obVars
<1> QED BY <1>2, <1>3, <1>4, <1>5, <1>6, <1>7, <1>8 DEF Next

-----------------------------------------------------------------------------
(* Repetitions.                                                            *)

\* A chunk that arrived unrecorded is the one that is sent next.
LEMMA UnrecordedIsNext ==
  ASSUME ChunkAssumption, Types, Progress, NEW a \in 1 .. Len(tasks), Oldest(a), tasks[a].status # "sent",
         NEW t \in 1 .. Len(tasks), <<t, tasks[t].next>> \in Got
  PROVE  t = a
<1>1. /\ Len(tasks) \in Nat /\ tasks[t].next \in Nat /\ t \in Nat
      /\ Recorded(t, tasks[t])
  BY TaskTypes DEF Task, Progress
<1>2. Oldest(t) /\ tasks[t].next \in 1 .. Chunks
  BY <1>1 DEF Progress
<1>3. tasks[t].status # "sent"
  BY <1>1, <1>2 DEF Recorded, ChunkAssumption
<1> QED BY <1>1, <1>2, <1>3 DEF Oldest

\* What the sum of Repeated is made of.
LEMMA RepeatedTypes ==
  ASSUME Types, IsFiniteSet(Got)
  PROVE  Len(obSeen.got) \in Nat /\ Cardinality(Got) \in Nat /\ obSeen.faults \in Nat
BY FS_CardinalityType, LenProperties DEF Types, Seen

\* Nothing arrives, and a fault may leave something unrecorded.
LEMMA RepeatedStill ==
  ASSUME Types, Types', Repeated, obSeen'.got = obSeen.got,
         \/ obSeen'.faults = obSeen.faults + 1
         \/ obSeen'.faults = obSeen.faults /\ (Unrecorded' => Unrecorded)
  PROVE  Repeated'
<1>1. Got' = Got /\ IsFiniteSet(Got)
  BY DEF Got, Repeated
<1>2. Len(obSeen.got) \in Nat /\ Cardinality(Got) \in Nat /\ obSeen.faults \in Nat
  BY <1>1, RepeatedTypes
<1>3. Len(obSeen.got) - Cardinality(Got) + (IF Unrecorded THEN 1 ELSE 0) <= obSeen.faults
  BY DEF Repeated
<1>4. Len(obSeen.got) - Cardinality(Got) + (IF Unrecorded' THEN 1 ELSE 0) <= obSeen'.faults
  BY <1>2, <1>3
<1> QED BY <1>1, <1>4 DEF Repeated

\* A chunk arrives: again only if it had arrived unrecorded.
LEMMA RepeatedArrival ==
  ASSUME ChunkAssumption, Types, Types', Progress, Working, Repeated, worker.pc = "send",
         obSeen'.got = Reached(obSeen).got,
         \/ obSeen'.faults = obSeen.faults + 1
         \/ obSeen'.faults = obSeen.faults /\ ~Unrecorded'
  PROVE  Repeated'
<1> DEFINE chunk == <<worker.at, worker.task.next>>
<1>1. /\ worker.at \in 1 .. Len(tasks) /\ worker.task = tasks[worker.at]
      /\ tasks[worker.at].status # "sent" /\ Oldest(worker.at)
      /\ chunk \in Chunk /\ obSeen.got \in Seq(Chunk)
      /\ obSeen'.got = Append(obSeen.got, chunk) /\ Got' = Got \cup {chunk}
  BY Arriving DEF Got
<1>2. chunk \in Got <=> Unrecorded
  <2>1. Unrecorded <=> \E t \in 1 .. Len(tasks) : <<t, tasks[t].next>> \in Got
    BY DEF Unrecorded
  <2>2. ASSUME NEW t \in 1 .. Len(tasks), <<t, tasks[t].next>> \in Got
        PROVE  t = worker.at
    BY <1>1, <2>2, UnrecordedIsNext
  <2> QED BY <1>1, <2>1, <2>2
<1> HIDE DEF chunk
<1>3. Len(obSeen'.got) = Len(obSeen.got) + 1
  BY <1>1, Appended
<1>4. IsFiniteSet(Got) /\ Len(obSeen.got) - Cardinality(Got) + (IF Unrecorded THEN 1 ELSE 0) <= obSeen.faults
  BY DEF Repeated
<1>5. /\ IsFiniteSet(Got')
      /\ Cardinality(Got') = IF chunk \in Got THEN Cardinality(Got) ELSE Cardinality(Got) + 1
  BY <1>1, <1>4, FS_AddElement
<1>6. Len(obSeen.got) \in Nat /\ Cardinality(Got) \in Nat /\ obSeen.faults \in Nat
  BY <1>4, RepeatedTypes
<1>7. Len(obSeen'.got) - Cardinality(Got') + (IF Unrecorded' THEN 1 ELSE 0) <= obSeen'.faults
  BY <1>2, <1>3, <1>4, <1>5, <1>6
<1> QED BY <1>5, <1>7 DEF Repeated

LEMMA RepeatedStep ==
  ASSUME ChunkAssumption, Types, Types', Progress, Working, Repeated, [Next]_obVars
  PROVE  Repeated'
<1>a. /\ Len(tasks) \in Nat /\ \A i \in 1 .. Len(tasks) : tasks[i] \in Task /\ Recorded(i, tasks[i])
  BY TaskTypes DEF Progress
<1>b. Fault => obSeen'.got = obSeen.got /\ obSeen'.faults = obSeen.faults + 1
  BY DEF Fault, Types, Seen
<1>c. worker.pc # "idle" => worker.at \in 1 .. Len(tasks) /\ worker.task \in Task
  BY DEF Types
<1>1. ASSUME NEW rs \in SUBSET Recipients, Enqueue(rs)  PROVE Repeated'
  <2>1. obSeen'.got = obSeen.got /\ obSeen'.faults = obSeen.faults
    BY <1>1 DEF Enqueue, Types, Seen
  <2>2. Unrecorded' => Unrecorded
    BY <1>1, <2>1 DEF Enqueue, Unrecorded, Got
  <2> QED BY <2>1, <2>2, RepeatedStill
<1>2. ASSUME NEW r \in Recipients, EnqueueNext(r)  PROVE Repeated'
  <2>1. CASE Fault
    BY <1>b, <2>1, RepeatedStill
  <2>2. CASE UNCHANGED <<obSeen, tasks>>
    BY <1>2, <2>2, RepeatedStill DEF EnqueueNext, Unrecorded, Got
  <2>3. CASE UNCHANGED obSeen /\ tasks' = Append(tasks, NewTask(r))
    <3>1. Len(tasks') = Len(tasks) + 1 /\ \A i \in 1 .. Len(tasks) : tasks'[i] = tasks[i]
      BY <2>3, TaskAdded
    <3>2. ASSUME NEW t \in 1 .. Len(tasks'), <<t, tasks'[t].next>> \in Got
          PROVE  t \in 1 .. Len(tasks)
      <4>1. tasks'[t].next \in Nat /\ t \in Nat
        <5>1. tasks' \in Seq(Task)
          BY DEF Types
        <5>2. tasks'[t] \in Task
          BY <5>1, ElementOfSeq
        <5> QED BY <1>a, <3>1, <5>2 DEF Task
      <4> QED BY <3>2, <4>1 DEF Progress
    <3>3. Unrecorded' => Unrecorded
      BY <1>2, <1>c, <2>3, <3>1, <3>2 DEF EnqueueNext, Unrecorded, Got
    <3> QED BY <2>3, <3>3, RepeatedStill
  <2> QED BY <1>2, <2>1, <2>2, <2>3 DEF EnqueueNext
<1>3. ASSUME NextTask  PROVE Repeated'
  BY <1>3, RepeatedStill DEF NextTask, Take, Unrecorded, Got
<1>4. ASSUME MarkSending  PROVE Repeated'
  <2>1. CASE Fault
    BY <1>b, <2>1, RepeatedStill
  <2>2. CASE tasks' = [tasks EXCEPT ![worker.at] = [worker.task EXCEPT !.status = "sending"]]
             /\ UNCHANGED obSeen
    <3>1. worker.at \in 1 .. Len(tasks) /\ worker.task = tasks[worker.at] /\ worker.pc = "mark"
      BY <1>4, <1>c DEF MarkSending, Working
    <3>2. /\ [worker.task EXCEPT !.status = "sending"] \in Task
          /\ [worker.task EXCEPT !.status = "sending"].next = tasks[worker.at].next
      BY <1>a, <3>1 DEF Task
    <3>3. /\ Len(tasks') = Len(tasks)
          /\ \A i \in 1 .. Len(tasks) : tasks'[i].next = tasks[i].next
      BY <2>2, <3>1, <3>2, TaskSaved
    <3>4. Unrecorded' => Unrecorded
      BY <2>2, <3>1, <3>3 DEF Unrecorded, Got
    <3> QED BY <2>2, <3>4, RepeatedStill
  <2> QED BY <1>4, <2>1, <2>2 DEF MarkSending
<1>5. ASSUME Sent  PROVE Repeated'
  <2>1. /\ worker.pc = "send" /\ obSeen'.got = Reached(obSeen).got /\ obSeen'.faults = obSeen.faults
    BY <1>5 DEF Sent, Reached, Types, Seen
  <2>2. /\ worker'.pc = "save" /\ worker'.at = worker.at
        /\ worker'.task.next = worker.task.next + 1
    BY <1>5, <1>c, <2>1 DEF Sent, Types, Worker, Task
  <2>3. worker.task = tasks[worker.at] /\ tasks' = tasks
    BY <1>5, <2>1 DEF Sent, Working
  <2>4. ~Unrecorded'
    BY <2>2, <2>3 DEF Unrecorded
  <2> QED BY <2>1, <2>4, RepeatedArrival
<1>6. ASSUME SendFails  PROVE Repeated'
  <2>1. /\ worker.pc = "send" /\ obSeen'.faults = obSeen.faults + 1
        /\ obSeen'.got \in {obSeen.got, Reached(obSeen).got}
    BY <1>6 DEF SendFails, Reached, Types, Seen
  <2> QED BY <2>1, RepeatedStill, RepeatedArrival
<1>7. ASSUME Persist  PROVE Repeated'
  <2>1. CASE Fault
    BY <1>b, <2>1, RepeatedStill
  <2>2. CASE tasks' = [tasks EXCEPT ![worker.at] = worker.task] /\ UNCHANGED obSeen
    <3>1. /\ worker.pc = "save" /\ worker.at \in 1 .. Len(tasks) /\ worker.task \in Task
          /\ Oldest(worker.at) /\ tasks[worker.at].status # "sent"
          /\ worker.task.next \in {tasks[worker.at].next, tasks[worker.at].next + 1}
      BY <1>7, <1>c DEF Persist, Working
    <3>2. /\ Len(tasks') = Len(tasks)
          /\ \A i \in 1 .. Len(tasks) : tasks'[i] = IF i = worker.at THEN worker.task ELSE tasks[i]
      BY <2>2, <3>1, TaskSaved
    <3>3. CASE worker.task.next = tasks[worker.at].next
      <4>1. \A i \in 1 .. Len(tasks) : tasks'[i].next = tasks[i].next
        BY <3>2, <3>3
      <4>2. tasks[worker.at].next \in Nat
        BY <1>a, <3>1 DEF Task
      <4>3. Unrecorded' => Unrecorded
        BY <2>2, <3>2, <3>3, <4>1, <4>2 DEF Unrecorded, Got
      <4> QED BY <2>2, <4>3, RepeatedStill
    <3>4. CASE worker.task.next = tasks[worker.at].next + 1
      <4>1. ASSUME NEW t \in 1 .. Len(tasks), <<t, tasks'[t].next>> \in Got
            PROVE  FALSE
        <5>1. CASE t = worker.at
          <6>1. tasks[t].next \in Nat /\ t \in Nat /\ tasks'[t].next = tasks[t].next + 1
            BY <1>a, <3>2, <3>4, <5>1 DEF Task
          <6>2. tasks'[t].next <= tasks[t].next
            BY <4>1, <6>1 DEF Progress
          <6> QED BY <6>1, <6>2
        <5>2. CASE t # worker.at
          <6>1. <<t, tasks[t].next>> \in Got
            BY <3>2, <4>1, <5>2
          <6> QED BY <3>1, <5>2, <6>1, UnrecordedIsNext
        <5> QED BY <5>1, <5>2
      <4>2. ~Unrecorded'
        BY <2>2, <3>2, <4>1 DEF Unrecorded, Got
      <4> QED BY <2>2, <4>2, RepeatedStill
    <3> QED BY <3>1, <3>3, <3>4
  <2> QED BY <1>7, <2>1, <2>2 DEF Persist
<1>8. ASSUME Pass  PROVE Repeated'
  <2>1. /\ Len(tasks') = Len(tasks)
        /\ \A i \in 1 .. Len(tasks) : tasks'[i].next = tasks[i].next
        /\ obSeen'.got = obSeen.got /\ obSeen'.faults = obSeen.faults
    BY <1>8, TasksRest DEF Pass, Types, Seen
  <2>2. worker.pc = "save" => /\ worker'.pc = "save" /\ worker'.at = worker.at
                              /\ worker'.task.next = worker.task.next
    BY <1>8, <1>c DEF Pass, Idle, Types, Worker, Task
  <2>3. Unrecorded' => Unrecorded
    BY <1>c, <2>1, <2>2 DEF Unrecorded, Got
  <2> QED BY <2>1, <2>3, RepeatedStill
<1>9. ASSUME PassLong  PROVE Repeated'
  <2>1. /\ Len(tasks') = Len(tasks)
        /\ \A i \in 1 .. Len(tasks) : tasks'[i].next = tasks[i].next
    BY <1>9, TasksRest DEF PassLong
  <2>2. Unrecorded' => Unrecorded
    BY <1>9, <1>c, <2>1 DEF PassLong, Unrecorded, Got
  <2> QED BY <1>9, <2>2, RepeatedStill DEF PassLong
<1>10. ASSUME Restart  PROVE Repeated'
  <2>1. obSeen'.got = obSeen.got /\ obSeen'.faults = obSeen.faults + 1
    BY <1>10 DEF Restart, Types, Seen
  <2> QED BY <2>1, RepeatedStill
<1>11. CASE UNCHANGED obVars
  BY <1>11, RepeatedStill DEF obVars, Unrecorded, Got
<1> QED BY <1>1, <1>2, <1>3, <1>4, <1>5, <1>6, <1>7, <1>8, <1>9, <1>10, <1>11 DEF Next

-----------------------------------------------------------------------------
(* The pause between two chunks.                                           *)

LEMMA PacedStep ==
  ASSUME Types, Working, Paced, [Next]_obVars
  PROVE  Paced'
<1>a. /\ Len(tasks) \in Nat /\ DOMAIN tasks = 1 .. Len(tasks)
      /\ \A i \in 1 .. Len(tasks) : tasks[i] \in Task
  BY TaskTypes
<1>b. Idle.pc = "idle"
  BY DEF Idle
<1>c. Fault => obSeen'.fresh = obSeen.fresh /\ obSeen'.lost = obSeen.lost
  BY DEF Fault, Types, Seen
<1>d. worker.pc # "idle" => worker.at \in 1 .. Len(tasks) /\ worker.task \in Task
  BY DEF Types
<1>e. ASSUME obSeen'.fresh = obSeen.fresh, obSeen'.lost = obSeen.lost, resting' = resting,
             \A i \in 1 .. Len(tasks) : i \in 1 .. Len(tasks') /\ (tasks[i].fresh => tasks'[i].fresh),
             worker'.pc \in {"mark", "send"} => worker.pc \in {"mark", "send"}
      PROVE  Paced'
  BY <1>e DEF Paced
<1>1. ASSUME NEW rs \in SUBSET Recipients, Enqueue(rs)  PROVE Paced'
  <2>1. obSeen'.fresh = obSeen.fresh /\ obSeen'.lost = obSeen.lost
    BY <1>1 DEF Enqueue, Types, Seen
  <2> QED BY <1>1, <1>e, <2>1 DEF Enqueue
<1>2. ASSUME NEW r \in Recipients, EnqueueNext(r)  PROVE Paced'
  <2>1. /\ obSeen'.fresh = obSeen.fresh /\ obSeen'.lost = obSeen.lost
        /\ resting' = resting /\ worker' = worker
    BY <1>2, <1>c DEF EnqueueNext
  <2>2. \A i \in 1 .. Len(tasks) : i \in 1 .. Len(tasks') /\ tasks'[i] = tasks[i]
    <3>1. CASE tasks' = tasks
      BY <3>1
    <3>2. CASE tasks' = Append(tasks, NewTask(r))
      BY <1>a, <3>2, TaskAdded
    <3> QED BY <1>2, <3>1, <3>2 DEF EnqueueNext
  <2> QED BY <1>e, <2>1, <2>2
<1>3. ASSUME NextTask  PROVE Paced'
  BY <1>3, <1>a DEF NextTask, Take, Rested, Paced
<1>4. ASSUME MarkSending  PROVE Paced'
  <2>1. CASE Fault /\ worker' = Idle /\ UNCHANGED tasks
    BY <1>4, <1>b, <1>c, <1>e, <2>1 DEF MarkSending
  <2>2. CASE tasks' = [tasks EXCEPT ![worker.at] = [worker.task EXCEPT !.status = "sending"]]
             /\ UNCHANGED obSeen
    <3>1. worker.at \in 1 .. Len(tasks) /\ worker.task = tasks[worker.at] /\ worker.pc = "mark"
      BY <1>4, <1>d DEF MarkSending, Working
    <3>2. /\ [worker.task EXCEPT !.status = "sending"] \in Task
          /\ [worker.task EXCEPT !.status = "sending"].fresh = tasks[worker.at].fresh
      BY <1>a, <3>1 DEF Task
    <3>3. /\ Len(tasks') = Len(tasks)
          /\ \A i \in 1 .. Len(tasks) : tasks'[i].fresh = tasks[i].fresh
      BY <2>2, <3>1, <3>2, TaskSaved
    <3> QED BY <1>4, <1>e, <2>2, <3>1, <3>3 DEF MarkSending
  <2> QED BY <1>4, <2>1, <2>2 DEF MarkSending
<1>5. ASSUME Sent  PROVE Paced'
  <2>1. worker'.pc = "save" /\ resting' = TRUE
    BY <1>5 DEF Sent, Types, Worker
  <2> QED BY <2>1 DEF Paced
<1>6. ASSUME SendFails  PROVE Paced'
  <2>1. /\ worker'.pc = "save" /\ resting' = resting /\ tasks' = tasks
        /\ obSeen'.fresh = obSeen.fresh /\ obSeen'.lost = obSeen.lost
    BY <1>6 DEF SendFails, Reached, Types, Worker, Seen
  <2> QED BY <1>e, <2>1
<1>7. ASSUME Persist  PROVE Paced'
  <2>1. CASE Fault /\ UNCHANGED tasks
    BY <1>7, <1>b, <1>c, <1>e, <2>1 DEF Persist
  <2>2. CASE tasks' = [tasks EXCEPT ![worker.at] = worker.task] /\ UNCHANGED obSeen
    <3>1. worker.at \in 1 .. Len(tasks) /\ (tasks[worker.at].fresh => worker.task.fresh)
          /\ worker.task \in Task
      BY <1>7, <1>d DEF Persist, Working
    <3>2. /\ Len(tasks') = Len(tasks)
          /\ \A i \in 1 .. Len(tasks) : tasks[i].fresh => tasks'[i].fresh
      BY <2>2, <3>1, TaskSaved
    <3> QED BY <1>7, <1>b, <1>e, <2>2, <3>2 DEF Persist
  <2> QED BY <1>7, <2>1, <2>2 DEF Persist
<1>8. ASSUME Pass  PROVE Paced'
  <2>1. obSeen'.fresh = FALSE
    BY <1>8 DEF Pass, Types, Seen
  <2> QED BY <2>1 DEF Paced
<1>9. ASSUME PassLong  PROVE Paced'
  BY <1>9 DEF PassLong, Paced
<1>10. ASSUME Restart  PROVE Paced'
  <2>1. obSeen'.fresh = obSeen.fresh
    BY <1>10 DEF Restart, Types, Seen
  <2>2. obSeen'.lost <=> (obSeen.fresh /\ \A i \in 1 .. Len(tasks) : ~tasks[i].fresh)
    BY <1>10, <1>a DEF Restart, Types, Seen
  <2>3. worker'.pc = "idle" /\ tasks' = tasks
    BY <1>10, <1>b DEF Restart
  <2> QED BY <2>1, <2>2, <2>3 DEF Paced
<1>11. CASE UNCHANGED obVars
  BY <1>11, <1>e DEF obVars
<1> QED BY <1>1, <1>2, <1>3, <1>4, <1>5, <1>6, <1>7, <1>8, <1>9, <1>10, <1>11 DEF Next

-----------------------------------------------------------------------------
(* DeliveredInOrder.                                                       *)

LEMMA InitInv ==
  ASSUME ChunkAssumption, Init
  PROVE  Inv
<1>1. /\ <<>> \in Seq(Task) /\ <<>> \in Seq(Chunk) /\ Len(<<>>) = 0 /\ ToSet(<<>>) = {}
  BY EmptySeq DEF ToSet
<1>2. /\ tasks = <<>> /\ obSeen.got = <<>> /\ Got = {} /\ worker.pc = "idle" /\ obSeen.faults = 0
      /\ obSeen.fresh = FALSE
  BY <1>1 DEF Init, Got, Idle
<1>3. Types
  BY <1>1 DEF Init, Types, Idle, Worker, Seen
<1>4. Repeated
  BY <1>1, <1>2, FS_EmptySet DEF Repeated, Unrecorded
<1> QED BY <1>1, <1>2, <1>3, <1>4 DEF Inv, Progress, Working, Ordered, Paced

LEMMA NextInv ==
  ASSUME ChunkAssumption, Inv, [Next]_obVars
  PROVE  Inv'
<1>1. Types'
  BY TypesStep DEF Inv
<1> QED BY <1>1, ProgressStep, OrderedStep, RepeatedStep, PacedStep DEF Inv

LEMMA InvHolds ==
  ASSUME ChunkAssumption, Inv
  PROVE  DeliveredInOrder
<1>1. /\ Len(tasks) \in Nat /\ DOMAIN tasks = 1 .. Len(tasks)
      /\ DOMAIN obSeen.got = 1 .. Len(obSeen.got)
  BY TaskTypes, LenProperties DEF Inv, Types, Seen
<1>2. \A i \in DOMAIN obSeen.got : \A t \in DOMAIN tasks : \A c \in 1..Chunks :
         t < obSeen.got[i][1] \/ (t = obSeen.got[i][1] /\ c < obSeen.got[i][2])
             => \E j \in 1 .. i - 1 : obSeen.got[j] = <<t, c>>
  BY <1>1 DEF Inv, Ordered, DueBefore, Earlier
<1>3. ASSUME NEW t \in DOMAIN tasks, tasks[t].status = "sent", NEW c \in 1 .. Chunks
      PROVE  <<t, c>> \in ToSet(obSeen.got)
  <2>1. Recorded(t, tasks[t])
    BY <1>1 DEF Inv, Progress
  <2> QED BY <1>3, <2>1 DEF Recorded, ChunkAssumption, Got
<1>4. Len(obSeen.got) - Cardinality(ToSet(obSeen.got)) <= obSeen.faults
  <2>1. Len(obSeen.got) \in Nat /\ Cardinality(Got) \in Nat /\ obSeen.faults \in Nat
    BY RepeatedTypes DEF Inv, Repeated
  <2> QED BY <2>1 DEF Inv, Repeated, Got
<1> QED BY <1>2, <1>3, <1>4 DEF DeliveredInOrder, Inv, Paced

\* The chunks of every recipient arrive in order, none is missing that is reported as
\* sent, a repetition costs a fault, and ten seconds lie between two sends of one process.
THEOREM Delivered ==
  ASSUME ChunkAssumption
  PROVE  Spec => []DeliveredInOrder
<1>1. Init => Inv
  BY InitInv
<1>2. Inv /\ [Next]_obVars => Inv'
  BY NextInv
<1>3. Inv => DeliveredInOrder
  BY InvHolds
<1> QED BY <1>1, <1>2, <1>3, PTL DEF Spec

-----------------------------------------------------------------------------
(****************************************************************************)
(* The running count of a schedule is the number of its runs, and records  *)
(* and toggles do not undo each other: for any set of runs.                *)
(*                                                                         *)
(* A run holds its slot from the trigger to the record of its end, through *)
(* three goroutines.  RunInv says that they follow one another, so that a  *)
(* run never holds a slot twice and every step that gives one back ends    *)
(* the last hold of its run.  LockInv is about the two records that read   *)
(* the state file under the schedule's lock and write it later.            *)
(***************************************************************************)

TrigPc == {"none", "asked", "triggering", "record", "save", "over"}
MarkPc == {"none", "due", "lock", "save", "over", "dead"}
Trigger == [pc : TrigPc, max : {0, 1, 2}, job : BOOLEAN, err : BOOLEAN]
Status == {"none", "running", "failed", "completed"}
State == [there : BOOLEAN, enabled : BOOLEAN, last : Runs \cup {"none"}, status : Status, count : Nat]
ScheduleSeen == [wanted : BOOLEAN, records : Nat, resumed : BOOLEAN, lost : BOOLEAN, deleted : BOOLEAN,
         restarted : BOOLEAN]

ScheduleTypes ==
  /\ schDef \in {0, 1, 2}
  /\ schState \in State /\ held \in State
  /\ slots \in Nat
  /\ trig \in [Runs -> Trigger]
  /\ graphJob \in [Runs -> {"none", "live", "done"}]
  /\ mark \in [Runs -> MarkPc]
  /\ taskLock \in Runs \cup {"none"}
  /\ notified \in SUBSET Runs
  /\ schSeen \in ScheduleSeen

\* A run is triggered, lives and is reported, in this order; one that was reported is not
\* alive, and it is alive again only as a run that was not.
RunInv ==
  \A r \in Runs :
    /\ trig[r].pc \in {"none", "asked", "triggering"} => graphJob[r] = "none"
    /\ graphJob[r] # "done" => mark[r] \in {"none", "dead"} /\ r \notin notified

Holds(r) == trig[r].pc = "triggering" \/ graphJob[r] = "live" \/ mark[r] = "due"
Counted == ~schSeen.resumed /\ ~schSeen.lost
SlotInv == Counted => IsFiniteSet(Sched!HoldingSlot) /\ slots = Cardinality(Sched!HoldingSlot)

\* One record at a time is between its read and its write, and the count in the file is
\* the one it has read.
LockInv ==
  /\ \A r \in Runs : /\ trig[r].pc = "save" => taskLock = r /\ mark[r] # "save"
                     /\ mark[r] = "save" => taskLock = r
  /\ ~schSeen.deleted => /\ schState.count = schSeen.records
                         /\ taskLock # "none" => held.count = schState.count

\* What the user wanted is in the file, and an enabled schedule has one.
WantInv == schState.enabled = schSeen.wanted /\ (schState.enabled => schState.there)

ScheduleInv == ScheduleTypes /\ RunInv /\ SlotInv /\ LockInv /\ WantInv

\* The model's name of a lock that is free is no run.
NameAssumption == "none" \notin Runs

-----------------------------------------------------------------------------
(* The types.                                                              *)

\* A record that is saved is a state of the file.
LEMMA SavedState ==
  ASSUME ScheduleTypes, NEW new \in State, Sched!SaveState(new)
  PROVE  /\ schState' \in State /\ schState'.count = new.count /\ schState'.there = TRUE
         /\ schState'.enabled = (schState.there /\ schState.enabled)
<1>1. PICK on \in BOOLEAN : on = (schState.there /\ schState.enabled)
  OBVIOUS
<1>2. schState' = [new EXCEPT !.there = TRUE, !.enabled = on]
  BY <1>1 DEF Sched!SaveState
<1> QED BY <1>1, <1>2 DEF State

LEMMA ScheduleTypesStep ==
  ASSUME ScheduleTypes, [Sched!Next]_Sched!schVars
  PROVE  ScheduleTypes'
<1>a. Sched!NoState \in State /\ Sched!Idle \in Trigger
  BY DEF Sched!NoState, Sched!Idle, State, Trigger, Status, TrigPc
<1>b. \A f \in [Runs -> Trigger], r \in Runs, t \in Trigger : [f EXCEPT ![r] = t] \in [Runs -> Trigger]
  OBVIOUS
<1>1. ASSUME NEW r \in Runs, Sched!ReadTask(r)  PROVE ScheduleTypes'
  <2>1. [Sched!Idle EXCEPT !.pc = "asked", !.max = schDef] \in Trigger
    BY DEF Sched!Idle, Trigger, TrigPc, ScheduleTypes
  <2> QED BY <1>1, <1>b, <2>1 DEF Sched!ReadTask, ScheduleTypes
<1>2. ASSUME NEW r \in Runs, Sched!TakeSlot(r)  PROVE ScheduleTypes'
  <2>1. [trig[r] EXCEPT !.pc = "triggering"] \in Trigger
    BY DEF Trigger, TrigPc, ScheduleTypes
  <2>2. \/ trig' = [trig EXCEPT ![r] = Sched!Idle] /\ slots' = slots
        \/ trig' = [trig EXCEPT ![r] = [trig[r] EXCEPT !.pc = "triggering"]] /\ slots' = slots + 1
    BY <1>2 DEF Sched!TakeSlot
  <2>3. trig' \in [Runs -> Trigger] /\ slots' \in Nat
    BY <1>a, <2>1, <2>2 DEF ScheduleTypes
  <2> QED BY <1>2, <2>3 DEF Sched!TakeSlot, ScheduleTypes
<1>c. Sched!Decr => slots' \in Nat
  BY DEF Sched!Decr, ScheduleTypes
<1>3. ASSUME NEW r \in Runs, Sched!TriggerFails(r)  PROVE ScheduleTypes'
  <2>1. PICK created \in BOOLEAN :
           /\ trig' = [trig EXCEPT ![r].pc = "record", ![r].err = TRUE, ![r].job = created]
           /\ graphJob' = [graphJob EXCEPT ![r] = IF created THEN "done" ELSE "none"]
    BY <1>3 DEF Sched!TriggerFails
  <2>2. [trig[r] EXCEPT !.pc = "record", !.err = TRUE, !.job = created] \in Trigger
    BY DEF Trigger, TrigPc, ScheduleTypes
  <2>3. trig' \in [Runs -> Trigger] /\ graphJob' \in [Runs -> {"none", "live", "done"}]
    BY <2>1, <2>2 DEF ScheduleTypes
  <2> QED BY <1>3, <1>c, <2>3 DEF Sched!TriggerFails, ScheduleTypes
<1>4. ASSUME NEW r \in Runs, Sched!TriggerStarts(r)  PROVE ScheduleTypes'
  <2>0. PICK t \in Trigger : t = trig[r]
    BY DEF ScheduleTypes
  <2>1. [t EXCEPT !.pc = "record", !.job = TRUE] \in Trigger
    BY DEF Trigger, TrigPc
  <2>2. trig' \in [Runs -> Trigger]
    BY <1>4, <2>0, <2>1 DEF Sched!TriggerStarts, ScheduleTypes
  <2> QED BY <1>4, <2>2 DEF Sched!TriggerStarts, ScheduleTypes
<1>5. ASSUME NEW r \in Runs, Sched!RecordRead(r)  PROVE ScheduleTypes'
  <2>1. [trig[r] EXCEPT !.pc = "over"] \in Trigger /\ [trig[r] EXCEPT !.pc = "save"] \in Trigger
    BY DEF Trigger, TrigPc, ScheduleTypes
  <2>2. trig' \in [Runs -> Trigger]
    BY <1>5, <2>1 DEF Sched!RecordRead, ScheduleTypes
  <2> QED BY <1>5, <2>2 DEF Sched!RecordRead, Sched!TakeLock, ScheduleTypes
<1>6. ASSUME NEW r \in Runs, Sched!RecordSave(r)  PROVE ScheduleTypes'
  <2>1. [trig[r] EXCEPT !.pc = "over"] \in Trigger
    BY DEF Trigger, TrigPc, ScheduleTypes
  <2>2. PICK new \in State : Sched!SaveState(new)
    <3> DEFINE failed == [held EXCEPT !.count = @ + 1, !.status = "failed",
                                      !.last = IF trig[r].job THEN r ELSE @]
               done == held.last = r /\ held.status \in Sched!Terminal
               started == [held EXCEPT !.count = @ + 1, !.last = r,
                                       !.status = IF done THEN @ ELSE "running"]
    <3>1. PICK last \in Runs \cup {"none"} : last = IF trig[r].job THEN r ELSE held.last
      BY DEF ScheduleTypes, State
    <3>2. PICK status \in Status : status = IF done THEN held.status ELSE "running"
      BY DEF ScheduleTypes, State, Status
    <3>3. /\ [held EXCEPT !.count = @ + 1, !.status = "failed", !.last = last] \in State
          /\ [held EXCEPT !.count = @ + 1, !.last = r, !.status = status] \in State
      <4>1. PICK h \in State : h = held
        BY DEF ScheduleTypes
      <4>2. h.count + 1 \in Nat
        BY DEF State
      <4>3. "failed" \in Status /\ r \in Runs \cup {"none"}
        BY DEF Status
      <4>4. \A l \in Runs \cup {"none"}, t \in Status :
               [h EXCEPT !.count = h.count + 1, !.status = t, !.last = l] \in State
        BY <4>2 DEF State
      <4>5. [held EXCEPT !.count = @ + 1, !.last = r, !.status = status]
              = [held EXCEPT !.count = @ + 1, !.status = status, !.last = r]
        BY <4>1 DEF State
      <4> QED BY <4>1, <4>3, <4>4, <4>5
    <3>4. failed \in State /\ started \in State
      BY <3>1, <3>2, <3>3
    <3>5. Sched!SaveState(failed) \/ Sched!SaveState(started)
      BY <1>6 DEF Sched!RecordSave
    <3> QED BY <3>4, <3>5
  <2>3. schState' \in State
    BY <2>2, SavedState
  <2>4. schSeen' \in ScheduleSeen
    BY <1>6 DEF Sched!RecordSave, ScheduleTypes, ScheduleSeen
  <2> QED BY <1>6, <1>a, <1>b, <2>1, <2>3, <2>4 DEF Sched!RecordSave, ScheduleTypes
<1>7. ASSUME NEW r \in Runs, Sched!RunEnds(r)  PROVE ScheduleTypes'
  <2>1. schSeen' \in ScheduleSeen
    BY <1>7 DEF Sched!RunEnds, ScheduleTypes, ScheduleSeen
  <2>2. mark' \in [Runs -> MarkPc] /\ notified' \in SUBSET Runs
    BY <1>7 DEF Sched!RunEnds, Sched!Notify, ScheduleTypes, MarkPc
  <2> QED BY <1>7, <2>1, <2>2 DEF Sched!RunEnds, ScheduleTypes
<1>8. ASSUME NEW r \in Runs, Sched!RunEndsAgain(r)  PROVE ScheduleTypes'
  BY <1>8 DEF Sched!RunEndsAgain, Sched!Notify, ScheduleTypes, MarkPc
<1>9. ASSUME NEW r \in Runs, Sched!RunResumes(r)  PROVE ScheduleTypes'
  <2>1. schSeen' \in ScheduleSeen
    BY <1>9 DEF Sched!RunResumes, ScheduleTypes, ScheduleSeen
  <2> QED BY <1>9, <2>1 DEF Sched!RunResumes, ScheduleTypes, MarkPc
<1>10. ASSUME NEW r \in Runs, Sched!MarkDecr(r)  PROVE ScheduleTypes'
  BY <1>10, <1>c DEF Sched!MarkDecr, ScheduleTypes, MarkPc
<1>11. ASSUME NEW r \in Runs, Sched!MarkRead(r)  PROVE ScheduleTypes'
  BY <1>11 DEF Sched!MarkRead, Sched!TakeLock, ScheduleTypes, MarkPc
<1>12. ASSUME NEW r \in Runs, Sched!MarkSave(r)  PROVE ScheduleTypes'
  <2>1. PICK new \in State : Sched!SaveState(new)
    <3> DEFINE new == [held EXCEPT !.status = IF held.last \in {"none", r} THEN "completed" ELSE @]
    <3>1. new \in State
      BY DEF ScheduleTypes, State, Status
    <3> QED BY <1>12, <3>1 DEF Sched!MarkSave
  <2>2. schState' \in State
    BY <2>1, SavedState
  <2> QED BY <1>12, <1>a, <2>2 DEF Sched!MarkSave, ScheduleTypes, MarkPc
<1>13. ASSUME Sched!UserReads  PROVE ScheduleTypes'
  BY <1>13 DEF Sched!UserReads, ScheduleTypes
<1>d. ASSUME NEW on \in BOOLEAN, Sched!SetEnabled(on)  PROVE schState' \in State /\ schSeen' \in ScheduleSeen
  BY <1>d DEF Sched!SetEnabled, ScheduleTypes, State, ScheduleSeen
<1>14. ASSUME Sched!UserToggles  PROVE ScheduleTypes'
  <2>1. (~schState.enabled) \in BOOLEAN
    OBVIOUS
  <2> QED BY <1>14, <1>d, <2>1 DEF Sched!UserToggles, ScheduleTypes
<1>15. ASSUME Sched!UserUpdates  PROVE ScheduleTypes'
  BY <1>15 DEF Sched!UserUpdates, ScheduleTypes
<1>16. ASSUME Sched!UserActivates  PROVE ScheduleTypes'
  BY <1>16, <1>d DEF Sched!UserActivates, ScheduleTypes
<1>17. ASSUME Sched!UserDeletes  PROVE ScheduleTypes'
  <2>1. schSeen' \in ScheduleSeen
    BY <1>17 DEF Sched!UserDeletes, ScheduleTypes, ScheduleSeen
  <2> QED BY <1>17, <1>a, <2>1 DEF Sched!UserDeletes, ScheduleTypes
<1>18. ASSUME Sched!Restart  PROVE ScheduleTypes'
  <2>1. schSeen' \in ScheduleSeen
    BY <1>18 DEF Sched!Restart, ScheduleTypes, ScheduleSeen
  <2>2. \A r \in Runs : [trig[r] EXCEPT !.pc = "over"] \in Trigger
    BY DEF Trigger, TrigPc, ScheduleTypes
  <2>3. trig' \in [Runs -> Trigger]
    BY <1>18, <1>a, <2>2 DEF Sched!Restart
  <2>4. graphJob' \in [Runs -> {"none", "live", "done"}] /\ mark' \in [Runs -> MarkPc]
    BY <1>18 DEF Sched!Restart, ScheduleTypes, MarkPc
  <2> QED BY <1>18, <1>a, <2>1, <2>3, <2>4 DEF Sched!Restart, ScheduleTypes
<1>19. CASE UNCHANGED Sched!schVars
  BY <1>19 DEF Sched!schVars, ScheduleTypes
<1> QED
  BY <1>1, <1>2, <1>3, <1>4, <1>5, <1>6, <1>7, <1>8, <1>9, <1>10, <1>11, <1>12, <1>13, <1>14,
     <1>15, <1>16, <1>17, <1>18, <1>19 DEF Sched!Next

-----------------------------------------------------------------------------
(* The order of a run.                                                     *)

LEMMA RunStep ==
  ASSUME ScheduleTypes, RunInv, [Sched!Next]_Sched!schVars
  PROVE  RunInv'
<1>1. ASSUME NEW r \in Runs, Sched!ReadTask(r) \/ Sched!TakeSlot(r) \/ Sched!TriggerFails(r) \/ Sched!TriggerStarts(r)
                             \/ Sched!RecordRead(r) \/ Sched!RecordSave(r)
      PROVE  RunInv'
  <2>1. UNCHANGED <<mark, notified>>
    BY <1>1 DEF Sched!ReadTask, Sched!TakeSlot, Sched!TriggerFails, Sched!TriggerStarts, Sched!RecordRead,
                Sched!RecordSave
  <2>2. \A s \in Runs \ {r} : trig'[s] = trig[s] /\ graphJob'[s] = graphJob[s]
    BY <1>1 DEF Sched!ReadTask, Sched!TakeSlot, Sched!TriggerFails, Sched!TriggerStarts, Sched!RecordRead,
                Sched!RecordSave, ScheduleTypes
  <2>3. \/ graphJob'[r] = graphJob[r] /\ trig[r].pc \in {"none", "asked", "triggering"}
        \/ graphJob[r] = "none" /\ trig'[r].pc = "record"
        \/ graphJob'[r] = graphJob[r] /\ trig'[r].pc \in {"save", "over"}
    BY <1>1 DEF Sched!ReadTask, Sched!TakeSlot, Sched!TriggerFails, Sched!TriggerStarts, Sched!RecordRead,
                Sched!RecordSave, ScheduleTypes,
       RunInv, Trigger
  <2> QED BY <2>1, <2>2, <2>3 DEF RunInv
<1>2. ASSUME NEW r \in Runs, Sched!RunEnds(r)  PROVE RunInv'
  <2>1. /\ UNCHANGED trig /\ graphJob' = [graphJob EXCEPT ![r] = "done"]
        /\ \A s \in Runs \ {r} : mark'[s] = mark[s] /\ (s \in notified' <=> s \in notified)
    BY <1>2 DEF Sched!RunEnds, Sched!Notify, ScheduleTypes
  <2>2. trig[r].pc \notin {"none", "asked", "triggering"}
    BY <1>2 DEF Sched!RunEnds, RunInv
  <2> QED BY <2>1, <2>2 DEF RunInv, ScheduleTypes
<1>3. ASSUME NEW r \in Runs, Sched!RunEndsAgain(r)  PROVE RunInv'
  BY <1>3 DEF Sched!RunEndsAgain, Sched!Notify, RunInv
<1>4. ASSUME NEW r \in Runs, Sched!RunResumes(r)  PROVE RunInv'
  <2>1. trig[r].pc \notin {"none", "asked", "triggering"}
    BY <1>4 DEF Sched!RunResumes, RunInv
  <2> QED BY <1>4, <2>1 DEF Sched!RunResumes, RunInv, ScheduleTypes
<1>5. ASSUME NEW r \in Runs, Sched!MarkDecr(r) \/ Sched!MarkRead(r) \/ Sched!MarkSave(r)  PROVE RunInv'
  <2>1. graphJob[r] = "done" /\ UNCHANGED <<trig, graphJob, notified>>
    BY <1>5 DEF Sched!MarkDecr, Sched!MarkRead, Sched!MarkSave, RunInv
  <2>2. \A s \in Runs \ {r} : mark'[s] = mark[s]
    BY <1>5 DEF Sched!MarkDecr, Sched!MarkRead, Sched!MarkSave, ScheduleTypes
  <2> QED BY <2>1, <2>2 DEF RunInv
<1>6. ASSUME Sched!Restart  PROVE RunInv'
  <2>1. \A r \in Runs : /\ trig'[r] = Sched!Idle \/ trig'[r].pc = "over"
                        /\ trig'[r] = Sched!Idle <=> trig[r].pc \in {"none", "asked"}
                        /\ graphJob'[r] = IF graphJob[r] = "live" THEN "done" ELSE graphJob[r]
                        /\ mark'[r] \in {"none", "dead"}
    BY <1>6 DEF Sched!Restart, Sched!Idle, ScheduleTypes, Trigger
  <2>2. notified' = {} /\ Sched!Idle.pc = "none"
    BY <1>6 DEF Sched!Restart, Sched!Idle
  <2> QED BY <2>1, <2>2 DEF RunInv
<1>7. CASE Sched!UserReads \/ Sched!UserToggles \/ Sched!UserUpdates \/ Sched!UserActivates \/ Sched!UserDeletes \/ UNCHANGED Sched!schVars
  BY <1>7 DEF Sched!UserReads, Sched!UserToggles, Sched!UserUpdates, Sched!UserActivates, Sched!UserDeletes,
              Sched!schVars, RunInv
<1> QED BY <1>1, <1>2, <1>3, <1>4, <1>5, <1>6, <1>7 DEF Sched!Next

-----------------------------------------------------------------------------
(* The slots.                                                              *)

\* A run takes a slot, gives one back or does neither; the others keep theirs.
LEMMA SlotMoves ==
  ASSUME ScheduleTypes, SlotInv, Counted,
         \/ Sched!HoldingSlot' = Sched!HoldingSlot /\ slots' = slots
         \/ \E r \in Runs : r \notin Sched!HoldingSlot /\ Sched!HoldingSlot' = Sched!HoldingSlot \cup {r} /\ slots' = slots + 1
         \/ \E r \in Runs : r \in Sched!HoldingSlot /\ Sched!HoldingSlot' = Sched!HoldingSlot \ {r} /\ Sched!Decr
  PROVE  SlotInv'
<1>1. IsFiniteSet(Sched!HoldingSlot) /\ slots = Cardinality(Sched!HoldingSlot) /\ slots \in Nat
  BY DEF SlotInv, ScheduleTypes
<1>2. CASE Sched!HoldingSlot' = Sched!HoldingSlot /\ slots' = slots
  BY <1>1, <1>2 DEF SlotInv
<1>3. ASSUME NEW r \in Runs, r \notin Sched!HoldingSlot, Sched!HoldingSlot' = Sched!HoldingSlot \cup {r}, slots' = slots + 1
      PROVE  SlotInv'
  BY <1>1, <1>3, FS_AddElement DEF SlotInv
<1>4. ASSUME NEW r \in Runs, r \in Sched!HoldingSlot, Sched!HoldingSlot' = Sched!HoldingSlot \ {r}, Sched!Decr
      PROVE  SlotInv'
  <2>1. IsFiniteSet(Sched!HoldingSlot') /\ Cardinality(Sched!HoldingSlot') = slots - 1
    BY <1>1, <1>4, FS_RemoveElement
  <2>2. Cardinality(Sched!HoldingSlot') \in Nat
    BY <2>1, FS_CardinalityType
  <2> QED BY <1>1, <1>4, <2>1, <2>2 DEF SlotInv, Sched!Decr
<1> QED BY <1>2, <1>3, <1>4

\* The runs that hold a slot after a step, if it is a step of run r or of nobody.
LEMMA HoldingAfter ==
  ASSUME NEW r \in Runs, \A s \in Runs \ {r} : Holds(s)' <=> Holds(s)
  PROVE  /\ (Holds(r)' <=> Holds(r)) => Sched!HoldingSlot' = Sched!HoldingSlot
         /\ ~Holds(r) /\ Holds(r)' => r \notin Sched!HoldingSlot /\ Sched!HoldingSlot' = Sched!HoldingSlot \cup {r}
         /\ Holds(r) /\ ~Holds(r)' => r \in Sched!HoldingSlot /\ Sched!HoldingSlot' = Sched!HoldingSlot \ {r}
BY DEF Sched!HoldingSlot, Holds

LEMMA SlotStep ==
  ASSUME ScheduleTypes, RunInv, SlotInv, [Sched!Next]_Sched!schVars
  PROVE  SlotInv'
<1>0. SUFFICES ASSUME Counted' PROVE SlotInv'
  BY DEF SlotInv
<1>1. ASSUME NEW r \in Runs, Sched!ReadTask(r) \/ Sched!TriggerStarts(r) \/ Sched!RecordRead(r) \/ Sched!RecordSave(r)
                             \/ Sched!MarkRead(r) \/ Sched!MarkSave(r)
      PROVE  SlotInv'
  <2>1. Counted /\ slots' = slots
    BY <1>0, <1>1 DEF Sched!ReadTask, Sched!TriggerStarts, Sched!RecordRead, Sched!RecordSave, Sched!MarkRead,
                      Sched!MarkSave, Counted, ScheduleTypes, ScheduleSeen
  <2>2. \A s \in Runs : Holds(s)' <=> Holds(s)
    <3>1. CASE Sched!ReadTask(r)
      BY <3>1 DEF Sched!ReadTask, Holds, ScheduleTypes, Sched!Idle
    <3>2. CASE Sched!TriggerStarts(r)
      BY <3>2 DEF Sched!TriggerStarts, Holds, ScheduleTypes, Trigger
    <3>3. CASE Sched!RecordRead(r)
      BY <3>3 DEF Sched!RecordRead, Holds, ScheduleTypes, Trigger
    <3>4. CASE Sched!RecordSave(r)
      BY <3>4 DEF Sched!RecordSave, Holds, ScheduleTypes, Trigger
    <3>5. CASE Sched!MarkRead(r)
      BY <3>5 DEF Sched!MarkRead, Holds, ScheduleTypes
    <3>6. CASE Sched!MarkSave(r)
      BY <3>6 DEF Sched!MarkSave, Holds, ScheduleTypes
    <3> QED BY <1>1, <3>1, <3>2, <3>3, <3>4, <3>5, <3>6
  <2> QED BY <2>1, <2>2, HoldingAfter, SlotMoves
<1>2. ASSUME NEW r \in Runs, Sched!TakeSlot(r)  PROVE SlotInv'
  <2>1. Counted /\ \A s \in Runs \ {r} : Holds(s)' <=> Holds(s)
    BY <1>0, <1>2 DEF Sched!TakeSlot, Counted, Holds, ScheduleTypes
  <2>2. ~Holds(r)
    BY <1>2 DEF Sched!TakeSlot, Holds, RunInv
  <2>3. \/ ~Holds(r)' /\ slots' = slots
        \/ Holds(r)' /\ slots' = slots + 1
    <3>1. CASE slots >= trig[r].max
      BY <1>2, <2>2, <3>1 DEF Sched!TakeSlot, Holds, ScheduleTypes, Sched!Idle
    <3>2. CASE ~(slots >= trig[r].max)
      BY <1>2, <3>2 DEF Sched!TakeSlot, Holds, ScheduleTypes, Trigger
    <3> QED BY <3>1, <3>2
  <2> QED BY <2>1, <2>2, <2>3, HoldingAfter, SlotMoves
<1>3. ASSUME NEW r \in Runs, Sched!TriggerFails(r) \/ Sched!MarkDecr(r)  PROVE SlotInv'
  <2>1. Counted /\ Sched!Decr /\ \A s \in Runs \ {r} : Holds(s)' <=> Holds(s)
    BY <1>0, <1>3 DEF Sched!TriggerFails, Sched!MarkDecr, Counted, Holds, ScheduleTypes
  <2>2. Holds(r) /\ ~Holds(r)'
    <3>1. CASE Sched!TriggerFails(r)
      BY <3>1 DEF Sched!TriggerFails, Holds, ScheduleTypes, RunInv, Trigger
    <3>2. CASE Sched!MarkDecr(r)
      BY <3>2 DEF Sched!MarkDecr, Holds, ScheduleTypes, RunInv, Trigger
    <3> QED BY <1>3, <3>1, <3>2
  <2> QED BY <2>1, <2>2, HoldingAfter, SlotMoves
<1>4. ASSUME NEW r \in Runs, Sched!RunEnds(r)  PROVE SlotInv'
  <2>1. Counted /\ slots' = slots /\ Sched!Notify(r)
    BY <1>0, <1>4 DEF Sched!RunEnds, Counted, ScheduleTypes, ScheduleSeen
  <2>2. r \notin notified /\ mark' = [mark EXCEPT ![r] = "due"]
    BY <1>4, <2>1 DEF Sched!RunEnds, Sched!Notify, RunInv
  <2>3. \A s \in Runs : Holds(s)' <=> Holds(s)
    BY <1>4, <2>2 DEF Sched!RunEnds, Holds, ScheduleTypes
  <2> QED BY <2>1, <2>3, HoldingAfter, SlotMoves
<1>5. ASSUME NEW r \in Runs, Sched!RunEndsAgain(r)  PROVE SlotInv'
  BY <1>0, <1>5, SlotMoves DEF Sched!RunEndsAgain, Sched!Notify, Counted, Sched!HoldingSlot
<1>6. ASSUME NEW r \in Runs, Sched!RunResumes(r)  PROVE SlotInv'
  BY <1>0, <1>6 DEF Sched!RunResumes, Counted, ScheduleTypes, ScheduleSeen
<1>7. ASSUME Sched!Restart  PROVE SlotInv'
  <2>1. \A r \in Runs : ~Holds(r)'
    BY <1>7 DEF Sched!Restart, Holds, Sched!Idle, ScheduleTypes, Trigger
  <2>2. Sched!HoldingSlot' = {} /\ slots' = 0
    BY <1>7, <2>1 DEF Sched!HoldingSlot, Holds, Sched!Restart
  <2> QED BY <2>2, FS_EmptySet DEF SlotInv
<1>8. CASE Sched!UserReads \/ Sched!UserToggles \/ Sched!UserUpdates \/ Sched!UserActivates \/ Sched!UserDeletes \/ UNCHANGED Sched!schVars
  <2>1. Counted /\ slots' = slots /\ UNCHANGED <<trig, graphJob, mark>>
    BY <1>0, <1>8 DEF Sched!UserReads, Sched!UserToggles, Sched!UserUpdates, Sched!UserActivates,
                      Sched!SetEnabled, Sched!UserDeletes, Sched!schVars,
       Counted, ScheduleTypes, ScheduleSeen
  <2> QED BY <2>1, SlotMoves DEF Sched!HoldingSlot
<1> QED BY <1>1, <1>2, <1>3, <1>4, <1>5, <1>6, <1>7, <1>8 DEF Sched!Next

-----------------------------------------------------------------------------
(* The state file.                                                         *)

LEMMA LockStep ==
  ASSUME NameAssumption, ScheduleTypes, LockInv, [Sched!Next]_Sched!schVars
  PROVE  LockInv'
<1>1. ASSUME NEW r \in Runs, Sched!ReadTask(r) \/ Sched!TakeSlot(r) \/ Sched!TriggerFails(r) \/ Sched!TriggerStarts(r)
                             \/ Sched!RunEnds(r) \/ Sched!RunEndsAgain(r) \/ Sched!RunResumes(r) \/ Sched!MarkDecr(r)
      PROVE  LockInv'
  <2>1. /\ UNCHANGED <<taskLock, schState, held>>
        /\ schSeen'.deleted = schSeen.deleted /\ schSeen'.records = schSeen.records
    BY <1>1 DEF Sched!ReadTask, Sched!TakeSlot, Sched!TriggerFails, Sched!TriggerStarts, Sched!RunEnds,
                Sched!RunEndsAgain, Sched!RunResumes, Sched!MarkDecr,
       ScheduleTypes, ScheduleSeen
  <2>2. \A s \in Runs : /\ trig'[s].pc = "save" => trig[s].pc = "save"
                        /\ mark'[s] = "save" => mark[s] = "save"
    <3>1. CASE Sched!ReadTask(r) \/ Sched!TakeSlot(r) \/ Sched!TriggerFails(r) \/ Sched!TriggerStarts(r)
      <4>1. mark' = mark /\ \A s \in Runs \ {r} : trig'[s] = trig[s]
        BY <3>1 DEF Sched!ReadTask, Sched!TakeSlot, Sched!TriggerFails, Sched!TriggerStarts, ScheduleTypes
      <4>2. trig'[r].pc # "save"
        <5>1. CASE Sched!ReadTask(r)
          BY <5>1 DEF Sched!ReadTask, ScheduleTypes, Sched!Idle
        <5>2. CASE Sched!TakeSlot(r)
          BY <5>2 DEF Sched!TakeSlot, ScheduleTypes, Trigger, Sched!Idle
        <5>3. CASE Sched!TriggerFails(r) \/ Sched!TriggerStarts(r)
          BY <5>3 DEF Sched!TriggerFails, Sched!TriggerStarts, ScheduleTypes, Trigger
        <5> QED BY <3>1, <5>1, <5>2, <5>3
      <4> QED BY <4>1, <4>2
    <3>2. CASE Sched!RunEnds(r) \/ Sched!RunEndsAgain(r) \/ Sched!RunResumes(r) \/ Sched!MarkDecr(r)
      BY <3>2 DEF Sched!RunEnds, Sched!RunEndsAgain, Sched!RunResumes, Sched!MarkDecr, Sched!Notify,
                  ScheduleTypes
    <3> QED BY <1>1, <3>1, <3>2
  <2> QED BY <2>1, <2>2 DEF LockInv
<1>2. ASSUME NEW r \in Runs, Sched!RecordRead(r)  PROVE LockInv'
  <2>1. CASE schDef = 0
    BY <1>2, <2>1 DEF Sched!RecordRead, LockInv, ScheduleTypes, Trigger
  <2>2. CASE schDef # 0
    <3>1. /\ taskLock = "none" /\ taskLock' = r /\ held' = schState
          /\ UNCHANGED <<schState, schSeen, mark>>
          /\ trig' = [trig EXCEPT ![r].pc = "save"]
      BY <1>2, <2>2 DEF Sched!RecordRead, Sched!TakeLock
    <3>2. \A s \in Runs : trig[s].pc # "save" /\ mark[s] # "save"
      BY <3>1 DEF LockInv, NameAssumption
    <3> QED BY <3>1, <3>2 DEF LockInv, ScheduleTypes, Trigger
  <2> QED BY <2>1, <2>2
<1>3. ASSUME NEW r \in Runs, Sched!RecordSave(r)  PROVE LockInv'
  <2>1. taskLock = r /\ taskLock' = "none" /\ mark' = mark
        /\ trig' = [trig EXCEPT ![r].pc = "over"]
        /\ schSeen' = [schSeen EXCEPT !.records = @ + 1]
    BY <1>3 DEF Sched!RecordSave, LockInv
  <2>2. \A s \in Runs : trig'[s].pc # "save" /\ mark'[s] # "save"
    BY <1>3, <2>1 DEF Sched!RecordSave, LockInv, ScheduleTypes, Trigger
  <2>3. schState'.count = held.count + 1
    BY <1>3 DEF Sched!RecordSave, Sched!SaveState, ScheduleTypes, State
  <2>4. ~schSeen.deleted => held.count = schSeen.records
    BY <2>1 DEF LockInv, NameAssumption
  <2> QED BY <2>1, <2>2, <2>3, <2>4 DEF LockInv, ScheduleTypes, ScheduleSeen
<1>4. ASSUME NEW r \in Runs, Sched!MarkRead(r)  PROVE LockInv'
  <2>1. CASE schDef = 0
    BY <1>4, <2>1 DEF Sched!MarkRead, LockInv, ScheduleTypes
  <2>2. CASE schDef # 0
    <3>1. /\ taskLock = "none" /\ taskLock' = r /\ held' = schState
          /\ UNCHANGED <<schState, schSeen, trig>>
          /\ mark' = [mark EXCEPT ![r] = "save"]
      BY <1>4, <2>2 DEF Sched!MarkRead, Sched!TakeLock
    <3>2. \A s \in Runs : trig[s].pc # "save" /\ mark[s] # "save"
      BY <3>1 DEF LockInv, NameAssumption
    <3> QED BY <3>1, <3>2 DEF LockInv, ScheduleTypes
  <2> QED BY <2>1, <2>2
<1>5. ASSUME NEW r \in Runs, Sched!MarkSave(r)  PROVE LockInv'
  <2>1. taskLock = r /\ taskLock' = "none" /\ UNCHANGED <<trig, schSeen>>
        /\ mark' = [mark EXCEPT ![r] = "over"]
    BY <1>5 DEF Sched!MarkSave, LockInv
  <2>2. \A s \in Runs : trig'[s].pc # "save" /\ mark'[s] # "save"
    BY <1>5, <2>1 DEF Sched!MarkSave, LockInv, ScheduleTypes
  <2>3. schState'.count = held.count
    BY <1>5 DEF Sched!MarkSave, Sched!SaveState, ScheduleTypes, State
  <2>4. ~schSeen.deleted => held.count = schSeen.records
    BY <2>1 DEF LockInv, NameAssumption
  <2> QED BY <2>1, <2>2, <2>3, <2>4 DEF LockInv
<1>6. CASE Sched!UserReads \/ Sched!UserToggles \/ Sched!UserUpdates \/ Sched!UserActivates \/ UNCHANGED Sched!schVars
  <2>1. /\ UNCHANGED <<taskLock, held, trig, mark>> /\ schState'.count = schState.count
        /\ schSeen'.deleted = schSeen.deleted /\ schSeen'.records = schSeen.records
    BY <1>6 DEF Sched!UserReads, Sched!UserToggles, Sched!UserUpdates, Sched!UserActivates, Sched!SetEnabled,
                Sched!schVars, ScheduleTypes, State, ScheduleSeen
  <2> QED BY <2>1 DEF LockInv
<1>7. ASSUME Sched!UserDeletes  PROVE LockInv'
  <2>1. schSeen'.deleted = TRUE /\ UNCHANGED <<taskLock, trig, mark>>
    BY <1>7 DEF Sched!UserDeletes, ScheduleTypes, ScheduleSeen
  <2> QED BY <2>1 DEF LockInv
<1>8. ASSUME Sched!Restart  PROVE LockInv'
  <2>1. \A r \in Runs : trig'[r].pc # "save" /\ mark'[r] # "save"
    BY <1>8 DEF Sched!Restart, Sched!Idle, ScheduleTypes, Trigger
  <2>2. taskLock' = "none" /\ schState' = schState /\ schSeen'.deleted = schSeen.deleted
        /\ schSeen'.records = schSeen.records
    BY <1>8 DEF Sched!Restart, ScheduleTypes, ScheduleSeen
  <2> QED BY <2>1, <2>2 DEF LockInv
<1> QED BY <1>1, <1>2, <1>3, <1>4, <1>5, <1>6, <1>7, <1>8 DEF Sched!Next

LEMMA WantStep ==
  ASSUME ScheduleTypes, WantInv, [Sched!Next]_Sched!schVars
  PROVE  WantInv'
<1>1. ASSUME schState'.enabled = schState.enabled, schState.there => schState'.there,
             schSeen'.wanted = schSeen.wanted
      PROVE  WantInv'
  BY <1>1 DEF WantInv
<1>2. ASSUME NEW on, Sched!SetEnabled(on)  PROVE WantInv'
  BY <1>2 DEF Sched!SetEnabled, WantInv, ScheduleTypes, State, ScheduleSeen
<1>4. ASSUME NEW r \in Runs, Sched!RecordSave(r) \/ Sched!MarkSave(r)  PROVE WantInv'
  <2>1. schSeen'.wanted = schSeen.wanted
    BY <1>4 DEF Sched!RecordSave, Sched!MarkSave, ScheduleTypes, ScheduleSeen
  <2>2. schState'.there = TRUE /\ (schState'.enabled <=> (schState.there /\ schState.enabled))
    BY <1>4 DEF Sched!RecordSave, Sched!MarkSave, Sched!SaveState, ScheduleTypes, State
  <2>3. schState.enabled \in BOOLEAN /\ schState'.enabled \in BOOLEAN
    BY ScheduleTypesStep DEF ScheduleTypes, State
  <2> QED BY <1>1, <2>1, <2>2, <2>3 DEF WantInv
<1>5. ASSUME Sched!UserToggles \/ Sched!UserActivates  PROVE WantInv'
  BY <1>2, <1>5 DEF Sched!UserToggles, Sched!UserActivates
<1>6. ASSUME Sched!UserDeletes  PROVE WantInv'
  BY <1>6 DEF Sched!UserDeletes, Sched!NoState, WantInv, ScheduleTypes, ScheduleSeen
<1>7. ASSUME NEW r \in Runs, Sched!RunEnds(r) \/ Sched!RunResumes(r)  PROVE WantInv'
  <2>1. schState' = schState /\ schSeen'.wanted = schSeen.wanted
    BY <1>7 DEF Sched!RunEnds, Sched!RunResumes, ScheduleTypes, ScheduleSeen
  <2> QED BY <1>1, <2>1
<1>8. ASSUME NEW r \in Runs, Sched!ReadTask(r) \/ Sched!TakeSlot(r) \/ Sched!TriggerFails(r) \/ Sched!TriggerStarts(r)
                             \/ Sched!RecordRead(r) \/ Sched!RunEndsAgain(r) \/ Sched!MarkDecr(r) \/ Sched!MarkRead(r)
      PROVE  WantInv'
  BY <1>1, <1>8 DEF Sched!ReadTask, Sched!TakeSlot, Sched!TriggerFails, Sched!TriggerStarts, Sched!RecordRead,
                    Sched!RunEndsAgain, Sched!MarkDecr, Sched!MarkRead
<1>9. CASE Sched!UserReads \/ Sched!UserUpdates \/ UNCHANGED Sched!schVars
  BY <1>1, <1>9 DEF Sched!UserReads, Sched!UserUpdates, Sched!schVars
<1>10. ASSUME Sched!Restart  PROVE WantInv'
  <2>1. schState' = schState /\ schSeen'.wanted = schSeen.wanted
    BY <1>10 DEF Sched!Restart, ScheduleTypes, ScheduleSeen
  <2> QED BY <1>1, <2>1
<1> QED BY <1>4, <1>5, <1>6, <1>7, <1>8, <1>9, <1>10 DEF Sched!Next

-----------------------------------------------------------------------------
(* SlotsMatchRuns and ResultsAndTogglesMerge.                              *)

LEMMA ScheduleInitInv ==
  ASSUME Sched!Init
  PROVE  ScheduleInv
<1>1. ScheduleTypes
  BY DEF Sched!Init, ScheduleTypes, Sched!NoState, Sched!Idle, State, Trigger, TrigPc, MarkPc, Status,
         ScheduleSeen
<1>2. RunInv /\ LockInv /\ WantInv
  BY DEF Sched!Init, RunInv, LockInv, WantInv, Sched!NoState, Sched!Idle
<1>3. Sched!HoldingSlot = {} /\ slots = 0
  BY DEF Sched!Init, Sched!HoldingSlot, Sched!Idle
<1> QED BY <1>1, <1>2, <1>3, FS_EmptySet DEF ScheduleInv, SlotInv

LEMMA ScheduleNextInv ==
  ASSUME NameAssumption, ScheduleInv, [Sched!Next]_Sched!schVars
  PROVE  ScheduleInv'
BY ScheduleTypesStep, RunStep, SlotStep, LockStep, WantStep DEF ScheduleInv

LEMMA ScheduleInvHolds ==
  ASSUME ScheduleInv
  PROVE  Sched!SlotsMatchRuns /\ Sched!ResultsAndTogglesMerge
<1>1. Sched!SlotsMatchRuns
  BY DEF ScheduleInv, SlotInv, Counted, Sched!SlotsMatchRuns, Sched!Cardinality, Cardinality
<1>2. Sched!ResultsAndTogglesMerge
  BY DEF ScheduleInv, LockInv, WantInv, Sched!ResultsAndTogglesMerge
<1> QED
  BY <1>1, <1>2

\* Every slot belongs to a trigger or a run that was not reported, and neither a record of
\* the scheduler nor a toggle of a user undoes the other.
THEOREM SlotsAndRecords ==
  ASSUME NameAssumption
  PROVE  Sched!Spec => [](Sched!SlotsMatchRuns /\ Sched!ResultsAndTogglesMerge)
<1>1. Sched!Init => ScheduleInv
  BY ScheduleInitInv
<1>2. ScheduleInv /\ [Sched!Next]_Sched!schVars => ScheduleInv'
  BY ScheduleNextInv
<1>3. ScheduleInv => Sched!SlotsMatchRuns /\ Sched!ResultsAndTogglesMerge
  BY ScheduleInvHolds
<1> QED BY <1>1, <1>2, <1>3, PTL DEF Sched!Spec

-----------------------------------------------------------------------------
(****************************************************************************)
(* One administrator stays active, what is in memory is what a start would *)
(* load, and who was revoked stays out: for any number of browsers, users, *)
(* roles and sessions, and whatever the files hold at first.               *)
(*                                                                         *)
(* A start loads files only if they are valid, so the argument is about    *)
(* what keeps them so.  Whoever is authenticated was known when the        *)
(* request began and users are never removed (RequestInv); every record    *)
(* that is saved leaves an active administrator, a name of its own and     *)
(* roles there are (Editable), because the checks before it look at the    *)
(* same memory that the files are at that moment equal to.  That equality  *)
(* (Restartable) fails only where an initialization stopped half way, and  *)
(* there memory still knows no user that the files do not (FilesAgree), so *)
(* that the next identifier is new to both.  Sessions carry the number of  *)
(* the revocations begun for their user before them, and a revocation that *)
(* is reported as done has removed those with a smaller one (RevokeInv).   *)
(***************************************************************************)
Roles == {"admin", "member"} \cup Custom
User == [name : Usernames, roles : SUBSET Roles, status : {"active", "disabled", "deleted"},
         must : BOOLEAN, ver : Nat]
Role == [manages : BOOLEAN, ver : Nat]
UserRecords == UNION {[D -> User] : D \in SUBSET Ids}
RoleRecords == UNION {[D -> Role] : D \in SUBSET Custom}
SessionRecord == [token : Nat, user : Ids, epoch : Nat]
Files == [system : BOOLEAN, builtin : BOOLEAN, users : UserRecords, roles : RoleRecords,
          sessions : SUBSET SessionRecord]

\* 0 stands for nobody; and what the files hold at first are records of users, roles and sessions.
AccountsAssumption ==
  /\ 0 \notin Ids
  /\ Starts \subseteq Files

Service == [state : {"uninitialized", "recovery", "ready"}, users : UserRecords, roles : RoleRecords]
Request == [user : Ids \cup {0}, manages : BOOLEAN, must : BOOLEAN,
            view : UNION {[D -> Nat] : D \in SUBSET Ids},
            roles : UNION {[D -> Nat] : D \in SUBSET Custom}]
Browser == [cookie : Nat, req : Request]
AccountsSeen == [changes : Nat, tokens : Nat, faults : Nat, half : BOOLEAN,
         epoch : [Ids -> Nat], done : [Ids -> Nat]]

TypeInv ==
  /\ accDisk \in Files /\ accMem \in Service /\ browser \in [Clients -> Browser] /\ acSeen \in AccountsSeen

\* Memory knows no user that the files do not have, and before there is a service they are empty;
\* where no initialization has stopped half way.
FilesAgree ==
  /\ accMem.state = "ready" => DOMAIN accMem.users \subseteq DOMAIN accDisk.users
  /\ accMem.state = "uninitialized" /\ ~acSeen.half =>
       ~accDisk.system /\ ~accDisk.builtin /\ accDisk.users = Acct!None /\ accDisk.roles = Acct!None

\* Who has been authenticated is known to the service.
RequestInv ==
  \A c \in Clients : browser[c].req # Acct!NoRequest =>
     accMem.state = "ready" /\ browser[c].req.user \in DOMAIN accMem.users

\* No revocation is done before it began, and no session is older than one that is done.
RevokeInv == (\A u \in Ids : acSeen.done[u] <= acSeen.epoch[u]) /\ Acct!RevokedStaysOut

AccountsInv == TypeInv /\ FilesAgree /\ RequestInv /\ Acct!AdminRemains /\ Acct!Restartable /\ RevokeInv

-----------------------------------------------------------------------------
\* An absent file is the records of nobody.
LEMMA NoRecords == Acct!None \in UserRecords /\ Acct!None \in RoleRecords /\ DOMAIN Acct!None = {}
                   /\ Acct!None \in UNION {[D -> Nat] : D \in SUBSET Ids}
                   /\ Acct!None \in UNION {[D -> Nat] : D \in SUBSET Custom}
<1>1. DOMAIN Acct!None = {} /\ Acct!None = [x \in {} |-> 0]
  BY DEF Acct!None
<1>2. Acct!None \in [{} -> User] /\ Acct!None \in [{} -> Role] /\ Acct!None \in [{} -> Nat]
  BY <1>1
<1> QED
  BY <1>1, <1>2 DEF UserRecords, RoleRecords

\* A file that was saved is not absent.
LEMMA WithIsSome ==
  ASSUME NEW f, NEW i, NEW r
  PROVE  Acct!With(f, i, r) # Acct!None
<1>1. i \in DOMAIN Acct!With(f, i, r)
  BY DEF Acct!With
<1> QED
  BY <1>1, NoRecords

\* Records stay records when one is added or replaced: of users,
LEMMA WithUserTyped ==
  ASSUME NEW f, NEW u, NEW r, f \in UserRecords, u \in Ids, r \in User
  PROVE  Acct!With(f, u, r) \in UserRecords
<1>1. PICK D \in SUBSET Ids : f \in [D -> User]
  BY DEF UserRecords
<1>2. Acct!With(f, u, r) \in [D \cup {u} -> User]
  BY <1>1 DEF Acct!With
<1> QED
  BY <1>2 DEF UserRecords

\* and of roles.
LEMMA WithRoleTyped ==
  ASSUME NEW f, NEW x, NEW r, f \in RoleRecords, x \in Custom, r \in Role
  PROVE  Acct!With(f, x, r) \in RoleRecords
<1>1. PICK D \in SUBSET Custom : f \in [D -> Role]
  BY DEF RoleRecords
<1>2. Acct!With(f, x, r) \in [D \cup {x} -> Role]
  BY <1>1 DEF Acct!With
<1> QED
  BY <1>2 DEF RoleRecords

\* A new identifier is one that the file does not have.
LEMMA NewIdFresh ==
  ASSUME NEW f, Acct!Fresh(f) # {}
  PROVE  Acct!NewId(f) \in Ids /\ Acct!NewId(f) \notin DOMAIN f
BY DEF Acct!NewId, Acct!Fresh

\* What a start makes of files: the service has an administrator, and what the files say.
LEMMA LoadedIsRight ==
  ASSUME NEW d \in Files
  PROVE  /\ Acct!Loaded(d) \in Service
         /\ Acct!Loaded(d).state = "ready" => /\ d.system /\ Acct!Valid(d) /\ Acct!ActiveAdmin(Acct!Loaded(d).users)
                                              /\ Acct!Loaded(d).users = d.users /\ Acct!Loaded(d).roles = d.roles
         /\ Acct!Loaded(d).state = "uninitialized" =>
               ~d.system /\ ~d.builtin /\ d.users = Acct!None /\ d.roles = Acct!None
         /\ d.system /\ Acct!Valid(d) =>
               Acct!Loaded(d) = [state |-> "ready", users |-> d.users, roles |-> d.roles]
<1>1. CASE ~d.system
  BY <1>1, NoRecords DEF Acct!Loaded, Service
<1>2. CASE d.system /\ Acct!Valid(d)
  BY <1>2 DEF Acct!Loaded, Service, Files, Acct!Valid
<1>3. CASE d.system /\ ~Acct!Valid(d)
  BY <1>3, NoRecords DEF Acct!Loaded, Service
<1> QED
  BY <1>1, <1>2, <1>3 DEF Files

-----------------------------------------------------------------------------
(* A record that may replace or join the users there are.                  *)
Editable(u, user) ==
  /\ u \in Ids /\ user \in User /\ accMem.state = "ready"
  /\ u \in DOMAIN accMem.users \/ u \notin DOMAIN accDisk.users
  /\ Acct!ActiveAdmin(Acct!With(accMem.users, u, user))
  /\ ~acSeen.half =>
       /\ \A w \in DOMAIN accMem.users \ {u} : accMem.users[w].name # user.name
       /\ user.status # "deleted" => /\ user.roles # {}
                                    /\ user.roles \subseteq {"admin", "member"} \cup DOMAIN accMem.roles

\* What is ready is what the files say, if no initialization has stopped half way.
LEMMA ReadyIsLoaded ==
  ASSUME AccountsInv, accMem.state = "ready", ~acSeen.half
  PROVE  /\ accDisk.system /\ Acct!Valid(accDisk) /\ accDisk.users = accMem.users /\ accDisk.roles = accMem.roles
         /\ accMem = [state |-> "ready", users |-> accMem.users, roles |-> accMem.roles]
<1>1. Acct!Loaded(accDisk) = accMem
  BY DEF AccountsInv, Acct!Restartable
<1> QED
  BY <1>1, LoadedIsRight DEF AccountsInv, TypeInv, Service

\* Files stay valid when such a record is saved.
LEMMA ValidWithUser ==
  ASSUME NEW d \in Files, NEW e \in Files, Acct!Valid(d), NEW u \in Ids, NEW user \in User,
         e.builtin = d.builtin, e.roles = d.roles, e.users = Acct!With(d.users, u, user),
         Acct!ActiveAdmin(Acct!With(d.users, u, user)),
         \A w \in DOMAIN d.users \ {u} : d.users[w].name # user.name,
         user.status # "deleted" => /\ user.roles # {}
                                    /\ user.roles \subseteq {"admin", "member"} \cup DOMAIN d.roles
  PROVE  Acct!Valid(e)
<1>1. /\ DOMAIN e.users = DOMAIN d.users \cup {u}
      /\ e.users[u] = user
      /\ \A w \in DOMAIN d.users \ {u} : e.users[w] = d.users[w]
  BY DEF Acct!With
<1>0. e.users # Acct!None
  BY WithIsSome
<1>2. \A w, x \in DOMAIN e.users : e.users[w].name = e.users[x].name => w = x
  BY <1>1 DEF Acct!Valid
<1>3. \A w \in DOMAIN e.users : e.users[w].status # "deleted" =>
         /\ e.users[w].roles # {}
         /\ e.users[w].roles \subseteq {"admin", "member"} \cup DOMAIN e.roles
  BY <1>1 DEF Acct!Valid
<1> QED
  BY <1>0, <1>1, <1>2, <1>3 DEF Acct!Valid

\* An edit that is saved, and taken over into memory or found at a start.
LEMMA EditKeeps ==
  ASSUME AccountsInv, NEW u, NEW user, Editable(u, user), accDisk' \in Files,
         accDisk'.system = accDisk.system, accDisk'.builtin = accDisk.builtin, accDisk'.roles = accDisk.roles,
         accDisk'.users = Acct!With(accDisk.users, u, user), acSeen'.half = acSeen.half,
         accMem' = Acct!WithUser(accMem, u, user) \/ accMem' = Acct!Loaded(accDisk')
  PROVE  /\ accMem' \in Service /\ FilesAgree' /\ Acct!AdminRemains' /\ Acct!Restartable'
         /\ accMem' = Acct!WithUser(accMem, u, user) =>
              accMem'.state = "ready" /\ DOMAIN accMem.users \subseteq DOMAIN accMem'.users
<1>1. /\ accMem \in Service /\ accDisk \in Files /\ u \in Ids /\ user \in User /\ accMem.state = "ready"
      /\ accMem.users \in UserRecords /\ accDisk.users \in UserRecords
  BY DEF AccountsInv, TypeInv, Editable, Service, Files
<1>2. Acct!WithUser(accMem, u, user) = [accMem EXCEPT !.users = Acct!With(accMem.users, u, user)]
  BY DEF Acct!WithUser
<1>3. Acct!With(accMem.users, u, user) \in UserRecords /\ DOMAIN Acct!With(accMem.users, u, user) = DOMAIN accMem.users \cup {u}
  <2>1. DOMAIN Acct!With(accMem.users, u, user) = DOMAIN accMem.users \cup {u}
    BY DEF Acct!With
  <2> QED
    BY <1>1, <2>1, WithUserTyped
<1>3a. /\ Acct!WithUser(accMem, u, user) \in Service
      /\ Acct!WithUser(accMem, u, user) = [state |-> "ready", users |-> Acct!With(accMem.users, u, user), roles |-> accMem.roles]
      /\ DOMAIN Acct!WithUser(accMem, u, user).users = DOMAIN accMem.users \cup {u}
  BY <1>1, <1>2, <1>3 DEF Service
<1>4. DOMAIN accDisk'.users = DOMAIN accDisk.users \cup {u} /\ accDisk'.users # Acct!None
  <2>1. DOMAIN Acct!With(accDisk.users, u, user) = DOMAIN accDisk.users \cup {u}
    BY DEF Acct!With
  <2>2. Acct!With(accDisk.users, u, user) # Acct!None
    BY WithIsSome
  <2> QED
    BY <2>1, <2>2
<1>5. DOMAIN accMem.users \subseteq DOMAIN accDisk.users
  BY <1>1 DEF AccountsInv, FilesAgree
<1>6. ~acSeen.half => Acct!Loaded(accDisk') = Acct!WithUser(accMem, u, user)
  <2> SUFFICES ASSUME ~acSeen.half PROVE Acct!Loaded(accDisk') = Acct!WithUser(accMem, u, user)
    OBVIOUS
  <2>1. /\ accDisk.system /\ Acct!Valid(accDisk) /\ accDisk.users = accMem.users /\ accDisk.roles = accMem.roles
    BY <1>1, ReadyIsLoaded
  <2>2. Acct!Valid(accDisk')
    BY <1>1, <2>1, ValidWithUser DEF Editable
  <2> QED
    BY <1>3a, <2>1, <2>2, LoadedIsRight
<1>7. CASE accMem' = Acct!WithUser(accMem, u, user)
  BY <1>3a, <1>4, <1>5, <1>6, <1>7 DEF FilesAgree, Acct!AdminRemains, Acct!Restartable, Editable
<1>8. CASE accMem' = Acct!Loaded(accDisk')
  <2>1. accMem' \in Service /\ Acct!AdminRemains' /\ Acct!Restartable'
    BY <1>8, LoadedIsRight DEF Acct!AdminRemains, Acct!Restartable
  <2>2. FilesAgree'
    BY <1>4, <1>8, LoadedIsRight DEF FilesAgree
  <2> QED
    BY <1>3a, <1>8, <2>1, <2>2
<1> QED
  BY <1>7, <1>8

\* Everything a user has stays, his version and the duty to change his password apart.
LEMMA OwnEdit ==
  ASSUME AccountsInv, accMem.state = "ready", NEW u \in DOMAIN accMem.users, NEW user \in User,
         user.name = accMem.users[u].name, user.roles = accMem.users[u].roles, user.status = accMem.users[u].status
  PROVE  Editable(u, user)
<1>1. accMem.users \in UserRecords /\ u \in Ids /\ accMem \in Service /\ Acct!ActiveAdmin(accMem.users)
  BY DEF AccountsInv, TypeInv, Service, UserRecords, Acct!AdminRemains
<1>2. Acct!ActiveAdmin(Acct!With(accMem.users, u, user))
  <2>0. /\ DOMAIN Acct!With(accMem.users, u, user) = DOMAIN accMem.users \cup {u}
        /\ Acct!With(accMem.users, u, user)[u] = user
        /\ \A j \in DOMAIN accMem.users : j # u => Acct!With(accMem.users, u, user)[j] = accMem.users[j]
    BY DEF Acct!With
  <2>1. PICK w \in DOMAIN accMem.users : accMem.users[w].status = "active" /\ "admin" \in accMem.users[w].roles
    BY <1>1 DEF Acct!ActiveAdmin
  <2>2. Acct!With(accMem.users, u, user)[w].status = "active" /\ "admin" \in Acct!With(accMem.users, u, user)[w].roles
    BY <2>0, <2>1
  <2>3. w \in DOMAIN Acct!With(accMem.users, u, user)
    BY <2>0, <2>1
  <2> QED
    BY <2>2, <2>3 DEF Acct!ActiveAdmin
<1>3. ~acSeen.half => Acct!Valid(accDisk) /\ accDisk.users = accMem.users /\ accDisk.roles = accMem.roles
  BY ReadyIsLoaded
<1> QED
  BY <1>1, <1>2, <1>3 DEF Editable, Acct!Valid

\* A user whom the service knows.
LEMMA UserTyped ==
  ASSUME AccountsInv, NEW u \in DOMAIN accMem.users
  PROVE  u \in Ids /\ accMem.users[u] \in User
BY DEF AccountsInv, TypeInv, Service, UserRecords

\* The same of the roles: those that somebody has stay.
LEMMA RolesKeep ==
  ASSUME AccountsInv, NEW dr, NEW mr, dr \in RoleRecords, mr \in RoleRecords, accMem.state = "ready",
         accDisk.roles = accMem.roles => dr = mr,
         \A u \in DOMAIN accMem.users : accMem.users[u].roles \cap DOMAIN accMem.roles \subseteq DOMAIN mr,
         accDisk' = [accDisk EXCEPT !.roles = dr], acSeen'.half = acSeen.half,
         accMem' = [accMem EXCEPT !.roles = mr] \/ accMem' = Acct!Loaded(accDisk')
  PROVE  /\ accDisk' \in Files /\ accMem' \in Service /\ FilesAgree' /\ Acct!AdminRemains' /\ Acct!Restartable'
         /\ accMem' = [accMem EXCEPT !.roles = mr] => accMem'.state = "ready" /\ accMem'.users = accMem.users
<1>1. accMem \in Service /\ accDisk \in Files
  BY DEF AccountsInv, TypeInv
<1>2. /\ accDisk' \in Files
      /\ accDisk'.users = accDisk.users /\ accDisk'.system = accDisk.system /\ accDisk'.builtin = accDisk.builtin
      /\ accDisk'.roles = dr
  BY <1>1 DEF Files
<1>3. /\ [accMem EXCEPT !.roles = mr] \in Service
      /\ [accMem EXCEPT !.roles = mr] = [state |-> "ready", users |-> accMem.users, roles |-> mr]
  BY <1>1 DEF Service
<1>4. ~acSeen.half => Acct!Loaded(accDisk') = [accMem EXCEPT !.roles = mr]
  <2> SUFFICES ASSUME ~acSeen.half PROVE Acct!Loaded(accDisk') = [accMem EXCEPT !.roles = mr]
    OBVIOUS
  <2>1. /\ accDisk.system /\ Acct!Valid(accDisk) /\ accDisk.users = accMem.users /\ accDisk.roles = accMem.roles
    BY <1>1, ReadyIsLoaded
  <2>2. \A u \in DOMAIN accDisk'.users : accDisk'.users[u].status # "deleted" =>
          /\ accDisk'.users[u].roles # {}
          /\ accDisk'.users[u].roles \subseteq {"admin", "member"} \cup DOMAIN accDisk'.roles
    BY <1>2, <2>1 DEF Acct!Valid
  <2>3. Acct!Valid(accDisk')
    BY <1>2, <2>1, <2>2 DEF Acct!Valid
  <2>4. Acct!Loaded(accDisk') = [state |-> "ready", users |-> accDisk'.users, roles |-> accDisk'.roles]
    BY <1>2, <2>1, <2>3, LoadedIsRight
  <2> QED
    BY <1>2, <1>3, <2>1, <2>4
<1>5. CASE accMem' = [accMem EXCEPT !.roles = mr]
  BY <1>1, <1>2, <1>3, <1>4, <1>5 DEF FilesAgree, Acct!AdminRemains, Acct!Restartable, AccountsInv
<1>6. CASE accMem' = Acct!Loaded(accDisk')
  <2>1. accMem' \in Service /\ Acct!AdminRemains' /\ Acct!Restartable'
    BY <1>2, <1>6, LoadedIsRight DEF Acct!AdminRemains, Acct!Restartable
  <2>2. FilesAgree'
    BY <1>2, <1>6, LoadedIsRight DEF FilesAgree
  <2> QED
    BY <1>2, <1>3, <1>6, <2>1, <2>2
<1> QED
  BY <1>5, <1>6

-----------------------------------------------------------------------------
\* A browser without a request.
LEMMA RequestTyped == Acct!NoRequest \in Request
BY NoRecords DEF Acct!NoRequest, Request

\* When a request is answered the others stay those of known users.
LEMMA AnsweredKeeps ==
  ASSUME AccountsInv, NEW c \in Clients, browser' = Acct!Answered(c),
         accMem.state = "ready", accMem'.state = "ready", DOMAIN accMem.users \subseteq DOMAIN accMem'.users
  PROVE  browser' \in [Clients -> Browser] /\ RequestInv'
<1>1. browser \in [Clients -> Browser]
  BY DEF AccountsInv, TypeInv
<1>2. \A b \in Browser : [b EXCEPT !.req = Acct!NoRequest] \in Browser /\ [b EXCEPT !.req = Acct!NoRequest].req = Acct!NoRequest
  BY RequestTyped DEF Browser
<1>3. browser' = [browser EXCEPT ![c] = [browser[c] EXCEPT !.req = Acct!NoRequest]]
  BY <1>1 DEF Acct!Answered
<1>4. browser' \in [Clients -> Browser]
  BY <1>1, <1>2, <1>3
<1>5. \A d \in Clients : browser'[d].req # Acct!NoRequest => browser'[d] = browser[d]
  BY <1>1, <1>2, <1>3
<1> QED
  BY <1>4, <1>5 DEF AccountsInv, RequestInv

\* When the process dies there are no requests.
LEMMA AllDroppedKeeps ==
  ASSUME AccountsInv, browser' = Acct!AllDropped
  PROVE  browser' \in [Clients -> Browser] /\ RequestInv'
<1>1. browser \in [Clients -> Browser]
  BY DEF AccountsInv, TypeInv
<1>2. \A b \in Browser : [b EXCEPT !.req = Acct!NoRequest] \in Browser /\ [b EXCEPT !.req = Acct!NoRequest].req = Acct!NoRequest
  BY RequestTyped DEF Browser
<1> QED
  BY <1>1, <1>2 DEF Acct!AllDropped, RequestInv

\* The counts of a step that revokes nothing.
LEMMA SeenTyped ==
  ASSUME AccountsInv
  PROVE  /\ Acct!Changed \in AccountsSeen /\ Acct!Changed.half = acSeen.half
         /\ Acct!Changed.done = acSeen.done /\ Acct!Changed.epoch = acSeen.epoch
         /\ Acct!Faulty(acSeen) \in AccountsSeen /\ Acct!Faulty(acSeen).half = acSeen.half
         /\ Acct!Faulty(acSeen).done = acSeen.done /\ Acct!Faulty(acSeen).epoch = acSeen.epoch
         /\ Acct!Faulty(Acct!Changed) \in AccountsSeen /\ Acct!Faulty(Acct!Changed).half = acSeen.half
         /\ Acct!Faulty(Acct!Changed).done = acSeen.done /\ Acct!Faulty(Acct!Changed).epoch = acSeen.epoch
<1>1. acSeen \in AccountsSeen
  BY DEF AccountsInv, TypeInv
<1>2. /\ Acct!Changed \in AccountsSeen /\ Acct!Changed.half = acSeen.half
      /\ Acct!Changed.done = acSeen.done /\ Acct!Changed.epoch = acSeen.epoch
  BY <1>1 DEF AccountsSeen, Acct!Changed
<1>3. \A s \in AccountsSeen : /\ Acct!Faulty(s) \in AccountsSeen /\ Acct!Faulty(s).half = s.half
                              /\ Acct!Faulty(s).done = s.done /\ Acct!Faulty(s).epoch = s.epoch
  BY DEF AccountsSeen, Acct!Faulty
<1> QED
  BY <1>1, <1>2, <1>3

\* A step that revokes nothing and adds no session.
LEMMA RevokeKept ==
  ASSUME AccountsInv, acSeen'.done = acSeen.done, acSeen'.epoch = acSeen.epoch,
         accDisk'.sessions \subseteq accDisk.sessions
  PROVE  RevokeInv'
BY DEF AccountsInv, RevokeInv, Acct!RevokedStaysOut

\* What saving a user changes in the files.
LEMMA WithUserFiles ==
  ASSUME NEW d \in Files, NEW u \in Ids, NEW user \in User
  PROVE  /\ Acct!WithUser(d, u, user) \in Files
         /\ Acct!WithUser(d, u, user).users = Acct!With(d.users, u, user)
         /\ Acct!WithUser(d, u, user).system = d.system /\ Acct!WithUser(d, u, user).builtin = d.builtin
         /\ Acct!WithUser(d, u, user).roles = d.roles /\ Acct!WithUser(d, u, user).sessions = d.sessions
<1>1. Acct!WithUser(d, u, user) = [d EXCEPT !.users = Acct!With(d.users, u, user)]
  BY DEF Acct!WithUser
<1>2. Acct!With(d.users, u, user) \in UserRecords
  BY WithUserTyped DEF Files
<1> QED
  BY <1>1, <1>2 DEF Files

\* An edit without a revocation, whoever asks and whatever of it fails.
LEMMA SaveKeeps ==
  ASSUME AccountsInv, NEW c \in Clients, NEW u, NEW user, Editable(u, user), Acct!Save(c, u, user)
  PROVE  AccountsInv'
<1>1. accDisk \in Files /\ u \in Ids /\ user \in User /\ accMem.state = "ready" /\ accMem \in Service
  BY DEF AccountsInv, TypeInv, Editable
<1>2. CASE accDisk' = Acct!WithUser(accDisk, u, user) /\ acSeen' \in {Acct!Changed, Acct!Faulty(Acct!Changed)}
           /\ \/ accMem' = Acct!WithUser(accMem, u, user) /\ browser' = Acct!Answered(c)
              \/ accMem' = Acct!Loaded(accDisk') /\ browser' = Acct!AllDropped
  <2>1. /\ accDisk' \in Files /\ accDisk'.users = Acct!With(accDisk.users, u, user)
        /\ accDisk'.system = accDisk.system /\ accDisk'.builtin = accDisk.builtin
        /\ accDisk'.roles = accDisk.roles /\ accDisk'.sessions = accDisk.sessions
    BY <1>1, <1>2, WithUserFiles
  <2>2. /\ acSeen' \in AccountsSeen /\ acSeen'.half = acSeen.half
        /\ acSeen'.done = acSeen.done /\ acSeen'.epoch = acSeen.epoch
    BY <1>2, SeenTyped
  <2>3. /\ accMem' \in Service /\ FilesAgree' /\ Acct!AdminRemains' /\ Acct!Restartable'
        /\ accMem' = Acct!WithUser(accMem, u, user) =>
             accMem'.state = "ready" /\ DOMAIN accMem.users \subseteq DOMAIN accMem'.users
    BY <1>2, <2>1, <2>2, EditKeeps
  <2>4. browser' \in [Clients -> Browser] /\ RequestInv'
    BY <1>1, <1>2, <2>3, AnsweredKeeps, AllDroppedKeeps
  <2>5. RevokeInv'
    BY <2>1, <2>2, RevokeKept
  <2> QED
    BY <2>1, <2>2, <2>3, <2>4, <2>5 DEF AccountsInv, TypeInv
<1>3. CASE UNCHANGED <<accDisk, accMem>> /\ browser' = Acct!Answered(c) /\ acSeen' = Acct!Faulty(Acct!Changed)
  <2>1. /\ acSeen' \in AccountsSeen /\ acSeen'.half = acSeen.half
        /\ acSeen'.done = acSeen.done /\ acSeen'.epoch = acSeen.epoch
    BY <1>3, SeenTyped
  <2>2. browser' \in [Clients -> Browser] /\ RequestInv'
    BY <1>1, <1>3, AnsweredKeeps
  <2>3. RevokeInv'
    BY <1>3, <2>1, RevokeKept
  <2> QED
    BY <1>3, <2>1, <2>2, <2>3 DEF AccountsInv, TypeInv, FilesAgree, Acct!AdminRemains, Acct!Restartable
<1> QED
  BY <1>2, <1>3 DEF Acct!Save

\* What is revoked: all of a user's sessions, or some of them before a failure.
Begun(u) == [Acct!Changed EXCEPT !.epoch[u] = @ + 1]

\* The counts when a revocation begins.
LEMMA BegunTyped ==
  ASSUME AccountsInv, NEW u \in Ids
  PROVE  /\ Begun(u) \in AccountsSeen /\ Begun(u).half = acSeen.half /\ Begun(u).done = acSeen.done
         /\ Begun(u).epoch = [acSeen.epoch EXCEPT ![u] = @ + 1]
         /\ Acct!Faulty(Begun(u)) \in AccountsSeen /\ Acct!Faulty(Begun(u)).half = acSeen.half
         /\ Acct!Faulty(Begun(u)).done = acSeen.done /\ Acct!Faulty(Begun(u)).epoch = Begun(u).epoch
<1>1. Acct!Changed \in AccountsSeen /\ Acct!Changed.half = acSeen.half
      /\ Acct!Changed.done = acSeen.done /\ Acct!Changed.epoch = acSeen.epoch
  BY SeenTyped
<1>2. [acSeen.epoch EXCEPT ![u] = @ + 1] \in [Ids -> Nat]
  BY DEF AccountsInv, TypeInv, AccountsSeen
<1>3. Begun(u) = [Acct!Changed EXCEPT !.epoch = [acSeen.epoch EXCEPT ![u] = @ + 1]]
  BY <1>1 DEF Begun, AccountsSeen
<1>4. /\ Begun(u) \in AccountsSeen /\ Begun(u).half = acSeen.half /\ Begun(u).done = acSeen.done
      /\ Begun(u).epoch = [acSeen.epoch EXCEPT ![u] = @ + 1]
  BY <1>1, <1>2, <1>3 DEF AccountsSeen
<1>5. \A s \in AccountsSeen : /\ Acct!Faulty(s) \in AccountsSeen /\ Acct!Faulty(s).half = s.half
                              /\ Acct!Faulty(s).done = s.done /\ Acct!Faulty(s).epoch = s.epoch
  BY DEF AccountsSeen, Acct!Faulty
<1> QED
  BY <1>4, <1>5

\* A revocation that begins and is not reported as done.
LEMMA RevokesSome ==
  ASSUME AccountsInv, NEW u \in Ids, acSeen'.done = acSeen.done, acSeen'.epoch = Begun(u).epoch,
         accDisk'.sessions \subseteq accDisk.sessions
  PROVE  RevokeInv'
<1>1. acSeen'.epoch = [acSeen.epoch EXCEPT ![u] = @ + 1]
  BY BegunTyped
<1> QED
  BY <1>1 DEF AccountsInv, TypeInv, AccountsSeen, RevokeInv, Acct!RevokedStaysOut

\* When it is done every session that is left was begun after the last revocation.
LEMMA RevokesAll ==
  ASSUME AccountsInv, NEW u \in Ids, acSeen'.done = [acSeen.done EXCEPT ![u] = Begun(u).epoch[u]],
         acSeen'.epoch = Begun(u).epoch,
         \A s \in accDisk'.sessions : s \in accDisk.sessions \ Acct!Of(u) \/ (s.user = u /\ s.epoch = Begun(u).epoch[u])
  PROVE  RevokeInv'
<1>1. acSeen'.epoch = [acSeen.epoch EXCEPT ![u] = @ + 1]
  BY BegunTyped
<1>2. /\ acSeen.epoch \in [Ids -> Nat] /\ acSeen.done \in [Ids -> Nat]
      /\ accDisk.sessions \subseteq SessionRecord
  BY DEF AccountsInv, TypeInv, AccountsSeen, Files
<1>3. Begun(u).epoch[u] = acSeen.epoch[u] + 1
  BY <1>1, <1>2
<1>4. \A w \in Ids : acSeen'.done[w] = IF w = u THEN acSeen.epoch[u] + 1 ELSE acSeen.done[w]
  BY <1>2, <1>3
<1>5. \A w \in Ids : acSeen'.done[w] <= acSeen'.epoch[w]
  BY <1>1, <1>2, <1>4 DEF AccountsInv, RevokeInv
<1>6. ASSUME NEW s \in accDisk'.sessions PROVE s.epoch >= acSeen'.done[s.user]
  <2>1. CASE s \in accDisk.sessions \ Acct!Of(u)
    <3>1. s.user \in Ids /\ s.user # u /\ s.epoch >= acSeen.done[s.user]
      BY <1>2, <2>1 DEF Acct!Of, SessionRecord, AccountsInv, RevokeInv, Acct!RevokedStaysOut
    <3> QED
      BY <1>4, <3>1
  <2>2. CASE s.user = u /\ s.epoch = Begun(u).epoch[u]
    BY <1>2, <1>3, <1>4, <2>2
  <2> QED
    BY <2>1, <2>2
<1> QED
  BY <1>5, <1>6 DEF RevokeInv, Acct!RevokedStaysOut

\* An edit with a revocation, whoever asks.
LEMMA RevokingKeeps ==
  ASSUME AccountsInv, NEW c \in Clients, NEW u, NEW user, Editable(u, user), NEW S, S \subseteq SessionRecord,
         accDisk' = [Acct!WithUser(accDisk, u, user) EXCEPT !.sessions = S],
         acSeen' \in AccountsSeen, acSeen'.half = acSeen.half, RevokeInv',
         \/ accMem' = Acct!WithUser(accMem, u, user) /\ browser' = Acct!Answered(c)
         \/ accMem' = Acct!Loaded(accDisk') /\ browser' = Acct!AllDropped
  PROVE  AccountsInv'
<1>1. accDisk \in Files /\ u \in Ids /\ user \in User /\ accMem.state = "ready" /\ accMem \in Service
  BY DEF AccountsInv, TypeInv, Editable
<1>2. /\ accDisk' \in Files /\ accDisk'.users = Acct!With(accDisk.users, u, user)
      /\ accDisk'.system = accDisk.system /\ accDisk'.builtin = accDisk.builtin
      /\ accDisk'.roles = accDisk.roles
  <2>1. \A d \in Files : LET e == [d EXCEPT !.sessions = S] IN
           /\ e \in Files /\ e.users = d.users /\ e.system = d.system /\ e.builtin = d.builtin
           /\ e.roles = d.roles
    BY DEF Files
  <2> QED
    BY <1>1, <2>1, WithUserFiles
<1>3. /\ accMem' \in Service /\ FilesAgree' /\ Acct!AdminRemains' /\ Acct!Restartable'
      /\ accMem' = Acct!WithUser(accMem, u, user) =>
           accMem'.state = "ready" /\ DOMAIN accMem.users \subseteq DOMAIN accMem'.users
  BY <1>2, EditKeeps
<1>4. browser' \in [Clients -> Browser] /\ RequestInv'
  BY <1>1, <1>3, AnsweredKeeps, AllDroppedKeeps
<1> QED
  BY <1>2, <1>3, <1>4 DEF AccountsInv, TypeInv

\* The same, session files and process failing where they may.
LEMMA SaveAndRevokeKeeps ==
  ASSUME AccountsInv, NEW c \in Clients, NEW u, NEW user, Editable(u, user), Acct!SaveAndRevoke(c, u, user)
  PROVE  AccountsInv'
<1>1. /\ accDisk \in Files /\ u \in Ids /\ user \in User /\ accMem.state = "ready"
      /\ accDisk.sessions \subseteq SessionRecord /\ Acct!WithUser(accDisk, u, user).sessions = accDisk.sessions
  BY WithUserFiles DEF AccountsInv, TypeInv, Editable, Files
<1>2. /\ Begun(u) \in AccountsSeen /\ Begun(u).half = acSeen.half /\ Begun(u).done = acSeen.done
      /\ Acct!Faulty(Begun(u)) \in AccountsSeen /\ Acct!Faulty(Begun(u)).half = acSeen.half
      /\ Acct!Faulty(Begun(u)).done = acSeen.done /\ Acct!Faulty(Begun(u)).epoch = Begun(u).epoch
      /\ Begun(u).epoch \in [Ids -> Nat]
  BY <1>1, BegunTyped DEF AccountsSeen
<1> DEFINE Left(kept) == (accDisk.sessions \ Acct!Of(u)) \cup kept
           Saved(kept) == [Acct!WithUser(accDisk, u, user) EXCEPT !.sessions = Left(kept)]
<1>3. \A kept \in SUBSET Acct!Of(u) : Left(kept) \subseteq accDisk.sessions
  BY DEF Acct!Of
<1>4. \A kept : Saved(kept).sessions = Left(kept)
  <2>1. Acct!WithUser(accDisk, u, user) \in Files
    BY <1>1, WithUserFiles
  <2> QED
    BY <2>1 DEF Files
<1>5. \A kept : [Acct!WithUser(accDisk, u, user) EXCEPT !.sessions = (@ \ Acct!Of(u)) \cup kept] = Saved(kept)
  BY <1>1
<1> HIDE DEF Left, Saved
<1>6. CASE /\ accDisk' = Saved({})
           /\ accMem' = Acct!WithUser(accMem, u, user)
           /\ browser' = Acct!Answered(c)
           /\ acSeen' = [Begun(u) EXCEPT !.done[u] = Begun(u).epoch[u]]
  <2>1. /\ acSeen' \in AccountsSeen /\ acSeen'.half = acSeen.half /\ acSeen'.epoch = Begun(u).epoch
        /\ acSeen'.done = [acSeen.done EXCEPT ![u] = Begun(u).epoch[u]]
    BY <1>1, <1>2, <1>6 DEF AccountsSeen
  <2>2. accDisk'.sessions = accDisk.sessions \ Acct!Of(u)
    BY <1>4, <1>6 DEF Left
  <2>3. \A s \in accDisk'.sessions :
          s \in accDisk.sessions \ Acct!Of(u) \/ (s.user = u /\ s.epoch = Begun(u).epoch[u])
    BY <2>2
  <2>5. RevokeInv'
    BY <1>1, <2>1, <2>3, RevokesAll
  <2>4. Left({}) \subseteq SessionRecord
    BY <1>1 DEF Left
  <2> QED
    BY <1>6, <2>1, <2>4, <2>5, RevokingKeeps DEF Saved
<1>7. ASSUME NEW kept \in SUBSET Acct!Of(u), accDisk' = Saved(kept), acSeen' = Acct!Faulty(Begun(u)),
             \/ accMem' = Acct!WithUser(accMem, u, user) /\ browser' = Acct!Answered(c)
             \/ accMem' = Acct!Loaded(accDisk') /\ browser' = Acct!AllDropped
      PROVE  AccountsInv'
  <2>1. Left(kept) \subseteq SessionRecord /\ accDisk'.sessions \subseteq accDisk.sessions
    BY <1>1, <1>3, <1>4, <1>7
  <2>2. RevokeInv'
    BY <1>1, <1>2, <1>7, <2>1, RevokesSome
  <2> QED
    BY <1>2, <1>7, <2>1, <2>2, RevokingKeeps DEF Saved
<1>8. CASE UNCHANGED <<accDisk, accMem>> /\ browser' = Acct!Answered(c) /\ acSeen' = Acct!Faulty(Begun(u))
  <2>1. browser' \in [Clients -> Browser] /\ RequestInv'
    BY <1>1, <1>8, AnsweredKeeps
  <2>2. RevokeInv'
    BY <1>1, <1>2, <1>8, RevokesSome
  <2> QED
    BY <1>2, <1>8, <2>1, <2>2 DEF AccountsInv, TypeInv, FilesAgree, Acct!AdminRemains, Acct!Restartable
<1>9. \/ /\ accDisk' = Saved({}) /\ accMem' = Acct!WithUser(accMem, u, user) /\ browser' = Acct!Answered(c)
         /\ acSeen' = [Begun(u) EXCEPT !.done[u] = Begun(u).epoch[u]]
      \/ UNCHANGED <<accDisk, accMem>> /\ browser' = Acct!Answered(c) /\ acSeen' = Acct!Faulty(Begun(u))
      \/ \E kept \in SUBSET Acct!Of(u) :
            /\ accDisk' = Saved(kept) /\ acSeen' = Acct!Faulty(Begun(u))
            /\ \/ accMem' = Acct!WithUser(accMem, u, user) /\ browser' = Acct!Answered(c)
               \/ accMem' = Acct!Loaded(accDisk') /\ browser' = Acct!AllDropped
  BY <1>5 DEF Acct!SaveAndRevoke, Begun
<1> QED
  BY <1>6, <1>7, <1>8, <1>9

-----------------------------------------------------------------------------
\* Whatever the files hold at first.
LEMMA AccountsInitInv ==
  ASSUME AccountsAssumption, Acct!Init
  PROVE  AccountsInv
<1>1. accDisk \in Files /\ accMem = Acct!Loaded(accDisk)
  BY DEF AccountsAssumption, Acct!Init
<1>2. browser \in [Clients -> Browser] /\ RequestInv
  BY RequestTyped DEF Acct!Init, Browser, RequestInv
<1>3. acSeen \in AccountsSeen
  BY DEF Acct!Init, AccountsSeen
<1>4. FilesAgree /\ Acct!AdminRemains /\ Acct!Restartable
  BY <1>1, LoadedIsRight DEF FilesAgree, Acct!AdminRemains, Acct!Restartable
<1>5. RevokeInv
  BY <1>1 DEF Acct!Init, RevokeInv, Acct!RevokedStaysOut, Files, SessionRecord
<1> QED
  BY <1>1, <1>2, <1>3, <1>4, <1>5, LoadedIsRight DEF AccountsInv, TypeInv

\* A request that is under way was made by a user the service knows.
LEMMA AsksKnown ==
  ASSUME AccountsInv, NEW c \in Clients, Acct!Asks(c)
  PROVE  accMem.state = "ready" /\ browser[c].req.user \in DOMAIN accMem.users /\ browser[c].req \in Request
BY DEF Acct!Asks, AccountsInv, RequestInv, TypeInv, Browser

\* A version that is counted up changes nothing else.
LEMMA BumpedTyped ==
  ASSUME NEW user \in User
  PROVE  /\ Acct!Bumped(user) \in User /\ Acct!Bumped(user).name = user.name
         /\ Acct!Bumped(user).roles = user.roles /\ Acct!Bumped(user).status = user.status
BY DEF Acct!Bumped, User

\* A new user has a name of his own, which the service looks for in memory.
LEMMA CreateUserInv ==
  ASSUME AccountsAssumption, AccountsInv, NEW c \in Clients, NEW name \in Usernames, NEW roles \in Acct!RoleSets,
         Acct!CreateUser(c, name, roles)
  PROVE  AccountsInv'
<1> DEFINE u == Acct!NewId(accDisk.users)
           user == Acct!NewUser(name, roles, TRUE)
<1>1. accMem.state = "ready" /\ ~Acct!NameTaken(name, 0) /\ roles \subseteq {"admin", "member"} \cup DOMAIN accMem.roles
      /\ Acct!Save(c, u, user)
  BY AsksKnown DEF Acct!CreateUser, Acct!AsksToManage
<1>2. u \in Ids /\ u \notin DOMAIN accDisk.users /\ u \notin DOMAIN accMem.users
  BY <1>1, NewIdFresh DEF Acct!CreateUser, AccountsInv, FilesAgree
<1>3. user \in User /\ user.name = name /\ user.roles = roles /\ roles # {}
  BY DEF Acct!NewUser, User, Acct!RoleSets, Roles
<1>4. Acct!ActiveAdmin(Acct!With(accMem.users, u, user))
  <2>1. PICK w \in DOMAIN accMem.users : accMem.users[w].status = "active" /\ "admin" \in accMem.users[w].roles
    BY <1>1 DEF AccountsInv, Acct!AdminRemains, Acct!ActiveAdmin
  <2>2. w \in DOMAIN Acct!With(accMem.users, u, user) /\ Acct!With(accMem.users, u, user)[w] = accMem.users[w]
    BY <1>2, <2>1 DEF Acct!With
  <2> QED
    BY <2>1, <2>2 DEF Acct!ActiveAdmin
<1>5. \A w \in DOMAIN accMem.users : accMem.users[w].name # name
  BY <1>1, UserTyped DEF Acct!NameTaken, AccountsAssumption
<1>6. Editable(u, user)
  BY <1>1, <1>2, <1>3, <1>4, <1>5 DEF Editable
<1> QED
  BY <1>1, <1>6, SaveKeeps

\* An edit by an administrator of somebody he has seen.
LEMMA ManagedEdit ==
  ASSUME AccountsInv, accMem.state = "ready", NEW u \in DOMAIN accMem.users, accMem.users[u].status # "deleted",
         NEW user \in User, Acct!AdminStays(u, user), user.name = accMem.users[u].name,
         user.status # "deleted" => /\ user.roles # {}
                                    /\ user.roles \subseteq {"admin", "member"} \cup DOMAIN accMem.roles
  PROVE  Editable(u, user)
<1>1. u \in Ids
  BY UserTyped
<1>2. ~acSeen.half => Acct!Valid(accDisk) /\ accDisk.users = accMem.users
  BY ReadyIsLoaded
<1> QED
  BY <1>1, <1>2 DEF Editable, Acct!AdminStays, Acct!Valid

\* An edit that would leave no active administrator is refused.
LEMMA UpdateUserInv ==
  ASSUME AccountsInv, NEW c \in Clients, NEW u \in DOMAIN accMem.users, NEW roles, NEW status,
         \/ roles \in Acct!RoleSets /\ status = accMem.users[u].status
         \/ roles = accMem.users[u].roles /\ status \in {"active", "disabled", "deleted"},
         Acct!UpdateUser(c, u, roles, status)
  PROVE  AccountsInv'
<1> DEFINE user == Acct!Bumped([accMem.users[u] EXCEPT !.roles = roles, !.status = status])
<1>1. /\ accMem.state = "ready" /\ accMem.users[u] \in User /\ accMem.users[u].status # "deleted"
      /\ roles \subseteq {"admin", "member"} \cup DOMAIN accMem.roles /\ Acct!AdminStays(u, user)
      /\ Acct!SaveAndRevoke(c, u, user) \/ Acct!Save(c, u, user)
  BY AsksKnown, UserTyped DEF Acct!UpdateUser, Acct!AsksToManage
<1>2. /\ user \in User /\ user.name = accMem.users[u].name /\ user.roles = roles
      /\ user.status = status
  <2>1. roles \in SUBSET Roles /\ status \in {"active", "disabled", "deleted"}
    BY <1>1 DEF Acct!RoleSets, Roles, User
  <2>2. LET edited == [accMem.users[u] EXCEPT !.roles = roles, !.status = status]
        IN  edited \in User /\ edited.name = accMem.users[u].name /\ edited.roles = roles
            /\ edited.status = status
    BY <1>1, <2>1 DEF User
  <2> QED
    BY <2>2, BumpedTyped
<1> HIDE DEF user
<1>3. CASE roles # {}
  <2>1. Editable(u, user)
    BY <1>1, <1>2, <1>3, ManagedEdit
  <2> QED
    BY <1>1, <2>1, SaveKeeps, SaveAndRevokeKeeps
<1>4. CASE roles = {}
  <2>1. roles = accMem.users[u].roles
    BY <1>4 DEF Acct!RoleSets
  <2>2. acSeen.half
    BY <1>1, <1>4, <2>1, ReadyIsLoaded DEF Acct!Valid
  <2>3. Editable(u, user)
    BY <1>1, <1>2, <2>2, UserTyped DEF Editable, Acct!AdminStays
  <2> QED
    BY <1>1, <2>3, SaveKeeps, SaveAndRevokeKeeps
<1> QED
  BY <1>3, <1>4

\* A deletion is refused likewise.
LEMMA DeleteUserInv ==
  ASSUME AccountsInv, NEW c \in Clients, NEW u \in DOMAIN accMem.users, Acct!DeleteUser(c, u)
  PROVE  AccountsInv'
<1> DEFINE edited == [accMem.users[u] EXCEPT !.status = "deleted", !.roles = {}]
           user == Acct!Bumped(edited)
<1>1. /\ accMem.state = "ready" /\ accMem.users[u] \in User /\ accMem.users[u].status # "deleted"
      /\ Acct!AdminStays(u, user) /\ Acct!SaveAndRevoke(c, u, user)
  BY AsksKnown, UserTyped DEF Acct!DeleteUser, Acct!AsksToManage
<1>2. edited \in User /\ edited.name = accMem.users[u].name /\ edited.status = "deleted"
  BY <1>1 DEF User
<1>3. user \in User /\ user.name = accMem.users[u].name /\ user.status = "deleted"
  BY <1>2, BumpedTyped
<1> HIDE DEF user
<1>4. Editable(u, user)
  BY <1>1, <1>3, ManagedEdit
<1> QED
  BY <1>1, <1>4, SaveAndRevokeKeeps

\* What may change of a user without his roles and status.
LEMMA OwnEdits ==
  ASSUME AccountsInv, accMem.state = "ready", NEW u \in DOMAIN accMem.users, NEW must \in BOOLEAN
  PROVE  /\ Editable(u, Acct!Bumped([accMem.users[u] EXCEPT !.must = must]))
         /\ Editable(u, Acct!Bumped(accMem.users[u]))
<1> DEFINE edited == [accMem.users[u] EXCEPT !.must = must]
<1>1. accMem.users[u] \in User
  BY UserTyped
<1>2. /\ edited \in User /\ edited.name = accMem.users[u].name /\ edited.roles = accMem.users[u].roles
      /\ edited.status = accMem.users[u].status
  BY <1>1 DEF User
<1>3. /\ Acct!Bumped(edited) \in User /\ Acct!Bumped(edited).name = accMem.users[u].name
      /\ Acct!Bumped(edited).roles = accMem.users[u].roles /\ Acct!Bumped(edited).status = accMem.users[u].status
  BY <1>2, BumpedTyped
<1>4. /\ Acct!Bumped(accMem.users[u]) \in User /\ Acct!Bumped(accMem.users[u]).name = accMem.users[u].name
      /\ Acct!Bumped(accMem.users[u]).roles = accMem.users[u].roles
      /\ Acct!Bumped(accMem.users[u]).status = accMem.users[u].status
  BY <1>1, BumpedTyped
<1> QED
  BY <1>3, <1>4, OwnEdit

\* An administrator resets a password; and a user changes his own record:
LEMMA ResetPasswordInv ==
  ASSUME AccountsInv, NEW c \in Clients, NEW u \in DOMAIN accMem.users, Acct!ResetPassword(c, u)
  PROVE  AccountsInv'
<1>1. accMem.state = "ready" /\ Acct!SaveAndRevoke(c, u, Acct!Bumped([accMem.users[u] EXCEPT !.must = TRUE]))
  BY AsksKnown DEF Acct!ResetPassword, Acct!AsksToManage
<1> QED
  BY <1>1, OwnEdits, SaveAndRevokeKeeps

\* his version is not compared, the record is read and saved under one lock.
LEMMA UpdateProfileInv ==
  ASSUME AccountsInv, NEW c \in Clients, Acct!UpdateProfile(c)
  PROVE  AccountsInv'
<1>1. /\ accMem.state = "ready" /\ browser[c].req.user \in DOMAIN accMem.users
      /\ Acct!Save(c, browser[c].req.user, Acct!Bumped(accMem.users[browser[c].req.user]))
  BY AsksKnown DEF Acct!UpdateProfile
<1> QED
  BY <1>1, OwnEdits, SaveKeeps

\* A user's cookie is replaced, and his request answered.
LEMMA CookieKeeps ==
  ASSUME AccountsInv, NEW c \in Clients, NEW token \in Nat,
         browser' = [browser EXCEPT ![c] = [cookie |-> token, req |-> Acct!NoRequest]],
         accMem.state = "ready", accMem'.state = "ready", DOMAIN accMem.users \subseteq DOMAIN accMem'.users
  PROVE  browser' \in [Clients -> Browser] /\ RequestInv'
<1>1. browser \in [Clients -> Browser]
  BY DEF AccountsInv, TypeInv
<1>2. [cookie |-> token, req |-> Acct!NoRequest] \in Browser
  BY RequestTyped DEF Browser
<1>3. browser' \in [Clients -> Browser]
  BY <1>1, <1>2
<1>4. \A d \in Clients : browser'[d].req # Acct!NoRequest => browser'[d] = browser[d]
  BY <1>1
<1> QED
  BY <1>3, <1>4 DEF AccountsInv, RequestInv

\* A new session of the user himself is begun after the revocation it comes with.
LEMMA ChangePasswordInv ==
  ASSUME AccountsInv, NEW c \in Clients, Acct!ChangePassword(c)
  PROVE  AccountsInv'
<1> DEFINE u == browser[c].req.user
           user == Acct!Bumped([accMem.users[u] EXCEPT !.must = FALSE])
           token == acSeen.tokens + 1
           new == [token |-> token, user |-> u, epoch |-> Begun(u).epoch[u]]
           Kept(S) == (accDisk.sessions \ Acct!Of(u)) \cup S
           Saved(S) == [Acct!WithUser(accDisk, u, user) EXCEPT !.sessions = Kept(S)]
<1>1. accMem.state = "ready" /\ u \in DOMAIN accMem.users /\ u \in Ids
  BY AsksKnown, UserTyped DEF Acct!ChangePassword
<1>2. Editable(u, user) /\ user \in User
  BY <1>1, OwnEdits DEF Editable
<1>3. /\ accDisk \in Files /\ accDisk.sessions \subseteq SessionRecord
      /\ Acct!WithUser(accDisk, u, user) \in Files /\ Acct!WithUser(accDisk, u, user).sessions = accDisk.sessions
      /\ acSeen \in AccountsSeen /\ token \in Nat
  <2>1. accDisk \in Files /\ acSeen \in AccountsSeen
    BY DEF AccountsInv, TypeInv
  <2>2. accDisk.sessions \subseteq SessionRecord
    BY <2>1 DEF Files
  <2>3. token \in Nat
    BY <2>1 DEF AccountsSeen
  <2>4. Acct!WithUser(accDisk, u, user) \in Files /\ Acct!WithUser(accDisk, u, user).sessions = accDisk.sessions
    BY <1>1, <1>2, <2>1, WithUserFiles
  <2> QED
    BY <2>1, <2>2, <2>3, <2>4
<1>4. /\ Begun(u) \in AccountsSeen /\ Begun(u).half = acSeen.half /\ Begun(u).done = acSeen.done
      /\ Acct!Faulty(Begun(u)) \in AccountsSeen /\ Acct!Faulty(Begun(u)).half = acSeen.half
      /\ Acct!Faulty(Begun(u)).done = acSeen.done /\ Acct!Faulty(Begun(u)).epoch = Begun(u).epoch
      /\ Begun(u).epoch \in [Ids -> Nat]
  BY <1>1, BegunTyped DEF AccountsSeen
<1>5. new \in SessionRecord /\ new.user = u /\ new.epoch = Begun(u).epoch[u]
  BY <1>1, <1>3, <1>4 DEF SessionRecord
<1>6. \A S : [Acct!WithUser(accDisk, u, user) EXCEPT !.sessions = (@ \ Acct!Of(u)) \cup S] = Saved(S)
  BY <1>3
<1>7. \A S : Saved(S).sessions = Kept(S)
  BY <1>3 DEF Files
<1>8. Kept({new}) \subseteq SessionRecord
      /\ \A S \in SUBSET Acct!Of(u) : Kept(S) \subseteq accDisk.sessions /\ Kept(S) \subseteq SessionRecord
  BY <1>3, <1>5 DEF Acct!Of
<1>9. \/ /\ accDisk' = Saved({new})
         /\ accMem' = Acct!WithUser(accMem, u, user)
         /\ browser' = [browser EXCEPT ![c] = [cookie |-> token, req |-> Acct!NoRequest]]
         /\ acSeen' = [Begun(u) EXCEPT !.tokens = token, !.done[u] = Begun(u).epoch[u]]
      \/ \E S \in SUBSET Acct!Of(u) :
            /\ accDisk' = Saved(S) /\ acSeen' = Acct!Faulty(Begun(u))
            /\ \/ accMem' = Acct!WithUser(accMem, u, user) /\ browser' = Acct!Answered(c)
               \/ accMem' = Acct!Loaded(accDisk') /\ browser' = Acct!AllDropped
  BY <1>6 DEF Acct!ChangePassword, Begun
<1> HIDE DEF user, new, Kept, Saved
<1>10. CASE /\ accDisk' = Saved({new})
            /\ accMem' = Acct!WithUser(accMem, u, user)
            /\ browser' = [browser EXCEPT ![c] = [cookie |-> token, req |-> Acct!NoRequest]]
            /\ acSeen' = [Begun(u) EXCEPT !.tokens = token, !.done[u] = Begun(u).epoch[u]]
  <2>1. /\ acSeen' \in AccountsSeen /\ acSeen'.half = acSeen.half /\ acSeen'.epoch = Begun(u).epoch
        /\ acSeen'.done = [acSeen.done EXCEPT ![u] = Begun(u).epoch[u]]
    BY <1>1, <1>3, <1>4, <1>10 DEF AccountsSeen
  <2>2. \A s \in accDisk'.sessions :
          s \in accDisk.sessions \ Acct!Of(u) \/ (s.user = u /\ s.epoch = Begun(u).epoch[u])
    BY <1>5, <1>7, <1>10 DEF Kept
  <2>3. RevokeInv'
    BY <1>1, <2>1, <2>2, RevokesAll
  <2>4. /\ accDisk' \in Files /\ accDisk'.users = Acct!With(accDisk.users, u, user)
        /\ accDisk'.system = accDisk.system /\ accDisk'.builtin = accDisk.builtin
        /\ accDisk'.roles = accDisk.roles
    <3>1. \A d \in Files : LET e == [d EXCEPT !.sessions = Kept({new})] IN
             /\ e \in Files /\ e.users = d.users /\ e.system = d.system /\ e.builtin = d.builtin
             /\ e.roles = d.roles
      BY <1>8 DEF Files
    <3> QED
      BY <1>1, <1>2, <1>3, <1>10, <3>1, WithUserFiles DEF Saved
  <2>5. /\ accMem' \in Service /\ FilesAgree' /\ Acct!AdminRemains' /\ Acct!Restartable'
        /\ accMem'.state = "ready" /\ DOMAIN accMem.users \subseteq DOMAIN accMem'.users
    BY <1>2, <1>10, <2>1, <2>4, EditKeeps
  <2>6. browser' \in [Clients -> Browser] /\ RequestInv'
    BY <1>1, <1>3, <1>10, <2>5, CookieKeeps
  <2> QED
    BY <2>1, <2>3, <2>4, <2>5, <2>6 DEF AccountsInv, TypeInv
<1>11. ASSUME NEW S \in SUBSET Acct!Of(u), accDisk' = Saved(S), acSeen' = Acct!Faulty(Begun(u)),
              \/ accMem' = Acct!WithUser(accMem, u, user) /\ browser' = Acct!Answered(c)
              \/ accMem' = Acct!Loaded(accDisk') /\ browser' = Acct!AllDropped
       PROVE  AccountsInv'
  <2>1. Kept(S) \subseteq SessionRecord /\ accDisk'.sessions \subseteq accDisk.sessions
    BY <1>7, <1>8, <1>11
  <2>2. RevokeInv'
    BY <1>1, <1>4, <1>11, <2>1, RevokesSome
  <2> QED
    BY <1>2, <1>4, <1>11, <2>1, <2>2, RevokingKeeps DEF Saved
<1> QED
  BY <1>9, <1>10, <1>11

\* A session that is begun carries the revocations begun before it.
LEMMA SessionAdded ==
  ASSUME AccountsInv, NEW d \in Files, NEW u \in Ids, NEW token \in Nat, d.sessions = accDisk.sessions,
         accDisk' = [d EXCEPT !.sessions = @ \cup {Acct!Session(token, u)}],
         acSeen'.done = acSeen.done, acSeen'.epoch = acSeen.epoch
  PROVE  /\ accDisk' \in Files /\ RevokeInv'
         /\ accDisk'.users = d.users /\ accDisk'.system = d.system /\ accDisk'.builtin = d.builtin
         /\ accDisk'.roles = d.roles /\ Acct!Loaded(accDisk') = Acct!Loaded(d)
<1>1. acSeen.epoch \in [Ids -> Nat] /\ acSeen.done \in [Ids -> Nat] /\ accDisk.sessions \subseteq SessionRecord
  BY DEF AccountsInv, TypeInv, AccountsSeen, Files
<1>2. /\ Acct!Session(token, u) \in SessionRecord
      /\ Acct!Session(token, u).user = u /\ Acct!Session(token, u).epoch = acSeen.epoch[u]
  BY <1>1 DEF Acct!Session, SessionRecord
<1>3. /\ accDisk' \in Files
      /\ accDisk'.users = d.users /\ accDisk'.system = d.system /\ accDisk'.builtin = d.builtin
      /\ accDisk'.roles = d.roles /\ accDisk'.sessions = accDisk.sessions \cup {Acct!Session(token, u)}
  BY <1>2 DEF Files
<1>4. RevokeInv'
  BY <1>1, <1>2, <1>3 DEF AccountsInv, RevokeInv, Acct!RevokedStaysOut
<1>5. Acct!Loaded(accDisk') = Acct!Loaded(d)
  BY <1>3 DEF Acct!Loaded, Acct!Valid
<1> QED
  BY <1>3, <1>4, <1>5

\* A login.
LEMMA LoginInv ==
  ASSUME AccountsInv, NEW c \in Clients, NEW u \in DOMAIN accMem.users, Acct!Login(c, u)
  PROVE  AccountsInv'
<1> DEFINE token == acSeen.tokens + 1
<1>1. /\ u \in Ids /\ token \in Nat /\ accMem.state = "ready" /\ accDisk \in Files
      /\ browser[c] = [cookie |-> 0, req |-> Acct!NoRequest]
      /\ browser \in [Clients -> Browser] /\ acSeen \in AccountsSeen
  BY UserTyped DEF Acct!Login, AccountsInv, TypeInv, AccountsSeen
<1>2. /\ acSeen' \in AccountsSeen /\ acSeen'.half = acSeen.half
      /\ acSeen'.done = acSeen.done /\ acSeen'.epoch = acSeen.epoch
  BY <1>1 DEF Acct!Login, AccountsSeen
<1>3. /\ accDisk' \in Files /\ RevokeInv'
      /\ accDisk'.users = accDisk.users /\ accDisk'.system = accDisk.system /\ accDisk'.builtin = accDisk.builtin
      /\ accDisk'.roles = accDisk.roles /\ Acct!Loaded(accDisk') = Acct!Loaded(accDisk)
  BY <1>1, <1>2, SessionAdded DEF Acct!Login
<1>4. browser' = [browser EXCEPT ![c] = [cookie |-> token, req |-> Acct!NoRequest]]
  <2>1. [browser[c] EXCEPT !.cookie = token] = [cookie |-> token, req |-> Acct!NoRequest]
    BY <1>1
  <2>2. browser' = [browser EXCEPT ![c] = [browser[c] EXCEPT !.cookie = token]]
    BY DEF Acct!Login
  <2> QED
    BY <2>1, <2>2
<1>5. browser' \in [Clients -> Browser] /\ RequestInv'
  BY <1>1, <1>4, CookieKeeps DEF Acct!Login
<1> QED
  BY <1>2, <1>3, <1>5 DEF Acct!Login, AccountsInv, TypeInv, FilesAgree, Acct!AdminRemains, Acct!Restartable

\* Nobody is logged in before there is a service.
LEMMA InitializeInv ==
  ASSUME AccountsInv, NEW c \in Clients, NEW name \in Usernames, Acct!Initialize(c, name)
  PROVE  AccountsInv'
<1> DEFINE u == Acct!NewId(accDisk.users)
           first == Acct!NewUser(name, {"admin"}, FALSE)
           roles == [accDisk EXCEPT !.builtin = TRUE]
           user == [roles EXCEPT !.users = Acct!With(@, u, first)]
           system == [user EXCEPT !.system = TRUE]
           token == acSeen.tokens + 1
           ready == [state |-> "ready", users |-> Acct!With(Acct!None, u, user.users[u]), roles |-> Acct!None]
<1>1. /\ accMem.state = "uninitialized" /\ u \in Ids /\ u \notin DOMAIN accDisk.users
      /\ accDisk \in Files /\ acSeen \in AccountsSeen /\ browser \in [Clients -> Browser] /\ accMem \in Service
  BY NewIdFresh DEF Acct!Initialize, AccountsInv, TypeInv
<1>2. first \in User /\ first.roles = {"admin"} /\ first.status = "active" /\ token \in Nat
  BY <1>1 DEF Acct!NewUser, User, Roles, AccountsSeen
<1>3. /\ roles \in Files /\ roles.users = accDisk.users /\ roles.sessions = accDisk.sessions
      /\ roles.roles = accDisk.roles /\ roles.builtin /\ roles.system = accDisk.system
  BY <1>1 DEF Files
<1>4. Acct!With(accDisk.users, u, first) \in UserRecords
  BY <1>1, <1>2, WithUserTyped DEF Files
<1>5. /\ user \in Files /\ user.users = Acct!With(accDisk.users, u, first) /\ user.sessions = accDisk.sessions
      /\ user.roles = accDisk.roles /\ user.builtin /\ user.system = accDisk.system
  BY <1>3, <1>4 DEF Files
<1>6. /\ system \in Files /\ system.users = Acct!With(accDisk.users, u, first)
      /\ system.sessions = accDisk.sessions /\ system.roles = accDisk.roles /\ system.builtin /\ system.system
  BY <1>5 DEF Files
<1>7. user.users[u] = first
  BY <1>5 DEF Acct!With
<1>8. /\ ready \in Service /\ ready.state = "ready" /\ ready.users = Acct!With(Acct!None, u, first)
      /\ ready.roles = Acct!None
  <2>1. Acct!With(Acct!None, u, first) \in UserRecords
    BY <1>1, <1>2, NoRecords, WithUserTyped
  <2> QED
    BY <1>7, <2>1, NoRecords DEF Service
<1>9. DOMAIN ready.users = {u} /\ u \in DOMAIN system.users
  <2>1. DOMAIN Acct!With(Acct!None, u, first) = DOMAIN Acct!None \cup {u}
    BY DEF Acct!With
  <2>2. u \in DOMAIN Acct!With(accDisk.users, u, first)
    BY DEF Acct!With
  <2> QED
    BY <1>6, <1>8, <2>1, <2>2, NoRecords
<1>10. Acct!ActiveAdmin(ready.users)
  <2>1. u \in DOMAIN ready.users /\ ready.users[u] = first
    BY <1>8, <1>9 DEF Acct!With
  <2> QED
    BY <1>2, <2>1 DEF Acct!ActiveAdmin
<1>11. ~acSeen.half => Acct!Loaded(system) = ready
  <2> SUFFICES ASSUME ~acSeen.half PROVE Acct!Loaded(system) = ready
    OBVIOUS
  <2>1. accDisk.users = Acct!None /\ accDisk.roles = Acct!None
    BY <1>1 DEF AccountsInv, FilesAgree
  <2>2. system.users = ready.users /\ system.roles = ready.roles
    BY <1>6, <1>8, <2>1
  <2>3. system.users # Acct!None
    BY <1>6, WithIsSome
  <2>4. DOMAIN system.users = {u} /\ system.users[u] = first
    BY <1>6, <1>9, <2>2 DEF Acct!With
  <2>5. Acct!Valid(system)
    BY <1>2, <1>6, <1>10, <2>2, <2>3, <2>4 DEF Acct!Valid
  <2> QED
    BY <1>6, <1>8, <2>2, <2>5, LoadedIsRight
<1> HIDE DEF first, roles, user, system, ready
<1>12. RequestInv' /\ browser' \in [Clients -> Browser]
  <2>1. \A d \in Clients : browser[d].req = Acct!NoRequest
    BY <1>1 DEF AccountsInv, RequestInv
  <2>2. browser' = browser \/ browser' = [browser EXCEPT ![c].cookie = token]
    BY DEF Acct!Initialize
  <2>3. \A b \in Browser : [b EXCEPT !.cookie = token] \in Browser /\ [b EXCEPT !.cookie = token].req = b.req
    BY <1>2 DEF Browser
  <2>4. \A d \in Clients : browser'[d].req = Acct!NoRequest
    <3>1. CASE browser' = [browser EXCEPT ![c].cookie = token]
      <4>1. browser' = [browser EXCEPT ![c] = [browser[c] EXCEPT !.cookie = token]]
        BY <3>1
      <4>2. browser[c] \in Browser
        BY <1>1
      <4>3. browser'[c].req = browser[c].req /\ \A d \in Clients \ {c} : browser'[d] = browser[d]
        BY <1>1, <2>3, <4>1, <4>2
      <4> QED
        BY <2>1, <4>3
    <3> QED
      BY <2>1, <2>2, <3>1
  <2>5. browser' \in [Clients -> Browser]
    BY <1>1, <2>2, <2>3
  <2> QED
    BY <2>4, <2>5 DEF RequestInv
<1>13. CASE accDisk' = [system EXCEPT !.sessions = @ \cup {Acct!Session(token, u)}] /\ accMem' = ready
            /\ acSeen' = [Acct!Changed EXCEPT !.tokens = token]
  <2>1. /\ acSeen' \in AccountsSeen /\ acSeen'.half = acSeen.half
        /\ acSeen'.done = acSeen.done /\ acSeen'.epoch = acSeen.epoch
    BY <1>2, <1>13, SeenTyped DEF AccountsSeen
  <2>2. /\ accDisk' \in Files /\ RevokeInv'
        /\ accDisk'.users = system.users /\ accDisk'.system = system.system /\ accDisk'.builtin = system.builtin
        /\ accDisk'.roles = system.roles /\ Acct!Loaded(accDisk') = Acct!Loaded(system)
    BY <1>1, <1>2, <1>6, <1>13, <2>1, SessionAdded
  <2>3. FilesAgree' /\ Acct!AdminRemains' /\ Acct!Restartable'
    BY <1>8, <1>9, <1>10, <1>11, <1>13, <2>1, <2>2 DEF FilesAgree, Acct!AdminRemains, Acct!Restartable
  <2> QED
    BY <1>8, <1>12, <1>13, <2>1, <2>2, <2>3 DEF AccountsInv, TypeInv
<1>14. ASSUME acSeen' = [Acct!Faulty(Acct!Changed) EXCEPT !.half = @ \/ ~accDisk'.system]
       PROVE  /\ acSeen' \in AccountsSeen /\ acSeen'.half = (acSeen.half \/ ~accDisk'.system)
              /\ acSeen'.done = acSeen.done /\ acSeen'.epoch = acSeen.epoch
  BY <1>14, SeenTyped DEF AccountsSeen
<1>15. ASSUME NEW d, d \in {accDisk, roles, user}, accDisk' = d, accMem' \in {accMem, Acct!Loaded(d)},
              acSeen' = [Acct!Faulty(Acct!Changed) EXCEPT !.half = @ \/ ~accDisk'.system]
       PROVE  AccountsInv'
  <2>1. accDisk' \in Files /\ accDisk'.sessions = accDisk.sessions /\ accDisk'.system = accDisk.system
    BY <1>1, <1>3, <1>5, <1>15
  <2>2. acSeen'.half
    BY <1>1, <1>14, <1>15, <2>1 DEF AccountsInv, FilesAgree
  <2>3. RevokeInv'
    BY <1>14, <1>15, <2>1, RevokeKept
  <2>4. accMem' \in Service /\ FilesAgree' /\ Acct!AdminRemains' /\ Acct!Restartable'
    BY <1>1, <1>15, <2>1, <2>2, LoadedIsRight DEF FilesAgree, Acct!AdminRemains, Acct!Restartable
  <2> QED
    BY <1>12, <1>14, <1>15, <2>1, <2>3, <2>4 DEF AccountsInv, TypeInv
<1>16. ASSUME accDisk' = system, accMem' \in {ready, Acct!Loaded(system)},
              acSeen' = [Acct!Faulty(Acct!Changed) EXCEPT !.half = @ \/ ~accDisk'.system]
       PROVE  AccountsInv'
  <2>1. RevokeInv'
    BY <1>6, <1>14, <1>16, RevokeKept
  <2>2. acSeen'.half = acSeen.half
    BY <1>1, <1>6, <1>14, <1>16 DEF AccountsSeen
  <2>3. accMem' \in Service /\ FilesAgree' /\ Acct!AdminRemains' /\ Acct!Restartable'
    BY <1>6, <1>8, <1>9, <1>10, <1>11, <1>16, <2>2, LoadedIsRight DEF FilesAgree, Acct!AdminRemains,
       Acct!Restartable
  <2> QED
    BY <1>6, <1>12, <1>14, <1>16, <2>1, <2>3 DEF AccountsInv, TypeInv
<1>17. \/ /\ accDisk' = [system EXCEPT !.sessions = @ \cup {Acct!Session(token, u)}] /\ accMem' = ready
          /\ acSeen' = [Acct!Changed EXCEPT !.tokens = token]
       \/ /\ acSeen' = [Acct!Faulty(Acct!Changed) EXCEPT !.half = @ \/ ~accDisk'.system]
          /\ \/ \E d \in {accDisk, roles, user} : accDisk' = d /\ accMem' \in {accMem, Acct!Loaded(d)}
             \/ accDisk' = system /\ accMem' \in {ready, Acct!Loaded(system)}
  BY DEF Acct!Initialize, first, roles, user, system, ready
<1> QED
  BY <1>13, <1>15, <1>16, <1>17

\* A step of one client that changes neither files nor the service.
LEMMA ClientInv ==
  ASSUME AccountsInv, NEW c \in Clients, UNCHANGED <<accDisk, accMem, acSeen>>,
         Acct!Authenticate(c) \/ Acct!Rejected(c) \/ Acct!LoggedOut(c)
  PROVE  AccountsInv'
<1>1. browser \in [Clients -> Browser] /\ accMem \in Service /\ accDisk \in Files
  BY DEF AccountsInv, TypeInv
<1>2. ASSUME Acct!Authenticate(c) PROVE browser' \in [Clients -> Browser] /\ RequestInv'
  <2>1. PICK s \in accDisk.sessions :
          /\ s.user \in DOMAIN accMem.users /\ accMem.state = "ready"
          /\ browser' = [browser EXCEPT ![c].req =
                [user |-> s.user, manages |-> Acct!Manages(s.user), must |-> accMem.users[s.user].must,
                 view |-> Acct!Versions(accMem.users), roles |-> Acct!Versions(accMem.roles)]]
    BY <1>2 DEF Acct!Authenticate
  <2> DEFINE req == [user |-> s.user, manages |-> Acct!Manages(s.user), must |-> accMem.users[s.user].must,
                     view |-> Acct!Versions(accMem.users), roles |-> Acct!Versions(accMem.roles)]
  <2>2. Acct!Versions(accMem.users) \in UNION {[D -> Nat] : D \in SUBSET Ids}
    <3>1. PICK D \in SUBSET Ids : accMem.users \in [D -> User]
      BY <1>1 DEF Service, UserRecords
    <3>2. Acct!Versions(accMem.users) \in [D -> Nat]
      BY <3>1 DEF Acct!Versions, User
    <3> QED
      BY <3>2
  <2>3. Acct!Versions(accMem.roles) \in UNION {[D -> Nat] : D \in SUBSET Custom}
    <3>1. PICK D \in SUBSET Custom : accMem.roles \in [D -> Role]
      BY <1>1 DEF Service, RoleRecords
    <3>2. Acct!Versions(accMem.roles) \in [D -> Nat]
      BY <3>1 DEF Acct!Versions, Role
    <3> QED
      BY <3>2
  <2>4. s.user \in Ids /\ accMem.users[s.user].must \in BOOLEAN
    BY <2>1, UserTyped DEF User
  <2>5. Acct!Manages(s.user) \in BOOLEAN
    <3>1. \A r \in DOMAIN accMem.roles : accMem.roles[r].manages \in BOOLEAN
      BY <1>1 DEF Service, RoleRecords, Role
    <3> QED
      BY <3>1 DEF Acct!Manages
  <2>6. req \in Request /\ req.user = s.user
    BY <2>2, <2>3, <2>4, <2>5 DEF Request
  <2> HIDE DEF req
  <2>7. browser' = [browser EXCEPT ![c] = [browser[c] EXCEPT !.req = req]]
    BY <2>1 DEF req
  <2>8. \A b \in Browser : [b EXCEPT !.req = req] \in Browser /\ [b EXCEPT !.req = req].req = req
    BY <2>6 DEF Browser
  <2>9. /\ browser'[c].req = req /\ \A d \in Clients \ {c} : browser'[d] = browser[d]
        /\ browser' \in [Clients -> Browser]
    BY <1>1, <2>7, <2>8
  <2> QED
    BY <2>1, <2>6, <2>9 DEF AccountsInv, RequestInv
<1>3. ASSUME Acct!Rejected(c) PROVE browser' \in [Clients -> Browser] /\ RequestInv'
  <2>1. accMem.state = "ready" /\ browser' = Acct!Answered(c)
    BY <1>3 DEF Acct!Rejected, AccountsInv, RequestInv
  <2> QED
    BY <2>1, AnsweredKeeps
<1>4. ASSUME Acct!LoggedOut(c) PROVE browser' \in [Clients -> Browser] /\ RequestInv'
  <2>1. browser' = [browser EXCEPT ![c] = [browser[c] EXCEPT !.cookie = 0]]
    BY <1>4 DEF Acct!LoggedOut
  <2>2. \A b \in Browser : [b EXCEPT !.cookie = 0] \in Browser /\ [b EXCEPT !.cookie = 0].req = b.req
    BY DEF Browser
  <2>3. /\ browser'[c].req = browser[c].req /\ \A d \in Clients \ {c} : browser'[d] = browser[d]
        /\ browser' \in [Clients -> Browser]
    BY <1>1, <2>1, <2>2
  <2> QED
    BY <2>3 DEF AccountsInv, RequestInv
<1>5. browser' \in [Clients -> Browser] /\ RequestInv'
  BY <1>2, <1>3, <1>4
<1> QED
  BY <1>5 DEF AccountsInv, TypeInv, FilesAgree, Acct!AdminRemains, Acct!Restartable, RevokeInv,
              Acct!RevokedStaysOut

\* A session is removed.
LEMMA LogoutInv ==
  ASSUME AccountsInv, NEW c \in Clients, Acct!Logout(c)
  PROVE  AccountsInv'
<1>1. accMem.state = "ready" /\ accDisk \in Files
  BY DEF Acct!Logout, AccountsInv, RequestInv, TypeInv
<1> DEFINE S == {s \in accDisk.sessions : s.token # browser[c].cookie}
<1>2. /\ accDisk' \in Files /\ accDisk'.users = accDisk.users /\ accDisk'.system = accDisk.system
      /\ accDisk'.builtin = accDisk.builtin /\ accDisk'.roles = accDisk.roles
      /\ accDisk'.sessions \subseteq accDisk.sessions
  <2>1. S \subseteq accDisk.sessions /\ S \in SUBSET SessionRecord
    BY <1>1 DEF Files
  <2>2. accDisk' = [accDisk EXCEPT !.sessions = S]
    BY DEF Acct!Logout
  <2> HIDE DEF S
  <2> QED
    BY <1>1, <2>1, <2>2 DEF Files
<1>3. Acct!Loaded(accDisk') = Acct!Loaded(accDisk)
  BY <1>2 DEF Acct!Loaded, Acct!Valid
<1>4. browser' \in [Clients -> Browser] /\ RequestInv'
  BY <1>1, CookieKeeps DEF Acct!Logout
<1>5. RevokeInv'
  BY <1>2, RevokeKept DEF Acct!Logout
<1> QED
  BY <1>2, <1>3, <1>4, <1>5 DEF Acct!Logout, AccountsInv, TypeInv, FilesAgree, Acct!AdminRemains,
                                Acct!Restartable

\* A start, or the next one after a crash.
LEMMA RestartInv ==
  ASSUME AccountsInv, Acct!Restart
  PROVE  AccountsInv'
<1>1. accDisk' \in Files /\ accMem' = Acct!Loaded(accDisk') /\ accDisk' = accDisk
  BY DEF Acct!Restart, AccountsInv, TypeInv
<1>2. /\ acSeen' \in AccountsSeen /\ acSeen'.half = acSeen.half
      /\ acSeen'.done = acSeen.done /\ acSeen'.epoch = acSeen.epoch
  BY SeenTyped DEF Acct!Restart
<1>3. accMem' \in Service /\ FilesAgree' /\ Acct!AdminRemains' /\ Acct!Restartable'
  BY <1>1, LoadedIsRight DEF FilesAgree, Acct!AdminRemains, Acct!Restartable
<1>4. browser' \in [Clients -> Browser] /\ RequestInv'
  BY AllDroppedKeeps DEF Acct!Restart
<1>5. RevokeInv'
  BY <1>1, <1>2, RevokeKept
<1> QED
  BY <1>1, <1>2, <1>3, <1>4, <1>5 DEF AccountsInv, TypeInv

-----------------------------------------------------------------------------
\* An edit of the roles that takes from no user a role he has.
LEMMA SaveRoleKeeps ==
  ASSUME AccountsInv, NEW c \in Clients, NEW dr, NEW mr, dr \in RoleRecords, mr \in RoleRecords,
         accMem.state = "ready", accDisk.roles = accMem.roles => dr = mr,
         \A u \in DOMAIN accMem.users : accMem.users[u].roles \cap DOMAIN accMem.roles \subseteq DOMAIN mr,
         Acct!SaveRole(c, [accDisk EXCEPT !.roles = dr], [accMem EXCEPT !.roles = mr])
  PROVE  AccountsInv'
<1>1. CASE /\ accDisk' = [accDisk EXCEPT !.roles = dr] /\ acSeen' \in {Acct!Changed, Acct!Faulty(Acct!Changed)}
           /\ \/ accMem' = [accMem EXCEPT !.roles = mr] /\ browser' = Acct!Answered(c)
              \/ accMem' = Acct!Loaded(accDisk') /\ browser' = Acct!AllDropped
  <2>1. /\ acSeen' \in AccountsSeen /\ acSeen'.half = acSeen.half
        /\ acSeen'.done = acSeen.done /\ acSeen'.epoch = acSeen.epoch
    BY <1>1, SeenTyped
  <2>2. /\ accDisk' \in Files /\ accMem' \in Service /\ FilesAgree' /\ Acct!AdminRemains' /\ Acct!Restartable'
        /\ accMem' = [accMem EXCEPT !.roles = mr] => accMem'.state = "ready" /\ accMem'.users = accMem.users
    BY <1>1, <2>1, RolesKeep
  <2>3. browser' \in [Clients -> Browser] /\ RequestInv'
    BY <1>1, <2>2, AnsweredKeeps, AllDroppedKeeps
  <2>4. accDisk'.sessions = accDisk.sessions
    BY <1>1 DEF AccountsInv, TypeInv, Files
  <2>5. RevokeInv'
    BY <2>1, <2>4, RevokeKept
  <2> QED
    BY <2>1, <2>2, <2>3, <2>5 DEF AccountsInv, TypeInv
<1>2. CASE UNCHANGED <<accDisk, accMem>> /\ browser' = Acct!Answered(c) /\ acSeen' = Acct!Faulty(Acct!Changed)
  <2>1. /\ acSeen' \in AccountsSeen /\ acSeen'.half = acSeen.half
        /\ acSeen'.done = acSeen.done /\ acSeen'.epoch = acSeen.epoch
    BY <1>2, SeenTyped
  <2>2. browser' \in [Clients -> Browser] /\ RequestInv'
    BY <1>2, AnsweredKeeps
  <2>3. RevokeInv'
    BY <1>2, <2>1, RevokeKept
  <2> QED
    BY <1>2, <2>1, <2>2, <2>3 DEF AccountsInv, TypeInv, FilesAgree, Acct!AdminRemains, Acct!Restartable
<1> QED
  BY <1>1, <1>2 DEF Acct!SaveRole

\* A role is created, changed, or deleted when no user has it.
LEMMA RoleChangeInv ==
  ASSUME AccountsInv, NEW c \in Clients, NEW r \in Custom, NEW manages \in BOOLEAN,
         Acct!CreateRole(c, r, manages) \/ Acct!UpdateRole(c, r, manages) \/ Acct!DeleteRole(c, r)
  PROVE  AccountsInv'
<1>1. accMem.state = "ready"
  BY AsksKnown DEF Acct!CreateRole, Acct!UpdateRole, Acct!DeleteRole, Acct!AsksToManage
<1>2. accDisk.roles \in RoleRecords /\ accMem.roles \in RoleRecords
  BY DEF AccountsInv, TypeInv, Files, Service
<1>3. ASSUME NEW role \in Role, Acct!SaveRole(c, Acct!WithRole(accDisk, r, role), Acct!WithRole(accMem, r, role))
      PROVE  AccountsInv'
  <2>1. /\ Acct!WithRole(accDisk, r, role) = [accDisk EXCEPT !.roles = Acct!With(accDisk.roles, r, role)]
        /\ Acct!WithRole(accMem, r, role) = [accMem EXCEPT !.roles = Acct!With(accMem.roles, r, role)]
    BY DEF Acct!WithRole
  <2>2. Acct!With(accDisk.roles, r, role) \in RoleRecords /\ Acct!With(accMem.roles, r, role) \in RoleRecords
    BY <1>2, WithRoleTyped
  <2>3. DOMAIN accMem.roles \subseteq DOMAIN Acct!With(accMem.roles, r, role)
    BY DEF Acct!With
  <2>4. \A u \in DOMAIN accMem.users :
          accMem.users[u].roles \cap DOMAIN accMem.roles \subseteq DOMAIN Acct!With(accMem.roles, r, role)
    BY <2>3
  <2> QED
    BY <1>1, <1>3, <2>1, <2>2, <2>4, SaveRoleKeeps
<1>4. CASE Acct!CreateRole(c, r, manages)
  <2>1. [manages |-> manages, ver |-> 1] \in Role
    BY DEF Role
  <2> QED
    BY <1>3, <1>4, <2>1 DEF Acct!CreateRole
<1>5. CASE Acct!UpdateRole(c, r, manages)
  <2>1. accMem.roles[r] \in Role
    BY <1>2, <1>5 DEF Acct!UpdateRole, Acct!SeesRole, RoleRecords
  <2>2. [accMem.roles[r] EXCEPT !.manages = manages] \in Role
    BY <2>1 DEF Role
  <2>3. \A role \in Role : Acct!Bumped(role) \in Role
    BY DEF Acct!Bumped, Role
  <2>4. Acct!Bumped([accMem.roles[r] EXCEPT !.manages = manages]) \in Role
    BY <2>2, <2>3
  <2> QED
    BY <1>3, <1>5, <2>4 DEF Acct!UpdateRole
<1>6. CASE Acct!DeleteRole(c, r)
  <2> DEFINE Without(f) == [x \in DOMAIN f \ {r} |-> f[x]]
  <2>1. \A f \in RoleRecords : Without(f) \in RoleRecords
    <3> SUFFICES ASSUME NEW f \in RoleRecords PROVE Without(f) \in RoleRecords
      OBVIOUS
    <3>1. PICK D \in SUBSET Custom : f \in [D -> Role]
      BY DEF RoleRecords
    <3>2. Without(f) \in [D \ {r} -> Role]
      BY <3>1
    <3> QED
      BY <3>2 DEF RoleRecords
  <2>2. /\ Acct!WithoutRole(accDisk, r) = [accDisk EXCEPT !.roles = Without(accDisk.roles)]
        /\ Acct!WithoutRole(accMem, r) = [accMem EXCEPT !.roles = Without(accMem.roles)]
    BY DEF Acct!WithoutRole
  <2>3. \A u \in DOMAIN accMem.users : accMem.users[u].roles \cap DOMAIN accMem.roles \subseteq DOMAIN Without(accMem.roles)
    BY <1>6 DEF Acct!DeleteRole
  <2>4. Acct!SaveRole(c, [accDisk EXCEPT !.roles = Without(accDisk.roles)], [accMem EXCEPT !.roles = Without(accMem.roles)])
    BY <1>6, <2>2 DEF Acct!DeleteRole
  <2>5. Without(accDisk.roles) \in RoleRecords /\ Without(accMem.roles) \in RoleRecords
        /\ (accDisk.roles = accMem.roles => Without(accDisk.roles) = Without(accMem.roles))
    BY <1>2, <2>1
  <2> HIDE DEF Without
  <2> QED
    BY <1>1, <2>3, <2>4, <2>5, SaveRoleKeeps
<1> QED
  BY <1>4, <1>5, <1>6

-----------------------------------------------------------------------------
\* Every step.
LEMMA AccountsNextInv ==
  ASSUME AccountsAssumption, AccountsInv, [Acct!Next]_Acct!accVars
  PROVE  AccountsInv'
<1>1. CASE UNCHANGED Acct!accVars
  BY <1>1 DEF Acct!accVars, AccountsInv, TypeInv, FilesAgree, RequestInv, Acct!AdminRemains, Acct!Restartable,
              RevokeInv,
              Acct!RevokedStaysOut
<1>2. ASSUME NEW c \in Clients,
             \/ Acct!Authenticate(c) \/ Acct!Rejected(c) \/ Acct!LoggedOut(c)
      PROVE  AccountsInv'
  BY <1>2, ClientInv DEF Acct!Authenticate, Acct!Rejected, Acct!LoggedOut
<1>3. ASSUME NEW c \in Clients, Acct!UpdateProfile(c) \/ Acct!ChangePassword(c) \/ Acct!Logout(c) PROVE AccountsInv'
  BY <1>3, UpdateProfileInv, ChangePasswordInv, LogoutInv
<1>4. ASSUME NEW c \in Clients, NEW name \in Usernames,
             Acct!Initialize(c, name) \/ \E roles \in Acct!RoleSets : Acct!CreateUser(c, name, roles)
      PROVE  AccountsInv'
  BY <1>4, InitializeInv, CreateUserInv
<1>5. ASSUME NEW c \in Clients, NEW u \in DOMAIN accMem.users,
             \/ Acct!Login(c, u) \/ Acct!DeleteUser(c, u) \/ Acct!ResetPassword(c, u)
             \/ \E roles \in Acct!RoleSets : Acct!UpdateUser(c, u, roles, accMem.users[u].status)
             \/ \E status \in {"active", "disabled", "deleted"} :
                    Acct!UpdateUser(c, u, accMem.users[u].roles, status)
      PROVE  AccountsInv'
  <2>1. CASE \E roles \in Acct!RoleSets : Acct!UpdateUser(c, u, roles, accMem.users[u].status)
    BY <2>1, UpdateUserInv
  <2>2. CASE \E status \in {"active", "disabled", "deleted"} : Acct!UpdateUser(c, u, accMem.users[u].roles, status)
    BY <2>2, UpdateUserInv
  <2> QED
    BY <1>5, <2>1, <2>2, LoginInv, DeleteUserInv, ResetPasswordInv
<1>6. ASSUME NEW c \in Clients, NEW r \in Custom,
             \/ Acct!DeleteRole(c, r)
             \/ \E manages \in BOOLEAN : Acct!CreateRole(c, r, manages) \/ Acct!UpdateRole(c, r, manages)
      PROVE  AccountsInv'
  BY <1>6, RoleChangeInv
<1> QED
  BY <1>1, <1>2, <1>3, <1>4, <1>5, <1>6, RestartInv DEF Acct!Next

\* An administrator remains whatever is edited at once and whatever fails; memory is what a start
\* would load; and no session is left from before a revocation that was reported as done.
THEOREM AccountsHold ==
  ASSUME AccountsAssumption
  PROVE  Acct!Spec => []Acct!AccountsKept
<1>1. Acct!Init => AccountsInv
  BY AccountsInitInv
<1>2. AccountsInv /\ [Acct!Next]_Acct!accVars => AccountsInv'
  BY AccountsNextInv
<1>3. AccountsInv => Acct!AccountsKept
  BY DEF AccountsInv, Acct!AccountsKept, RevokeInv
<1> QED
  BY <1>1, <1>2, <1>3, PTL DEF Acct!Spec
=============================================================================
