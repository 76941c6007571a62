----------------------------- MODULE JobRecord -----------------------------
(***************************************************************************)
(* The part of a Job that the message queue and the run lifecycle own      *)
(* (types/model.Job, persisted as job.json), and the in-memory mutations   *)
(* that services/job applies to it while it holds the job's persist shard. *)
(* Every operator here is one critical section of s.mu; the state machine  *)
(* that schedules them is JobQueue.                                        *)
(*                                                                         *)
(* Timestamps, titles, payload hashes, error texts and the queue version   *)
(* are left out: nothing below depends on their values.                    *)
(***************************************************************************)
EXTENDS Integers, Sequences, SequencesExt

CONSTANTS
  QueueId,   (* client message ids submitted through SubmitMessage (web, iOS) *)
  DirectId,  (* client message ids sent by SendMessage directly (IM gateway)  *)
  NoId,      (* the empty ActiveClientMessageID                               *)
  Limit      (* messageQueueLimit                                             *)

Id == QueueId \cup DirectId

ASSUME IdAssumption ==
  /\ QueueId \cap DirectId = {}
  /\ NoId \notin QueueId \cup DirectId

ASSUME LimitAssumption == Limit \in Nat \ {0}

JobStatus   == {"pending", "running", "completed", "failed", "stopped"}
Outcome     == {"completed", "failed", "stopped"}
ItemState   == {"queued", "blocked", "processing"}
ReceiptState ==
  {"none", "queued", "blocked", "processing", "completed", "failed", "stopped",
   "interrupted", "deleted"}
PauseReason == {"no", "user_stopped", "blocked"}
Life        == {"live", "deleted", "removed"}

Item == [id : QueueId, state : ItemState]

Job ==
  [status : JobStatus, queue : Seq(Item), receipt : [Id -> ReceiptState],
   pause : PauseReason, active : Id \cup {NoId}, life : Life]

\* A freshly created interactive job.
NewJob ==
  [status |-> "pending", queue |-> <<>>, receipt |-> [i \in Id |-> "none"],
   pause |-> "no", active |-> NoId, life |-> "live"]

(***************************************************************************)
(* Reading the queue.                                                      *)
(***************************************************************************)
IsFirstWaiting(q, k) ==
  /\ k \in DOMAIN q
  /\ q[k].state # "processing"
  /\ \A i \in DOMAIN q : i < k => q[i].state = "processing"

\* The item a dispatch would claim is i.
HeadIs(q, i) == \E k \in DOMAIN q : IsFirstWaiting(q, k) /\ q[k].id = i

HeadState(q, s) == \E k \in DOMAIN q : IsFirstWaiting(q, k) /\ q[k].state = s

HasProcessing(q) == \E k \in DOMAIN q : q[k].state = "processing"

WaitingCount(q) == Len(SelectSeq(q, LAMBDA item : item.state # "processing"))

\* dispatchMessageQueueHead's and finishMessageQueueDispatch's test on the job.
Dispatchable(j) ==
  /\ j.life = "live"
  /\ j.status # "running"
  /\ j.pause = "no"
  /\ HeadState(j.queue, "queued")
  /\ ~HasProcessing(j.queue)

(***************************************************************************)
(* The mutations.                                                          *)
(***************************************************************************)
SetFirstWaiting(q, s) ==
  [k \in DOMAIN q |-> IF IsFirstWaiting(q, k) THEN [q[k] EXCEPT !.state = s] ELSE q[k]]

MaySubmit(j, i) ==
  /\ j.life = "live"
  /\ j.receipt[i] = "none"
  /\ WaitingCount(j.queue) < Limit

Submitted(j, i) ==
  [j EXCEPT !.queue = Append(@, [id |-> i, state |-> "queued"]),
            !.receipt[i] = "queued"]

\* Mutant of MayStart: the receipt of a finished message does not refuse it.
MayStartAgain(j, i) ==
  /\ j.life = "live"
  /\ j.receipt[i] \in {"none", "queued"} \cup Outcome
  /\ j.status # "running"
  /\ j.receipt[i] = "queued" => j.pause = "no" /\ HeadIs(j.queue, i)

\* Mutant of MayStart: the pause is not checked again at the claim.
MayStartPaused(j, i) ==
  /\ j.life = "live"
  /\ j.receipt[i] \in {"none", "queued"}
  /\ j.status # "running"
  /\ j.receipt[i] = "queued" => HeadIs(j.queue, i)

\* Mutant of MayStart: the message need not be the head any more.
MayStartAnywhere(j, i) ==
  /\ j.life = "live"
  /\ j.receipt[i] \in {"none", "queued"}
  /\ j.status # "running"
  /\ j.receipt[i] = "queued" => j.pause = "no"

\* SendMessage accepts message i: it is new, or it is the queue's unpaused head.
MayStart(j, i) ==
  /\ j.life = "live"
  /\ j.receipt[i] \in {"none", "queued"}
  /\ j.status # "running"
  /\ j.receipt[i] = "queued" => j.pause = "no" /\ HeadIs(j.queue, i)

Started(j, i) ==
  [j EXCEPT !.status = "running",
            !.active = i,
            !.receipt[i] = "processing",
            !.queue = IF j.receipt[i] = "queued" THEN SetFirstWaiting(@, "processing") ELSE @]

\* Mutant of Terminated: the prior status is restored even if none was remembered.
TerminatedToPrior(j, outcome, prior) ==
  [j EXCEPT !.status = prior,
            !.active = NoId,
            !.receipt = [i \in Id |-> IF i = j.active THEN outcome ELSE @[i]]]

\* finishJob / stopJob / failJob: a remembered prior status wins over the outcome.
Terminated(j, outcome, prior) ==
  [j EXCEPT !.status = IF prior = "none" THEN outcome ELSE prior,
            !.active = NoId,
            !.receipt = [i \in Id |-> IF i = j.active THEN outcome ELSE @[i]]]

\* An item leaves the queue by its index.
WithoutItem(j, k) == [j EXCEPT !.queue = RemoveAt(@, k)]

MayDelete(j, k) ==
  /\ j.life = "live"
  /\ k \in DOMAIN j.queue
  /\ j.queue[k].state # "processing"

\* Mutant of Deleted: the receipt goes with the item instead of becoming a tombstone.
DeletedWithReceipt(j, k) ==
  [j EXCEPT !.queue = RemoveAt(@, k), !.receipt[j.queue[k].id] = "none"]

Deleted(j, k) ==
  LET rest == RemoveAt(j.queue, k)
      item == j.queue[k]
      clears == \/ rest = <<>> /\ j.status # "running"
                \/ k = 1 /\ item.state = "blocked" /\ j.pause = "blocked"
  IN  [j EXCEPT !.queue = rest,
                !.receipt[item.id] = "deleted",
                !.pause = IF clears THEN "no" ELSE @]

\* Mutant of Blocked: the receipt is not told.
BlockedItemOnly(j, i) ==
  [j EXCEPT !.queue = SetFirstWaiting(@, "blocked"),
            !.pause = "blocked"]

Blocked(j, i) ==
  [j EXCEPT !.queue = SetFirstWaiting(@, "blocked"),
            !.pause = "blocked",
            !.receipt[i] = "blocked"]

Resumed(j) == [j EXCEPT !.pause = "no"]

Stopped(j) == [j EXCEPT !.pause = "user_stopped"]

(***************************************************************************)
(* Startup repairs.                                                        *)
(***************************************************************************)
\* Mutant of Reconciled: the interrupted message is queued again.
ReconciledToQueued(j) ==
  IF j.status = "running"
  THEN [j EXCEPT !.status = "failed",
                 !.active = NoId,
                 !.receipt = [i \in Id |-> IF i = j.active THEN "queued" ELSE @[i]]]
  ELSE j

\* reconcileLoadedJob: a job that was running is failed, its message interrupted.
Reconciled(j) ==
  IF j.status = "running"
  THEN [j EXCEPT !.status = "failed",
                 !.active = NoId,
                 !.receipt = [i \in Id |-> IF i = j.active THEN "interrupted" ELSE @[i]]]
  ELSE j

\* Mutant of HeadInterrupted: the head is dropped whether or not it was claimed.
HeadAlwaysInterrupted(j) == j.queue # <<>>

\* reconcileInterruptedMessageQueueItems: a claimed head is dropped, never rerun.
HeadInterrupted(j) == j.queue # <<>> /\ j.queue[1].state = "processing"

WithoutInterrupted(j) ==
  LET i == j.queue[1].id
  IN  [j EXCEPT !.queue = Tail(@),
                !.receipt[i] = IF @ = "processing" THEN "interrupted" ELSE @,
                !.active = IF @ = i THEN NoId ELSE @]

(***************************************************************************)
(* What the queue and the receipts say of each other.                      *)
(***************************************************************************)
\* Message i waits in job j's queue.
Waits(j, i) == \E k \in DOMAIN j.queue : j.queue[k].id = i /\ j.queue[k].state # "processing"

\* The receipt states of a message that was handed to the agent.
Claimed == {"processing", "completed", "failed", "stopped", "interrupted"}

\* Queue and receipts are one record: a waiting item's receipt names its state, a
\* claimed item's receipt says it was claimed, and no message is queued twice.
ItemsMatch(j) ==
  \A k \in DOMAIN j.queue :
    IF j.queue[k].state = "processing"
    THEN j.receipt[j.queue[k].id] \in Claimed
    ELSE j.receipt[j.queue[k].id] = j.queue[k].state

NoTwin(j) == \A k, l \in DOMAIN j.queue : j.queue[k].id = j.queue[l].id => k = l

ActiveMatches(j) == j.active # NoId => j.receipt[j.active] = "processing"

Coherent(j) == ItemsMatch(j) /\ NoTwin(j) /\ ActiveMatches(j)
=============================================================================
