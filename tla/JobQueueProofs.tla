--------------------------- MODULE JobQueueProofs ---------------------------
(***************************************************************************)
(* For every set of messages, runs and dispatchers, every queue limit and  *)
(* every choice of faults: the agent is started at most once on a message, *)
(* never on a deleted one, no accepted message is lost, and queue and      *)
(* receipts agree, in memory and in job.json.                              *)
(*                                                                         *)
(* The inductive invariant has a control part (who can hold the persist    *)
(* shard) and a data part (what the three copies of the job say of the     *)
(* history).  What the mutations of JobRecord preserve comes first: the    *)
(* type of a job, the agreement of queue and receipts (Coherent), and the  *)
(* messages that wait.                                                     *)
(*                                                                         *)
(* Four promises about the life of a job come last: its deletion is final, *)
(* the receipts of its messages only move forward, while it is running     *)
(* somebody will end it, and its queue is the line of MessageService.      *)
(***************************************************************************)
EXTENDS JobPromise, SequenceTheorems, TLAPS

(***************************************************************************)
(* Sequences.                                                              *)
(***************************************************************************)
\* Deleting the k-th element by slices, as nextQueue is built in
\* DeleteQueuedMessage, keeps every other element in its order.
LEMMA RemoveAtProperties ==
  ASSUME NEW S, NEW q \in Seq(S), NEW k \in DOMAIN q
  PROVE  /\ RemoveAt(q, k) \in Seq(S)
         /\ Len(RemoveAt(q, k)) = Len(q) - 1
         /\ DOMAIN RemoveAt(q, k) = 1 .. Len(q) - 1
         /\ \A m \in 1 .. Len(q) - 1 :
              RemoveAt(q, k)[m] = IF m < k THEN q[m] ELSE q[m + 1]
PROOF
  <1> DEFINE front == SubSeq(q, 1, k - 1)
             back  == SubSeq(q, k + 1, Len(q))
             cat   == front \o back
  <1>1. k \in 1 .. Len(q) /\ Len(q) \in Nat
    BY LenProperties
  <1>2. /\ front \in Seq(S) /\ Len(front) = k - 1
        /\ \A m \in 1 .. k - 1 : front[m] = q[m]
    BY <1>1
  <1>3. /\ back \in Seq(S) /\ Len(back) = Len(q) - k
        /\ \A m \in 1 .. Len(q) - k : back[m] = q[k + m]
    BY <1>1
  <1>4. /\ cat \in Seq(S)
        /\ Len(cat) = Len(front) + Len(back)
        /\ \A m \in 1 .. Len(front) + Len(back) :
             cat[m] = IF m <= Len(front) THEN front[m] ELSE back[m - Len(front)]
    <2> HIDE DEF front, back
    <2> QED BY <1>2, <1>3, ConcatProperties
  <1> HIDE DEF front, back, cat
  <1>5. Len(front) + Len(back) = Len(q) - 1
    BY <1>1, <1>2, <1>3
  <1>6. \A m \in 1 .. Len(q) - 1 :
          cat[m] = IF m <= k - 1 THEN front[m] ELSE back[m - (k - 1)]
    BY <1>2, <1>4, <1>5
  <1>7. ASSUME NEW m \in 1 .. Len(q) - 1
        PROVE  cat[m] = IF m < k THEN q[m] ELSE q[m + 1]
    <2>1. CASE m < k
      <3>1. m \in 1 .. k - 1
        BY <1>1, <2>1
      <3> QED BY <1>1, <1>2, <1>6, <2>1, <3>1
    <2>2. CASE ~(m < k)
      <3>1. m - (k - 1) \in 1 .. Len(q) - k /\ k + (m - (k - 1)) = m + 1 /\ ~(m <= k - 1)
        BY <1>1, <2>2
      <3>2. cat[m] = back[m - (k - 1)]
        BY <1>6, <3>1
      <3>3. back[m - (k - 1)] = q[m + 1]
        BY <1>3, <3>1
      <3> QED BY <2>2, <3>2, <3>3
    <2> QED BY <2>1, <2>2
  <1>8. cat \in Seq(S) /\ Len(cat) = Len(q) - 1 /\ DOMAIN cat = 1 .. Len(q) - 1
    BY <1>4, <1>5, LenProperties
  <1> QED BY <1>7, <1>8 DEF RemoveAt, cat, front, back

\* firstWaitingQueueIndex finds at most one item.
LEMMA FirstWaitingUnique ==
  ASSUME NEW q \in Seq(Item), NEW k, NEW l, IsFirstWaiting(q, k), IsFirstWaiting(q, l)
  PROVE  k = l
PROOF BY LenProperties DEF IsFirstWaiting

\* Marking the first waiting item changes its state and nothing else.
LEMMA SetFirstWaitingProperties ==
  ASSUME NEW q \in Seq(Item), NEW s \in ItemState
  PROVE  /\ SetFirstWaiting(q, s) \in Seq(Item)
         /\ DOMAIN SetFirstWaiting(q, s) = DOMAIN q
         /\ \A k \in DOMAIN q :
              /\ SetFirstWaiting(q, s)[k].id = q[k].id
              /\ SetFirstWaiting(q, s)[k].state = IF IsFirstWaiting(q, k) THEN s ELSE q[k].state
PROOF
  <1>1. \A k \in DOMAIN q : q[k] \in Item
    BY LenProperties
  <1>2. /\ DOMAIN SetFirstWaiting(q, s) = DOMAIN q
        /\ \A k \in DOMAIN q :
              /\ SetFirstWaiting(q, s)[k] \in Item
              /\ SetFirstWaiting(q, s)[k].id = q[k].id
              /\ SetFirstWaiting(q, s)[k].state = IF IsFirstWaiting(q, k) THEN s ELSE q[k].state
    BY <1>1 DEF SetFirstWaiting, Item
  <1>3. SetFirstWaiting(q, s) \in [1 .. Len(q) -> Item]
    BY <1>2, LenProperties DEF SetFirstWaiting
  <1> QED BY <1>2, <1>3, SeqDef, LenProperties

(***************************************************************************)
(* Types.                                                                  *)
(***************************************************************************)
\* A new job is a job.
LEMMA NewJobType == NewJob \in Job
PROOF BY EmptySeq DEF NewJob, Job, JobStatus, ReceiptState, PauseReason, Life

\* The fields of a job have their types.
LEMMA JobFields ==
  ASSUME NEW j \in Job
  PROVE  /\ j.status \in JobStatus /\ j.queue \in Seq(Item)
         /\ j.receipt \in [Id -> ReceiptState] /\ j.pause \in PauseReason
         /\ j.active \in Id \cup {NoId} /\ j.life \in Life
         /\ DOMAIN j.queue = 1 .. Len(j.queue) /\ Len(j.queue) \in Nat
         /\ \A k \in DOMAIN j.queue :
              /\ j.queue[k] \in Item
              /\ j.queue[k].id \in QueueId /\ j.queue[k].id \in Id
              /\ j.queue[k].state \in ItemState
PROOF
  <1>1. /\ j.status \in JobStatus /\ j.queue \in Seq(Item)
        /\ j.receipt \in [Id -> ReceiptState] /\ j.pause \in PauseReason
        /\ j.active \in Id \cup {NoId} /\ j.life \in Life
    BY DEF Job
  <1>2. DOMAIN j.queue = 1 .. Len(j.queue) /\ Len(j.queue) \in Nat
        /\ \A k \in DOMAIN j.queue : j.queue[k] \in Item
    BY <1>1, LenProperties
  <1> QED BY <1>1, <1>2 DEF Item, Id

\* SubmitMessage's mutation keeps the job well formed.
LEMMA SubmittedType ==
  ASSUME NEW j \in Job, NEW i \in QueueId
  PROVE  Submitted(j, i) \in Job
PROOF
  <1>1. [id |-> i, state |-> "queued"] \in Item
    BY DEF Item, ItemState
  <1>2. Append(j.queue, [id |-> i, state |-> "queued"]) \in Seq(Item)
    BY <1>1, JobFields, AppendProperties
  <1> QED BY <1>2 DEF Submitted, Job, Id, ReceiptState

\* SendMessage's mutation keeps the job well formed.
LEMMA StartedType ==
  ASSUME NEW j \in Job, NEW i \in Id
  PROVE  Started(j, i) \in Job
PROOF
  <1>1. SetFirstWaiting(j.queue, "processing") \in Seq(Item)
    BY JobFields, SetFirstWaitingProperties DEF ItemState
  <1> QED BY <1>1 DEF Started, Job, JobStatus, ReceiptState

\* So do finishJob, stopJob and failJob.
LEMMA TerminatedType ==
  ASSUME NEW j \in Job, NEW outcome \in Outcome,
         NEW status \in {"none", "completed", "failed"}
  PROVE  Terminated(j, outcome, status) \in Job
PROOF BY DEF Terminated, Job, JobStatus, ReceiptState, Outcome

\* So does removing an item.
LEMMA WithoutItemType ==
  ASSUME NEW j \in Job, NEW k \in DOMAIN j.queue
  PROVE  WithoutItem(j, k) \in Job
PROOF
  <1>1. RemoveAt(j.queue, k) \in Seq(Item)
    BY JobFields, RemoveAtProperties
  <1> QED BY <1>1 DEF WithoutItem, Job

\* So does DeleteQueuedMessage.
LEMMA DeletedType ==
  ASSUME NEW j \in Job, NEW k \in DOMAIN j.queue
  PROVE  Deleted(j, k) \in Job
PROOF
  <1>1. RemoveAt(j.queue, k) \in Seq(Item) /\ j.queue[k].id \in Id
    BY JobFields, RemoveAtProperties
  <1> QED BY <1>1 DEF Deleted, Job, ReceiptState, PauseReason

\* So does blockMessageQueueHead.
LEMMA BlockedType ==
  ASSUME NEW j \in Job, NEW i \in Id
  PROVE  Blocked(j, i) \in Job
PROOF
  <1>1. SetFirstWaiting(j.queue, "blocked") \in Seq(Item)
    BY JobFields, SetFirstWaitingProperties DEF ItemState
  <1> QED BY <1>1 DEF Blocked, Job, ReceiptState, PauseReason

\* So do pausing and resuming.
LEMMA PauseType ==
  ASSUME NEW j \in Job
  PROVE  Resumed(j) \in Job /\ Stopped(j) \in Job
PROOF BY DEF Resumed, Stopped, Job, PauseReason

\* So do tombstoning and removal.
LEMMA LifeType ==
  ASSUME NEW j \in Job, NEW l \in Life
  PROVE  [j EXCEPT !.life = l] \in Job
PROOF BY DEF Job

\* So does reconcileLoadedJob.
LEMMA ReconciledType ==
  ASSUME NEW j \in Job
  PROVE  Reconciled(j) \in Job
PROOF BY DEF Reconciled, Job, JobStatus, ReceiptState

\* So does reconcileInterruptedMessageQueueItems.
LEMMA WithoutInterruptedType ==
  ASSUME NEW j \in Job, HeadInterrupted(j)
  PROVE  WithoutInterrupted(j) \in Job
PROOF
  <1>1. Tail(j.queue) \in Seq(Item) /\ j.queue[1].id \in Id
    BY JobFields, HeadTailProperties, EmptySeq DEF HeadInterrupted
  <1> QED BY <1>1 DEF WithoutInterrupted, Job, ReceiptState

(***************************************************************************)
(* Coherence: each mutation, under its guard, keeps queue and receipts in  *)
(* agreement.                                                              *)
(***************************************************************************)
\* A new job has an empty queue.
LEMMA NewJobCoherent == Coherent(NewJob)
PROOF BY EmptySeq DEF NewJob, Coherent, ItemsMatch, NoTwin, ActiveMatches

\* SubmitMessage appends a message that has no receipt, so none is queued twice.
LEMMA SubmittedCoherent ==
  ASSUME NEW j \in Job, NEW i \in QueueId, Coherent(j), MaySubmit(j, i)
  PROVE  Coherent(Submitted(j, i))
PROOF
  <1> DEFINE item == [id |-> i, state |-> "queued"]
             q == Append(j.queue, item)
             n == Submitted(j, i)
  <1>1. item \in Item
    BY DEF Item, ItemState
  <1>2. /\ DOMAIN q = 1 .. Len(j.queue) + 1
        /\ \A k \in DOMAIN j.queue : q[k] = j.queue[k]
        /\ q[Len(j.queue) + 1] = item
    BY <1>1, JobFields, AppendProperties, LenProperties
  <1>3. /\ n.queue = q /\ n.active = j.active
        /\ n.receipt = [j.receipt EXCEPT ![i] = "queued"]
    BY DEF Submitted, Job
  <1>4. j.receipt[i] = "none" /\ i \in Id
    BY DEF MaySubmit, Id
  <1>5. \A k \in DOMAIN j.queue : j.queue[k].id # i
    BY <1>4, JobFields DEF Coherent, ItemsMatch, Claimed, ItemState
  <1> HIDE DEF n, q
  <1>6. ItemsMatch(n)
    <2> SUFFICES ASSUME NEW k \in DOMAIN q
                 PROVE  IF q[k].state = "processing"
                        THEN n.receipt[q[k].id] \in Claimed
                        ELSE n.receipt[q[k].id] = q[k].state
      BY <1>3 DEF ItemsMatch
    <2>1. CASE k = Len(j.queue) + 1
      BY <1>2, <1>3, <1>4, <2>1, JobFields
    <2>2. CASE k \in DOMAIN j.queue
      <3>1. n.receipt[q[k].id] = j.receipt[j.queue[k].id]
        BY <1>2, <1>3, <1>5, <2>2, JobFields
      <3> QED BY <1>2, <2>2, <3>1 DEF Coherent, ItemsMatch
    <2>3. Len(j.queue) \in Nat /\ DOMAIN j.queue = 1 .. Len(j.queue)
      BY JobFields
    <2> QED BY <1>2, <2>1, <2>2, <2>3
  <1>7. NoTwin(n)
    BY <1>2, <1>3, <1>5, JobFields DEF Coherent, NoTwin
  <1>8. ActiveMatches(n)
    BY <1>3, <1>4, JobFields DEF Coherent, ActiveMatches
  <1> QED BY <1>6, <1>7, <1>8 DEF n, Coherent

\* SendMessage claims the first waiting item, or a message that is not queued.
LEMMA StartedCoherent ==
  ASSUME NEW j \in Job, NEW i \in Id, Coherent(j), MayStart(j, i)
  PROVE  Coherent(Started(j, i))
PROOF
  <1> DEFINE n == Started(j, i)
  <1>1. /\ n.active = i
        /\ n.receipt = [j.receipt EXCEPT ![i] = "processing"]
        /\ n.queue = IF j.receipt[i] = "queued"
                     THEN SetFirstWaiting(j.queue, "processing") ELSE j.queue
    BY DEF Started, Job
  <1>2. /\ DOMAIN n.queue = DOMAIN j.queue
        /\ \A k \in DOMAIN j.queue : n.queue[k].id = j.queue[k].id
    BY <1>1, JobFields, SetFirstWaitingProperties DEF ItemState
  <1>3. ASSUME NEW k \in DOMAIN j.queue
        PROVE  IF n.queue[k].state = "processing"
               THEN n.receipt[n.queue[k].id] \in Claimed
               ELSE n.receipt[n.queue[k].id] = n.queue[k].state
    <2>1. CASE j.queue[k].id = i
      <3>1. j.receipt[i] = "queued"
        BY <2>1, JobFields DEF MayStart, Coherent, ItemsMatch, Claimed, ItemState
      <3>2. PICK l \in DOMAIN j.queue : IsFirstWaiting(j.queue, l) /\ j.queue[l].id = i
        BY <3>1 DEF MayStart, HeadIs
      <3>3. k = l
        BY <2>1, <3>2 DEF Coherent, NoTwin
      <3>4. n.queue[k].state = "processing"
        BY <1>1, <3>1, <3>2, <3>3, JobFields, SetFirstWaitingProperties DEF ItemState
      <3> QED BY <1>1, <1>2, <2>1, <3>4, JobFields DEF Claimed
    <2>2. CASE j.queue[k].id # i
      <3>1. n.receipt[n.queue[k].id] = j.receipt[j.queue[k].id]
        BY <1>1, <1>2, <2>2, JobFields
      <3>2. ~(j.receipt[i] = "queued" /\ IsFirstWaiting(j.queue, k))
        BY <2>2, JobFields, FirstWaitingUnique DEF MayStart, HeadIs
      <3>3. n.queue[k].state = j.queue[k].state
        BY <1>1, <3>2, JobFields, SetFirstWaitingProperties DEF ItemState
      <3> QED BY <1>2, <3>1, <3>3 DEF Coherent, ItemsMatch
    <2> QED BY <2>1, <2>2
  <1>4. ItemsMatch(n)
    BY <1>2, <1>3 DEF ItemsMatch
  <1>5. NoTwin(n)
    BY <1>2 DEF Coherent, NoTwin
  <1>6. ActiveMatches(n)
    BY <1>1, JobFields DEF ActiveMatches
  <1> QED BY <1>4, <1>5, <1>6 DEF Coherent

\* blockMessageQueueHead marks the head and its receipt alike.
LEMMA BlockedCoherent ==
  ASSUME NEW j \in Job, NEW i \in Id, Coherent(j), HeadIs(j.queue, i)
  PROVE  Coherent(Blocked(j, i))
PROOF
  <1> DEFINE n == Blocked(j, i)
  <1>1. /\ n.active = j.active
        /\ n.receipt = [j.receipt EXCEPT ![i] = "blocked"]
        /\ n.queue = SetFirstWaiting(j.queue, "blocked")
    BY DEF Blocked, Job
  <1>2. /\ DOMAIN n.queue = DOMAIN j.queue
        /\ \A k \in DOMAIN j.queue :
             /\ n.queue[k].id = j.queue[k].id
             /\ n.queue[k].state = IF IsFirstWaiting(j.queue, k) THEN "blocked" ELSE j.queue[k].state
    BY <1>1, JobFields, SetFirstWaitingProperties DEF ItemState
  <1>3. PICK l \in DOMAIN j.queue : IsFirstWaiting(j.queue, l) /\ j.queue[l].id = i
    BY DEF HeadIs
  <1>4. \A k \in DOMAIN j.queue : IsFirstWaiting(j.queue, k) <=> k = l
    BY <1>3, JobFields, FirstWaitingUnique
  <1>5. j.receipt[i] = j.queue[l].state /\ j.receipt[i] # "processing"
    BY <1>3 DEF IsFirstWaiting, Coherent, ItemsMatch
  <1>6. ASSUME NEW k \in DOMAIN j.queue
        PROVE  IF n.queue[k].state = "processing"
               THEN n.receipt[n.queue[k].id] \in Claimed
               ELSE n.receipt[n.queue[k].id] = n.queue[k].state
    <2>1. CASE k = l
      BY <1>1, <1>2, <1>3, <1>4, <2>1, JobFields
    <2>2. CASE k # l
      <3>1. j.queue[k].id # i
        BY <1>3, <2>2 DEF Coherent, NoTwin
      <3>2. n.receipt[n.queue[k].id] = j.receipt[j.queue[k].id]
        BY <1>1, <1>2, <3>1, JobFields
      <3> QED BY <1>2, <1>4, <2>2, <3>2 DEF Coherent, ItemsMatch
    <2> QED BY <2>1, <2>2
  <1>7. ItemsMatch(n)
    BY <1>2, <1>6 DEF ItemsMatch
  <1>8. NoTwin(n)
    BY <1>2 DEF Coherent, NoTwin
  <1>9. ActiveMatches(n)
    BY <1>1, <1>5, JobFields DEF Coherent, ActiveMatches
  <1> QED BY <1>7, <1>8, <1>9 DEF Coherent

\* A run's end moves the active message's receipt from processing to its outcome,
\* and an active message is no waiting item.
LEMMA TerminatedCoherent ==
  ASSUME NEW j \in Job, NEW outcome \in Outcome, NEW status, Coherent(j)
  PROVE  Coherent(Terminated(j, outcome, status))
PROOF
  <1> DEFINE n == Terminated(j, outcome, status)
  <1>1. /\ n.active = NoId /\ n.queue = j.queue
        /\ n.receipt = [i \in Id |-> IF i = j.active THEN outcome ELSE j.receipt[i]]
    BY DEF Terminated, Job
  <1>2. \A k \in DOMAIN j.queue :
          j.queue[k].id = j.active => j.queue[k].state = "processing"
    BY JobFields, IdAssumption DEF Coherent, ItemsMatch, ActiveMatches, Id
  <1>3. outcome \in Claimed
    BY DEF Outcome, Claimed
  <1>4. ItemsMatch(n)
    BY <1>1, <1>2, <1>3, JobFields DEF Coherent, ItemsMatch
  <1> QED BY <1>1, <1>4 DEF Coherent, NoTwin, ActiveMatches

\* Removing an item leaves the others as they are.
LEMMA WithoutItemCoherent ==
  ASSUME NEW j \in Job, NEW k \in DOMAIN j.queue, Coherent(j)
  PROVE  Coherent(WithoutItem(j, k))
PROOF
  <1> DEFINE n == WithoutItem(j, k)
             old(m) == IF m < k THEN m ELSE m + 1
  <1>1. n.active = j.active /\ n.receipt = j.receipt /\ n.queue = RemoveAt(j.queue, k)
    BY DEF WithoutItem, Job
  <1> HIDE DEF n
  <1>2. /\ DOMAIN n.queue = 1 .. Len(j.queue) - 1
        /\ \A m \in DOMAIN n.queue : n.queue[m] = j.queue[old(m)]
    <2>1. j.queue \in Seq(Item)
      BY JobFields
    <2>2. /\ DOMAIN RemoveAt(j.queue, k) = 1 .. Len(j.queue) - 1
          /\ \A m \in 1 .. Len(j.queue) - 1 :
               RemoveAt(j.queue, k)[m] = IF m < k THEN j.queue[m] ELSE j.queue[m + 1]
      BY <2>1, RemoveAtProperties
    <2> QED BY <1>1, <2>2
  <1>3. /\ \A m \in DOMAIN n.queue : old(m) \in DOMAIN j.queue
        /\ \A m, l \in DOMAIN n.queue : old(m) = old(l) => m = l
    BY <1>2, JobFields
  <1> HIDE DEF old
  <1>4. ItemsMatch(n) /\ NoTwin(n) /\ ActiveMatches(n)
    BY <1>1, <1>2, <1>3 DEF Coherent, ItemsMatch, NoTwin, ActiveMatches
  <1> QED BY <1>4 DEF Coherent, n

\* DeleteQueuedMessage takes a waiting item away and leaves a receipt that no other
\* item and no active message has.
LEMMA DeletedCoherent ==
  ASSUME NEW j \in Job, NEW k, Coherent(j), MayDelete(j, k)
  PROVE  Coherent(Deleted(j, k))
PROOF
  <1> DEFINE n == Deleted(j, k)
             old(m) == IF m < k THEN m ELSE m + 1
             i == j.queue[k].id
  <1>0. k \in DOMAIN j.queue /\ j.queue[k].state # "processing" /\ i \in Id
    BY JobFields DEF MayDelete
  <1>1. /\ n.active = j.active /\ n.queue = RemoveAt(j.queue, k)
        /\ n.receipt = [j.receipt EXCEPT ![i] = "deleted"]
    BY <1>0 DEF Deleted, Job
  <1>2. /\ DOMAIN n.queue = 1 .. Len(j.queue) - 1
        /\ \A m \in DOMAIN n.queue : n.queue[m] = j.queue[old(m)]
    <2>1. j.queue \in Seq(Item)
      BY JobFields
    <2>2. /\ DOMAIN RemoveAt(j.queue, k) = 1 .. Len(j.queue) - 1
          /\ \A m \in 1 .. Len(j.queue) - 1 :
               RemoveAt(j.queue, k)[m] = IF m < k THEN j.queue[m] ELSE j.queue[m + 1]
      BY <1>0, <2>1, RemoveAtProperties
    <2> HIDE DEF n
    <2> QED BY <1>1, <2>2
  <1>3. /\ \A m \in DOMAIN n.queue : old(m) \in DOMAIN j.queue /\ old(m) # k
        /\ \A m, l \in DOMAIN n.queue : old(m) = old(l) => m = l
    BY <1>0, <1>2, JobFields
  <1>4. \A m \in DOMAIN n.queue : n.queue[m].id # i
    BY <1>0, <1>2, <1>3 DEF Coherent, NoTwin
  <1>5. j.receipt[i] = j.queue[k].state
    BY <1>0 DEF Coherent, ItemsMatch
  <1> HIDE DEF old, n
  <1>6. ItemsMatch(n)
    <2> SUFFICES ASSUME NEW m \in DOMAIN n.queue
                 PROVE  IF n.queue[m].state = "processing"
                        THEN n.receipt[n.queue[m].id] \in Claimed
                        ELSE n.receipt[n.queue[m].id] = n.queue[m].state
      BY DEF ItemsMatch
    <2>1. n.receipt[n.queue[m].id] = j.receipt[n.queue[m].id]
      BY <1>1, <1>2, <1>3, <1>4, JobFields
    <2> QED BY <1>2, <1>3, <2>1 DEF Coherent, ItemsMatch
  <1>7. NoTwin(n)
    BY <1>2, <1>3 DEF Coherent, NoTwin
  <1>8. ActiveMatches(n)
    BY <1>0, <1>1, <1>5, JobFields DEF Coherent, ActiveMatches
  <1> QED BY <1>6, <1>7, <1>8 DEF Coherent, n

\* A change of the other fields does not matter.
LEMMA OtherFieldsCoherent ==
  ASSUME NEW j \in Job, NEW l, Coherent(j)
  PROVE  Coherent(Resumed(j)) /\ Coherent(Stopped(j)) /\ Coherent([j EXCEPT !.life = l])
PROOF BY DEF Resumed, Stopped, Job, Coherent, ItemsMatch, NoTwin, ActiveMatches

\* reconcileLoadedJob interrupts the active message, which is no waiting item.
LEMMA ReconciledCoherent ==
  ASSUME NEW j \in Job, Coherent(j)
  PROVE  Coherent(Reconciled(j))
PROOF
  <1>1. CASE j.status # "running"
    BY <1>1 DEF Reconciled
  <1>2. CASE j.status = "running"
    <2> DEFINE n == Reconciled(j)
    <2>1. /\ n.active = NoId /\ n.queue = j.queue
          /\ n.receipt = [i \in Id |-> IF i = j.active THEN "interrupted" ELSE j.receipt[i]]
      BY <1>2 DEF Reconciled, Job
    <2>2. \A k \in DOMAIN j.queue :
            j.queue[k].id = j.active => j.queue[k].state = "processing"
      BY JobFields, IdAssumption DEF Coherent, ItemsMatch, ActiveMatches, Id
    <2>3. ItemsMatch(n)
      BY <2>1, <2>2, JobFields DEF Coherent, ItemsMatch, Claimed
    <2> QED BY <2>1, <2>3 DEF Coherent, NoTwin, ActiveMatches
  <1> QED BY <1>1, <1>2

\* reconcileInterruptedMessageQueueItems drops a claimed head.
LEMMA WithoutInterruptedCoherent ==
  ASSUME NEW j \in Job, Coherent(j), HeadInterrupted(j)
  PROVE  Coherent(WithoutInterrupted(j))
PROOF
  <1> DEFINE n == WithoutInterrupted(j)
             i == j.queue[1].id
  <1>1. /\ n.queue = Tail(j.queue)
        /\ n.receipt = [j.receipt EXCEPT ![i] = IF @ = "processing" THEN "interrupted" ELSE @]
        /\ n.active = IF j.active = i THEN NoId ELSE j.active
    BY DEF WithoutInterrupted, Job
  <1>2. /\ 1 \in DOMAIN j.queue /\ i \in Id
        /\ DOMAIN n.queue = 1 .. Len(j.queue) - 1
        /\ \A m \in DOMAIN n.queue : m + 1 \in DOMAIN j.queue /\ n.queue[m] = j.queue[m + 1]
    BY <1>1, JobFields, HeadTailProperties, EmptySeq, LenProperties DEF HeadInterrupted
  <1>3. \A m \in DOMAIN n.queue : n.queue[m].id # i
    BY <1>2, JobFields DEF Coherent, NoTwin
  <1> HIDE DEF n
  <1>4. ItemsMatch(n)
    <2> SUFFICES ASSUME NEW m \in DOMAIN n.queue
                 PROVE  IF n.queue[m].state = "processing"
                        THEN n.receipt[n.queue[m].id] \in Claimed
                        ELSE n.receipt[n.queue[m].id] = n.queue[m].state
      BY DEF ItemsMatch
    <2>1. n.receipt[n.queue[m].id] = j.receipt[n.queue[m].id]
      BY <1>1, <1>2, <1>3, JobFields
    <2> QED BY <1>2, <2>1 DEF Coherent, ItemsMatch
  <1>5. NoTwin(n)
    <2> SUFFICES ASSUME NEW m \in DOMAIN n.queue, NEW l \in DOMAIN n.queue,
                        n.queue[m].id = n.queue[l].id
                 PROVE  m = l
      BY DEF NoTwin
    <2>1. m + 1 = l + 1
      BY <1>2 DEF Coherent, NoTwin
    <2>2. m \in Int /\ l \in Int
      BY <1>2, JobFields
    <2> QED BY <2>1, <2>2
  <1>6. ActiveMatches(n)
    BY <1>1, <1>2, JobFields DEF Coherent, ActiveMatches
  <1> QED BY <1>4, <1>5, <1>6 DEF Coherent, n

(***************************************************************************)
(* Receipts and waiting messages: no mutation forgets that a message was   *)
(* claimed or deleted, and a waiting message leaves the queue only when it *)
(* is claimed or deleted.                                                  *)
(***************************************************************************)
ReceiptsKept(j, n) ==
  \A m \in Id :
    /\ j.receipt[m] \in Claimed => n.receipt[m] \in Claimed
    /\ j.receipt[m] = "deleted" => n.receipt[m] = "deleted"

WaitsKept(j, n) == \A m \in QueueId : Waits(j, m) => Waits(n, m)

\* SubmitMessage adds one waiting message.
LEMMA SubmittedKeeps ==
  ASSUME NEW j \in Job, NEW i \in QueueId, MaySubmit(j, i)
  PROVE  /\ ReceiptsKept(j, Submitted(j, i))
         /\ WaitsKept(j, Submitted(j, i))
         /\ Waits(Submitted(j, i), i)
PROOF
  <1> DEFINE item == [id |-> i, state |-> "queued"]
             q == Append(j.queue, item)
             n == Submitted(j, i)
  <1>1. item \in Item
    BY DEF Item, ItemState
  <1>2. /\ DOMAIN q = 1 .. Len(j.queue) + 1
        /\ \A k \in DOMAIN j.queue : q[k] = j.queue[k]
        /\ q[Len(j.queue) + 1] = item
    BY <1>1, JobFields, AppendProperties, LenProperties
  <1>3. n.queue = q /\ n.receipt = [j.receipt EXCEPT ![i] = "queued"]
    BY DEF Submitted, Job
  <1>4. j.receipt[i] = "none" /\ i \in Id
    BY DEF MaySubmit, Id
  <1> HIDE DEF n, q
  <1>5. ReceiptsKept(j, n)
    BY <1>3, <1>4, JobFields DEF ReceiptsKept, Claimed
  <1>6. WaitsKept(j, n) /\ Waits(n, i)
    BY <1>2, <1>3, JobFields DEF WaitsKept, Waits
  <1> QED BY <1>5, <1>6 DEF n

\* SendMessage takes away the message it claims, and no other.
LEMMA StartedKeeps ==
  ASSUME NEW j \in Job, NEW i \in Id, MayStart(j, i)
  PROVE  /\ ReceiptsKept(j, Started(j, i))
         /\ \A m \in QueueId : m # i /\ Waits(j, m) => Waits(Started(j, i), m)
         /\ Started(j, i).receipt[i] = "processing"
PROOF
  <1> DEFINE n == Started(j, i)
  <1>1. /\ n.receipt = [j.receipt EXCEPT ![i] = "processing"]
        /\ n.queue = IF j.receipt[i] = "queued"
                     THEN SetFirstWaiting(j.queue, "processing") ELSE j.queue
    BY DEF Started, Job
  <1>2. ReceiptsKept(j, n) /\ n.receipt[i] = "processing"
    BY <1>1, JobFields DEF ReceiptsKept, Claimed, MayStart
  <1>3. ASSUME NEW m \in QueueId, m # i, Waits(j, m)
        PROVE  Waits(n, m)
    <2>1. PICK k \in DOMAIN j.queue : j.queue[k].id = m /\ j.queue[k].state # "processing"
      BY <1>3 DEF Waits
    <2>2. ~(j.receipt[i] = "queued" /\ IsFirstWaiting(j.queue, k))
      BY <1>3, <2>1, JobFields, FirstWaitingUnique DEF MayStart, HeadIs
    <2>3. k \in DOMAIN n.queue /\ n.queue[k].id = m /\ n.queue[k].state # "processing"
      BY <1>1, <2>1, <2>2, JobFields, SetFirstWaitingProperties DEF ItemState
    <2> QED BY <2>3 DEF Waits
  <1> QED BY <1>2, <1>3

\* DeleteQueuedMessage takes away the message it deletes, and no other.
LEMMA DeletedKeeps ==
  ASSUME NEW j \in Job, NEW k, Coherent(j), MayDelete(j, k)
  PROVE  /\ ReceiptsKept(j, Deleted(j, k))
         /\ j.queue[k].id \in QueueId
         /\ Deleted(j, k).receipt[j.queue[k].id] = "deleted"
         /\ \A m \in QueueId : m # j.queue[k].id /\ Waits(j, m) => Waits(Deleted(j, k), m)
PROOF
  <1> DEFINE n == Deleted(j, k)
             i == j.queue[k].id
  <1>0. /\ k \in DOMAIN j.queue /\ j.queue[k].state # "processing"
        /\ i \in Id /\ i \in QueueId /\ j.queue[k].state \in ItemState
    BY JobFields DEF MayDelete
  <1>1. /\ n.queue = RemoveAt(j.queue, k)
        /\ n.receipt = [j.receipt EXCEPT ![i] = "deleted"]
    BY <1>0 DEF Deleted, Job
  <1>2. j.receipt[i] = j.queue[k].state
    BY <1>0 DEF Coherent, ItemsMatch
  <1>3. ReceiptsKept(j, n) /\ n.receipt[i] = "deleted"
    BY <1>0, <1>1, <1>2, JobFields DEF ReceiptsKept, Claimed, ItemState
  <1>4. j.queue \in Seq(Item)
    BY JobFields
  <1>5. /\ DOMAIN RemoveAt(j.queue, k) = 1 .. Len(j.queue) - 1
        /\ \A m \in 1 .. Len(j.queue) - 1 :
             RemoveAt(j.queue, k)[m] = IF m < k THEN j.queue[m] ELSE j.queue[m + 1]
    BY <1>0, <1>4, RemoveAtProperties
  <1> HIDE DEF n
  <1>6. ASSUME NEW m \in QueueId, m # i, Waits(j, m)
        PROVE  Waits(n, m)
    <2>1. PICK l \in DOMAIN j.queue : j.queue[l].id = m /\ j.queue[l].state # "processing"
      BY <1>6 DEF Waits
    <2>2. l # k /\ l \in 1 .. Len(j.queue) /\ k \in 1 .. Len(j.queue) /\ Len(j.queue) \in Nat
      BY <1>0, <1>6, <2>1, JobFields
    <2>3. CASE l < k
      BY <1>1, <1>5, <2>1, <2>2, <2>3 DEF Waits
    <2>4. CASE k < l
      <3>1. l - 1 \in DOMAIN n.queue /\ n.queue[l - 1] = j.queue[l]
        BY <1>1, <1>5, <2>2, <2>4
      <3> QED BY <2>1, <3>1 DEF Waits
    <2> QED BY <2>2, <2>3, <2>4
  <1> QED BY <1>0, <1>3, <1>6 DEF n

\* blockMessageQueueHead keeps the head waiting.
LEMMA BlockedKeeps ==
  ASSUME NEW j \in Job, NEW i \in Id, Coherent(j), HeadIs(j.queue, i)
  PROVE  ReceiptsKept(j, Blocked(j, i)) /\ WaitsKept(j, Blocked(j, i))
PROOF
  <1> DEFINE n == Blocked(j, i)
  <1>1. /\ n.receipt = [j.receipt EXCEPT ![i] = "blocked"]
        /\ n.queue = SetFirstWaiting(j.queue, "blocked")
    BY DEF Blocked, Job
  <1>2. j.receipt[i] \in {"queued", "blocked"}
    BY JobFields DEF HeadIs, IsFirstWaiting, Coherent, ItemsMatch, ItemState
  <1>3. ReceiptsKept(j, n)
    BY <1>1, <1>2, JobFields DEF ReceiptsKept, Claimed
  <1>4. /\ DOMAIN n.queue = DOMAIN j.queue
        /\ \A k \in DOMAIN j.queue :
             /\ n.queue[k].id = j.queue[k].id
             /\ n.queue[k].state = IF IsFirstWaiting(j.queue, k) THEN "blocked" ELSE j.queue[k].state
    BY <1>1, JobFields, SetFirstWaitingProperties DEF ItemState
  <1>5. WaitsKept(j, n)
    BY <1>4 DEF WaitsKept, Waits
  <1> QED BY <1>3, <1>5

\* completeClaimedQueueItem removes a claimed item, which does not wait.
LEMMA WithoutItemKeeps ==
  ASSUME NEW j \in Job, NEW k \in DOMAIN j.queue, j.queue[k].state = "processing"
  PROVE  ReceiptsKept(j, WithoutItem(j, k)) /\ WaitsKept(j, WithoutItem(j, k))
PROOF
  <1> DEFINE n == WithoutItem(j, k)
  <1>1. n.receipt = j.receipt /\ n.queue = RemoveAt(j.queue, k)
    BY DEF WithoutItem, Job
  <1>2. j.queue \in Seq(Item)
    BY JobFields
  <1>3. /\ DOMAIN RemoveAt(j.queue, k) = 1 .. Len(j.queue) - 1
        /\ \A m \in 1 .. Len(j.queue) - 1 :
             RemoveAt(j.queue, k)[m] = IF m < k THEN j.queue[m] ELSE j.queue[m + 1]
    BY <1>2, RemoveAtProperties
  <1> HIDE DEF n
  <1>4. ASSUME NEW m \in QueueId, Waits(j, m)
        PROVE  Waits(n, m)
    <2>1. PICK l \in DOMAIN j.queue : j.queue[l].id = m /\ j.queue[l].state # "processing"
      BY <1>4 DEF Waits
    <2>2. l # k /\ l \in 1 .. Len(j.queue) /\ k \in 1 .. Len(j.queue) /\ Len(j.queue) \in Nat
      BY <2>1, JobFields
    <2>3. CASE l < k
      BY <1>1, <1>3, <2>1, <2>2, <2>3 DEF Waits
    <2>4. CASE k < l
      <3>1. l - 1 \in DOMAIN n.queue /\ n.queue[l - 1] = j.queue[l]
        BY <1>1, <1>3, <2>2, <2>4
      <3> QED BY <2>1, <3>1 DEF Waits
    <2> QED BY <2>2, <2>3, <2>4
  <1> QED BY <1>1, <1>4 DEF n, ReceiptsKept, WaitsKept

\* The end of a run, in either way, leaves the queue alone.
LEMMA TerminatedKeeps ==
  ASSUME NEW j \in Job, NEW outcome \in Outcome, NEW status, Coherent(j)
  PROVE  /\ ReceiptsKept(j, Terminated(j, outcome, status))
         /\ WaitsKept(j, Terminated(j, outcome, status))
PROOF BY JobFields, IdAssumption
      DEF Terminated, Job, ReceiptsKept, WaitsKept, Waits, Claimed, Outcome, Coherent,
          ActiveMatches, Id

\* So does reconcileLoadedJob.
LEMMA ReconciledKeeps ==
  ASSUME NEW j \in Job, Coherent(j)
  PROVE  ReceiptsKept(j, Reconciled(j)) /\ WaitsKept(j, Reconciled(j))
PROOF BY JobFields, IdAssumption
      DEF Reconciled, Job, ReceiptsKept, WaitsKept, Waits, Claimed, Coherent, ActiveMatches, Id

\* So do pausing, resuming and the tombstone.
LEMMA OtherFieldsKeep ==
  ASSUME NEW j \in Job, NEW l
  PROVE  /\ ReceiptsKept(j, Resumed(j)) /\ WaitsKept(j, Resumed(j))
         /\ ReceiptsKept(j, Stopped(j)) /\ WaitsKept(j, Stopped(j))
         /\ ReceiptsKept(j, [j EXCEPT !.life = l]) /\ WaitsKept(j, [j EXCEPT !.life = l])
PROOF BY DEF Resumed, Stopped, Job, ReceiptsKept, WaitsKept, Waits

\* reconcileInterruptedMessageQueueItems removes a claimed head.
LEMMA WithoutInterruptedKeeps ==
  ASSUME NEW j \in Job, HeadInterrupted(j)
  PROVE  ReceiptsKept(j, WithoutInterrupted(j)) /\ WaitsKept(j, WithoutInterrupted(j))
PROOF
  <1> DEFINE n == WithoutInterrupted(j)
             i == j.queue[1].id
  <1>1. /\ n.queue = Tail(j.queue)
        /\ n.receipt = [j.receipt EXCEPT ![i] = IF @ = "processing" THEN "interrupted" ELSE @]
    BY DEF WithoutInterrupted, Job
  <1>2. /\ 1 \in DOMAIN j.queue /\ i \in Id
        /\ DOMAIN n.queue = 1 .. Len(j.queue) - 1
        /\ \A m \in DOMAIN n.queue : m + 1 \in DOMAIN j.queue /\ n.queue[m] = j.queue[m + 1]
    BY <1>1, JobFields, HeadTailProperties, EmptySeq, LenProperties DEF HeadInterrupted
  <1> HIDE DEF n
  <1>3. ReceiptsKept(j, n)
    BY <1>1, <1>2, JobFields DEF ReceiptsKept, Claimed
  <1>4. ASSUME NEW m \in QueueId, Waits(j, m)
        PROVE  Waits(n, m)
    <2>1. PICK l \in DOMAIN j.queue : j.queue[l].id = m /\ j.queue[l].state # "processing"
      BY <1>4 DEF Waits
    <2>2. l # 1
      BY <2>1 DEF HeadInterrupted
    <2>3. l - 1 \in DOMAIN n.queue /\ (l - 1) + 1 = l
      BY <1>2, <2>2, JobFields
    <2> QED BY <1>2, <2>1, <2>3 DEF Waits
  <1> QED BY <1>3, <1>4 DEF n, WaitsKept

(***************************************************************************)
(* Control.                                                                *)
(***************************************************************************)
Starting(r) == run[r].pc = "starting"
Saving(r)   == run[r].pc \in {"termSave", "completeSave", "clearPauseSave"}
Holding(d)  == disp[d].pc \in {"sendSave", "blockSave"}

\* The persist shard has one holder.
LockInv ==
  /\ \A r \in Run : Starting(r) => lock.op \in {"direct", "dispatch"}
  /\ \A r, s \in Run : Starting(r) /\ Starting(s) => r = s
  /\ \A r \in Run : Saving(r) => lock.op = "run"
  /\ \A r, s \in Run : Saving(r) /\ Saving(s) => r = s
  /\ \A d \in Dispatcher : Holding(d) => lock.op = "dispatch"
  /\ \A d, e \in Dispatcher : Holding(d) /\ Holding(e) => d = e
  /\ \A d \in Dispatcher, r \in Run : disp[d].pc = "blockSave" => ~Starting(r)

\* Nothing runs before the service is up.
BootInv ==
  boot # "up" =>
    /\ lock = NoLock /\ kicks = 0
    /\ \A r \in Run : run[r].pc = "idle"
    /\ \A d \in Dispatcher : disp[d].pc = "idle"

\* A dispatcher past its check, a starting run and a handler carry a message.
CarryInv ==
  /\ \A d \in Dispatcher :
       disp[d].pc \in {"dones", "prepare", "send", "sendSave", "block", "blockSave"} =>
         disp[d].item \in QueueId
  /\ \A r \in Run : Starting(r) => run[r].id \in Id
  /\ lock.op \in {"submit", "delete"} => lock.id \in QueueId

\* A handler that holds the shard has its dispatch request reserved.
KickInv == lock.op \in {"submit", "continue"} => kicks < MaxKicks

ControlInv == LockInv /\ BootInv /\ CarryInv /\ KickInv

(***************************************************************************)
(* Data.                                                                   *)
(***************************************************************************)
\* What a copy of the job says agrees with the history.
Good(j) ==
  /\ Coherent(j)
  /\ \A i \in Id : execs[i] > 0 => j.receipt[i] \in Claimed
  /\ \A i \in dropped : j.receipt[i] = "deleted"

\* A copy of the job still has message i, or does not need it any more.
Settled(i) == execs[i] > 0 \/ i \in dropped
Kept(j)    == \A i \in acked : Waits(j, i) \/ Settled(i)

\* In memory a message may also be gone because its claim or its deletion is being
\* saved right now.
Pending(i) == \/ lock.op = "delete" /\ lock.id = i
              \/ \E r \in Run : Starting(r) /\ run[r].id = i
MemKept == \A i \in acked : Waits(mem, i) \/ Settled(i) \/ Pending(i)

LockData ==
  /\ lock.op = "delete" => mem.receipt[lock.id] = "deleted"
  /\ lock.op = "submit" => Waits(mem, lock.id)
  /\ \A r \in Run : Starting(r) => /\ execs[run[r].id] = 0
                                   /\ mem.receipt[run[r].id] = "processing"

DataInv ==
  /\ AtMostOnce
  /\ Good(mem) /\ Good(disk) /\ Good(saved)
  /\ Kept(disk) /\ Kept(saved) /\ MemKept
  /\ LockData

IInv == TypeOK /\ ControlInv /\ DataInv

(***************************************************************************)
(* Type correctness.                                                       *)
(***************************************************************************)
\* A fresh run and a fresh dispatcher are records of their kind.
LEMMA IdleTypes ==
  /\ IdleRun \in RunRecord /\ IdleDisp \in DispRecord
  /\ NoLock \in [op : LockOp, id : Id \cup {NoId}]
PROOF BY DEF IdleRun, RunRecord, RunPc, Outcome, IdleDisp, DispRecord, DispPc, NoLock, LockOp

\* requestMessageQueueDispatch spawns at most a dispatcher.
LEMMA RequestDispatchType ==
  ASSUME NEW ds \in [Dispatcher -> DispRecord], dispatching \in BOOLEAN, RequestDispatch(ds)
  PROVE  disp' \in [Dispatcher -> DispRecord] /\ dispatching' \in BOOLEAN
PROOF
  <1>1. CASE dispatching
    BY <1>1 DEF RequestDispatch
  <1>2. CASE ~dispatching
    <2>1. PICK d \in Dispatcher : disp' = [ds EXCEPT ![d].pc = "check"] /\ dispatching' = TRUE
      BY <1>2 DEF RequestDispatch
    <2>2. disp' \in [Dispatcher -> DispRecord]
      BY <2>1 DEF DispRecord, DispPc
    <2> QED BY <2>1, <2>2
  <1> QED BY <1>1, <1>2

\* Stop only marks runs.
LEMMA CancelRegisteredType ==
  ASSUME RunTypeOK, CancelRegistered
  PROVE  run' \in [Run -> RunRecord] /\ cancels' = NoRun
PROOF
  <1>1. \A r \in Run : run[r] \in RunRecord /\ (run[r].cancelled \/ r = cancels) \in BOOLEAN
    BY DEF RunTypeOK
  <1>2. \A r \in Run : [run[r] EXCEPT !.cancelled = @ \/ r = cancels] \in RunRecord
    BY <1>1 DEF RunRecord
  <1> QED BY <1>2 DEF CancelRegistered

\* Every action keeps the variables in their types.
LEMMA TypeStep ==
  ASSUME TypeOK, ControlInv, [Next]_vars
  PROVE  TypeOK'
PROOF
  <1> USE IdAssumption, SlotAssumption
  <1>1. ASSUME Kick
         PROVE  TypeOK'
    <2>1. DispTypeOK'
      BY <1>1, RequestDispatchType DEF TypeOK, DispTypeOK, Kick, jobVars, runVars,
         userVars, history
    <2>2. JobTypeOK' /\ RunTypeOK' /\ UserTypeOK' /\ HistoryTypeOK'
      BY <1>1 DEF TypeOK, JobTypeOK, RunTypeOK, UserTypeOK, HistoryTypeOK, Kick,
         jobVars, runVars, userVars, history
    <2> QED BY <2>1, <2>2 DEF TypeOK
  <1>2. ASSUME NEW i \in QueueId, Submit(i)
         PROVE  TypeOK'
    <2>1. JobTypeOK'
      BY <1>2, SubmittedType DEF TypeOK, JobTypeOK, Submit, Acquire, Unlocked, Id,
         LockOp, runVars, dispVars, userVars, history
    <2>2. RunTypeOK' /\ DispTypeOK' /\ UserTypeOK' /\ HistoryTypeOK'
      BY <1>2 DEF TypeOK, RunTypeOK, DispTypeOK, UserTypeOK, HistoryTypeOK, Submit,
         runVars, dispVars, userVars, history
    <2> QED BY <2>1, <2>2 DEF TypeOK
  <1>3. ASSUME SubmitSaved
         PROVE  TypeOK'
    <2>1. JobTypeOK'
      BY <1>3, IdleTypes DEF TypeOK, JobTypeOK, SubmitSaved, Commit, Rollback, runVars,
         userVars
    <2>2. DispTypeOK'
      BY <1>3 DEF TypeOK, DispTypeOK, SubmitSaved, DispRecord, DispPc, ControlInv,
         KickInv, runVars, userVars
    <2>3. HistoryTypeOK'
      BY <1>3 DEF TypeOK, HistoryTypeOK, SubmitSaved, ControlInv, CarryInv, runVars,
         userVars
    <2>4. RunTypeOK' /\ UserTypeOK'
      BY <1>3 DEF TypeOK, RunTypeOK, UserTypeOK, SubmitSaved, runVars, userVars
    <2> QED BY <2>1, <2>2, <2>3, <2>4 DEF TypeOK
  <1>4. ASSUME NEW k \in DOMAIN mem.queue, DeleteQueuedMessage(k)
         PROVE  TypeOK'
    <2>1. JobTypeOK'
      BY <1>4, DeletedType, JobFields DEF TypeOK, JobTypeOK, DeleteQueuedMessage,
         Acquire, Unlocked, Id, LockOp, runVars, dispVars, userVars, history
    <2>2. RunTypeOK' /\ DispTypeOK' /\ UserTypeOK' /\ HistoryTypeOK'
      BY <1>4 DEF TypeOK, RunTypeOK, DispTypeOK, UserTypeOK, HistoryTypeOK,
         DeleteQueuedMessage, runVars, dispVars, userVars, history
    <2> QED BY <2>1, <2>2 DEF TypeOK
  <1>5. ASSUME DeleteSaved
         PROVE  TypeOK'
    <2>1. JobTypeOK'
      BY <1>5, IdleTypes DEF TypeOK, JobTypeOK, DeleteSaved, Commit, Rollback, runVars,
         userVars
    <2>2. DispTypeOK'
      BY <1>5, RequestDispatchType DEF TypeOK, DispTypeOK, DeleteSaved, runVars,
         userVars
    <2>3. HistoryTypeOK'
      <3>1. dropped' \subseteq QueueId /\ UNCHANGED <<acked, execs>>
        BY <1>5 DEF TypeOK, HistoryTypeOK, DeleteSaved, ControlInv, CarryInv, runVars,
           userVars
      <3>2. barrier' \in BOOLEAN
        <4>1. (barrier /\ ~(mem.queue = <<>> /\ mem.status # "running")) \in BOOLEAN
          OBVIOUS
        <4> QED BY <1>5, <4>1 DEF TypeOK, HistoryTypeOK, DeleteSaved
      <3> QED BY <3>1, <3>2 DEF TypeOK, HistoryTypeOK
    <2>4. RunTypeOK' /\ UserTypeOK'
      BY <1>5 DEF TypeOK, RunTypeOK, UserTypeOK, DeleteSaved, runVars, userVars
    <2> QED BY <2>1, <2>2, <2>3, <2>4 DEF TypeOK
  <1>6. ASSUME ContinueMessageQueue
         PROVE  TypeOK'
    <2>1. JobTypeOK'
      BY <1>6, PauseType DEF TypeOK, JobTypeOK, ContinueMessageQueue, Acquire, Unlocked,
         LockOp, runVars, userVars, history
    <2>2. DispTypeOK'
      BY <1>6 DEF TypeOK, DispTypeOK, ContinueMessageQueue, DispRecord, DispPc,
         ControlInv, KickInv, runVars, userVars, history
    <2>3. RunTypeOK' /\ UserTypeOK' /\ HistoryTypeOK'
      BY <1>6 DEF TypeOK, RunTypeOK, UserTypeOK, HistoryTypeOK, ContinueMessageQueue,
         runVars, userVars, history
    <2> QED BY <2>1, <2>2, <2>3 DEF TypeOK
  <1>7. ASSUME ContinueSaved
         PROVE  TypeOK'
    <2>1. JobTypeOK'
      BY <1>7, IdleTypes DEF TypeOK, JobTypeOK, ContinueSaved, Commit, Rollback,
         runVars, userVars
    <2>2. DispTypeOK'
      BY <1>7 DEF TypeOK, DispTypeOK, ContinueSaved, DispRecord, DispPc, ControlInv,
         KickInv, runVars, userVars
    <2>3. HistoryTypeOK'
      BY <1>7 DEF TypeOK, HistoryTypeOK, ContinueSaved, runVars, userVars
    <2>4. RunTypeOK' /\ UserTypeOK'
      BY <1>7 DEF TypeOK, RunTypeOK, UserTypeOK, ContinueSaved, runVars, userVars
    <2> QED BY <2>1, <2>2, <2>3, <2>4 DEF TypeOK
  <1>8. ASSUME PauseMessageQueueForStop
         PROVE  TypeOK'
    <2>1. JobTypeOK'
      BY <1>8, PauseType DEF TypeOK, JobTypeOK, PauseMessageQueueForStop, Acquire,
         Unlocked, LockOp, runVars, dispVars
    <2>2. UserTypeOK'
      BY <1>8 DEF TypeOK, UserTypeOK, PauseMessageQueueForStop, runVars, dispVars
    <2>3. HistoryTypeOK'
      BY <1>8 DEF TypeOK, HistoryTypeOK, PauseMessageQueueForStop, runVars, dispVars
    <2>4. RunTypeOK' /\ DispTypeOK'
      BY <1>8 DEF TypeOK, RunTypeOK, DispTypeOK, PauseMessageQueueForStop, runVars,
         dispVars
    <2> QED BY <2>1, <2>2, <2>3, <2>4 DEF TypeOK
  <1>9. ASSUME PauseSaved
         PROVE  TypeOK'
    <2>1. JobTypeOK'
      BY <1>9, IdleTypes DEF TypeOK, JobTypeOK, PauseSaved, Commit, Rollback, runVars,
         dispVars
    <2>2. UserTypeOK'
      BY <1>9 DEF TypeOK, UserTypeOK, PauseSaved, runVars, dispVars
    <2>3. HistoryTypeOK'
      BY <1>9 DEF TypeOK, HistoryTypeOK, PauseSaved, runVars, dispVars
    <2>4. RunTypeOK' /\ DispTypeOK'
      BY <1>9 DEF TypeOK, RunTypeOK, DispTypeOK, PauseSaved, runVars, dispVars
    <2> QED BY <2>1, <2>2, <2>3, <2>4 DEF TypeOK
  <1>10. ASSUME JobStop
         PROVE  TypeOK'
    <2>1. RunTypeOK'
      BY <1>10, CancelRegisteredType DEF TypeOK, RunTypeOK, JobStop, jobVars, dispVars,
         history
    <2>2. UserTypeOK'
      BY <1>10 DEF TypeOK, UserTypeOK, JobStop, jobVars, dispVars, history
    <2>3. JobTypeOK' /\ DispTypeOK' /\ HistoryTypeOK'
      BY <1>10 DEF TypeOK, JobTypeOK, DispTypeOK, HistoryTypeOK, JobStop,
         CancelRegistered, jobVars, dispVars, history
    <2> QED BY <2>1, <2>2, <2>3 DEF TypeOK
  <1>11. ASSUME MarkDeleted
         PROVE  TypeOK'
    <2>1. JobTypeOK'
      BY <1>11, LifeType DEF TypeOK, JobTypeOK, MarkDeleted, Unlocked, Life, runVars,
         dispVars, history
    <2>2. UserTypeOK'
      BY <1>11 DEF TypeOK, UserTypeOK, MarkDeleted, runVars, dispVars, history
    <2>3. RunTypeOK' /\ DispTypeOK' /\ HistoryTypeOK'
      BY <1>11 DEF TypeOK, RunTypeOK, DispTypeOK, HistoryTypeOK, MarkDeleted, runVars,
         dispVars, history
    <2> QED BY <2>1, <2>2, <2>3 DEF TypeOK
  <1>12. ASSUME StopDeleted
         PROVE  TypeOK'
    <2>1. RunTypeOK'
      BY <1>12, CancelRegisteredType DEF TypeOK, RunTypeOK, StopDeleted, jobVars,
         dispVars, history
    <2>2. UserTypeOK'
      BY <1>12 DEF TypeOK, UserTypeOK, StopDeleted, jobVars, dispVars, history
    <2>3. JobTypeOK' /\ DispTypeOK' /\ HistoryTypeOK'
      BY <1>12 DEF TypeOK, JobTypeOK, DispTypeOK, HistoryTypeOK, StopDeleted,
         CancelRegistered, jobVars, dispVars, history
    <2> QED BY <2>1, <2>2, <2>3 DEF TypeOK
  <1>13. ASSUME RemoveJob
         PROVE  TypeOK'
    <2>1. JobTypeOK'
      BY <1>13, LifeType DEF TypeOK, JobTypeOK, RemoveJob, Unlocked, Life, runVars,
         dispVars, history
    <2>2. UserTypeOK'
      BY <1>13 DEF TypeOK, UserTypeOK, RemoveJob, runVars, dispVars, history
    <2>3. RunTypeOK' /\ DispTypeOK' /\ HistoryTypeOK'
      BY <1>13 DEF TypeOK, RunTypeOK, DispTypeOK, HistoryTypeOK, RemoveJob, runVars,
         dispVars, history
    <2> QED BY <2>1, <2>2, <2>3 DEF TypeOK
  <1>14. ASSUME NEW i \in DirectId, NEW r \in Run, SendDirect(i, r)
         PROVE  TypeOK'
    <2>1. JobTypeOK'
      BY <1>14, StartedType DEF TypeOK, JobTypeOK, SendDirect, BeginStart, Acquire,
         Unlocked, Id, LockOp, dispVars, userVars, history
    <2>2. RunTypeOK'
      BY <1>14, IdleTypes DEF TypeOK, RunTypeOK, SendDirect, BeginStart, Id, RunRecord,
         RunPc, Outcome, dispVars, userVars, history
    <2>3. DispTypeOK' /\ UserTypeOK' /\ HistoryTypeOK'
      BY <1>14 DEF TypeOK, DispTypeOK, UserTypeOK, HistoryTypeOK, SendDirect,
         BeginStart, dispVars, userVars, history
    <2> QED BY <2>1, <2>2, <2>3 DEF TypeOK
  <1>15. ASSUME NEW r \in Run, DirectSaved(r)
         PROVE  TypeOK'
    <2>1. JobTypeOK'
      BY <1>15, IdleTypes DEF TypeOK, JobTypeOK, DirectSaved, StartCommitted,
         StartAborted, Commit, Rollback, dispVars, userVars
    <2>2. RunTypeOK'
      BY <1>15, IdleTypes DEF TypeOK, RunTypeOK, DirectSaved, StartCommitted,
         StartAborted, RunRecord, RunPc, Outcome, dispVars, userVars
    <2>3. HistoryTypeOK'
      BY <1>15 DEF TypeOK, HistoryTypeOK, DirectSaved, StartCommitted, StartAborted,
         dispVars, userVars
    <2>4. DispTypeOK' /\ UserTypeOK'
      BY <1>15 DEF TypeOK, DispTypeOK, UserTypeOK, DirectSaved, StartCommitted,
         StartAborted, dispVars, userVars
    <2> QED BY <2>1, <2>2, <2>3, <2>4 DEF TypeOK
  <1>16. ASSUME NEW d \in Dispatcher, DispCheck(d)
         PROVE  TypeOK'
    <2>0. \A k \in DOMAIN mem.queue : mem.queue[k].id \in QueueId
      BY JobFields DEF TypeOK, JobTypeOK
    <2>1. DispTypeOK'
      BY <1>16, <2>0 DEF TypeOK, DispTypeOK, DispCheck, DispGoto, DispRecord,
         DispPc, JobTypeOK, jobVars, runVars, userVars, history
    <2>2. JobTypeOK' /\ RunTypeOK' /\ UserTypeOK' /\ HistoryTypeOK'
      BY <1>16 DEF TypeOK, JobTypeOK, RunTypeOK, UserTypeOK, HistoryTypeOK, DispCheck,
         jobVars, runVars, userVars, history
    <2> QED BY <2>1, <2>2 DEF TypeOK
  <1>17. ASSUME NEW d \in Dispatcher, DispDones(d)
         PROVE  TypeOK'
    <2>1. DispTypeOK'
      BY <1>17 DEF TypeOK, DispTypeOK, DispDones, DispGoto, DispRecord, DispPc, jobVars,
         runVars, userVars, history
    <2>2. JobTypeOK' /\ RunTypeOK' /\ UserTypeOK' /\ HistoryTypeOK'
      BY <1>17 DEF TypeOK, JobTypeOK, RunTypeOK, UserTypeOK, HistoryTypeOK, DispDones,
         jobVars, runVars, userVars, history
    <2> QED BY <2>1, <2>2 DEF TypeOK
  <1>18. ASSUME NEW d \in Dispatcher, DispPrepare(d)
         PROVE  TypeOK'
    <2>1. DispTypeOK'
      BY <1>18 DEF TypeOK, DispTypeOK, DispPrepare, DispGoto, DispRecord, DispPc,
         jobVars, runVars, userVars, history
    <2>2. JobTypeOK' /\ RunTypeOK' /\ UserTypeOK' /\ HistoryTypeOK'
      BY <1>18 DEF TypeOK, JobTypeOK, RunTypeOK, UserTypeOK, HistoryTypeOK, DispPrepare,
         jobVars, runVars, userVars, history
    <2> QED BY <2>1, <2>2 DEF TypeOK
  <1>19. ASSUME NEW d \in Dispatcher, DispRefused(d)
         PROVE  TypeOK'
    <2>1. DispTypeOK'
      BY <1>19 DEF TypeOK, DispTypeOK, DispRefused, DispGoto, DispRecord, DispPc,
         jobVars, runVars, userVars, history
    <2>2. JobTypeOK' /\ RunTypeOK' /\ UserTypeOK' /\ HistoryTypeOK'
      BY <1>19 DEF TypeOK, JobTypeOK, RunTypeOK, UserTypeOK, HistoryTypeOK, DispRefused,
         jobVars, runVars, userVars, history
    <2> QED BY <2>1, <2>2 DEF TypeOK
  <1>20. ASSUME NEW d \in Dispatcher, NEW r \in Run, DispSend(d, r)
         PROVE  TypeOK'
    <2>1. JobTypeOK'
      BY <1>20, StartedType DEF TypeOK, JobTypeOK, DispSend, BeginStart, Acquire,
         Unlocked, Id, LockOp, ControlInv, CarryInv, userVars, history
    <2>2. RunTypeOK'
      BY <1>20, IdleTypes DEF TypeOK, RunTypeOK, DispSend, BeginStart, Id, RunRecord,
         RunPc, Outcome, ControlInv, CarryInv, userVars, history
    <2>3. DispTypeOK'
      BY <1>20 DEF TypeOK, DispTypeOK, DispSend, DispGoto, DispRecord, DispPc, userVars,
         history
    <2>4. UserTypeOK' /\ HistoryTypeOK'
      BY <1>20 DEF TypeOK, UserTypeOK, HistoryTypeOK, DispSend, BeginStart, userVars,
         history
    <2> QED BY <2>1, <2>2, <2>3, <2>4 DEF TypeOK
  <1>21. ASSUME NEW d \in Dispatcher, NEW r \in Run, DispSendSaved(d, r)
         PROVE  TypeOK'
    <2>1. JobTypeOK'
      BY <1>21, IdleTypes DEF TypeOK, JobTypeOK, DispSendSaved, StartCommitted,
         StartAborted, Commit, Rollback, userVars
    <2>2. RunTypeOK'
      BY <1>21, IdleTypes DEF TypeOK, RunTypeOK, DispSendSaved, StartCommitted,
         StartAborted, RunRecord, RunPc, Outcome, userVars
    <2>3. DispTypeOK'
      BY <1>21, IdleTypes DEF TypeOK, DispTypeOK, DispSendSaved, DispGoto, DispRecord,
         DispPc, userVars
    <2>4. HistoryTypeOK'
      BY <1>21 DEF TypeOK, HistoryTypeOK, DispSendSaved, StartCommitted, StartAborted,
         userVars
    <2>5. UserTypeOK'
      BY <1>21 DEF TypeOK, UserTypeOK, DispSendSaved, StartCommitted, StartAborted,
         userVars
    <2> QED BY <2>1, <2>2, <2>3, <2>4, <2>5 DEF TypeOK
  <1>22. ASSUME NEW d \in Dispatcher, DispBlock(d)
         PROVE  TypeOK'
    <2>1. JobTypeOK'
      BY <1>22, BlockedType DEF TypeOK, JobTypeOK, DispBlock, Acquire, Unlocked, Id,
         LockOp, ControlInv, CarryInv, runVars, userVars, history
    <2>2. DispTypeOK'
      BY <1>22 DEF TypeOK, DispTypeOK, DispBlock, DispGoto, DispRecord, DispPc, runVars,
         userVars, history
    <2>3. RunTypeOK' /\ UserTypeOK' /\ HistoryTypeOK'
      BY <1>22 DEF TypeOK, RunTypeOK, UserTypeOK, HistoryTypeOK, DispBlock, runVars,
         userVars, history
    <2> QED BY <2>1, <2>2, <2>3 DEF TypeOK
  <1>23. ASSUME NEW d \in Dispatcher, DispBlockSaved(d)
         PROVE  TypeOK'
    <2>1. JobTypeOK'
      BY <1>23, IdleTypes DEF TypeOK, JobTypeOK, DispBlockSaved, Commit, Rollback,
         runVars, userVars, history
    <2>2. DispTypeOK'
      BY <1>23 DEF TypeOK, DispTypeOK, DispBlockSaved, DispGoto, DispRecord, DispPc,
         runVars, userVars, history
    <2>3. RunTypeOK' /\ UserTypeOK' /\ HistoryTypeOK'
      BY <1>23 DEF TypeOK, RunTypeOK, UserTypeOK, HistoryTypeOK, DispBlockSaved,
         runVars, userVars, history
    <2> QED BY <2>1, <2>2, <2>3 DEF TypeOK
  <1>24. ASSUME NEW d \in Dispatcher, DispFinish(d)
         PROVE  TypeOK'
    <2>1. DispTypeOK'
      BY <1>24 DEF TypeOK, DispTypeOK, DispFinish, DispGoto, DispRecord, DispPc,
         jobVars, runVars, userVars, history
    <2>2. JobTypeOK' /\ RunTypeOK' /\ UserTypeOK' /\ HistoryTypeOK'
      BY <1>24 DEF TypeOK, JobTypeOK, RunTypeOK, UserTypeOK, HistoryTypeOK, DispFinish,
         jobVars, runVars, userVars, history
    <2> QED BY <2>1, <2>2 DEF TypeOK
  <1>25. ASSUME NEW d \in Dispatcher, DispRecheck(d)
         PROVE  TypeOK'
    <2>1. DispTypeOK'
      <3> DEFINE rest == [disp EXCEPT ![d] = IdleDisp]
      <3>1. rest \in [Dispatcher -> DispRecord] /\ dispatching \in BOOLEAN
        BY IdleTypes DEF TypeOK, DispTypeOK
      <3> HIDE DEF rest
      <3>2. IF Ready THEN RequestDispatch(rest) ELSE disp' = rest /\ UNCHANGED dispatching
        BY <1>25 DEF DispRecheck, rest
      <3>3. disp' \in [Dispatcher -> DispRecord] /\ dispatching' \in BOOLEAN
        BY <3>1, <3>2, RequestDispatchType
      <3>4. kicks' = kicks
        BY <1>25 DEF DispRecheck
      <3> QED BY <3>3, <3>4 DEF TypeOK, DispTypeOK
    <2>2. JobTypeOK' /\ RunTypeOK' /\ UserTypeOK' /\ HistoryTypeOK'
      BY <1>25 DEF TypeOK, JobTypeOK, RunTypeOK, UserTypeOK, HistoryTypeOK, DispRecheck,
         jobVars, runVars, userVars, history
    <2> QED BY <2>1, <2>2 DEF TypeOK
  <1>26. ASSUME NEW r \in Run, RunBody(r)
         PROVE  TypeOK'
    <2>1. RunTypeOK'
      BY <1>26 DEF TypeOK, RunTypeOK, RunBody, RunGoto, RunRecord, RunPc, Outcome,
         jobVars, dispVars, userVars, history
    <2>2. JobTypeOK' /\ DispTypeOK' /\ UserTypeOK' /\ HistoryTypeOK'
      BY <1>26 DEF TypeOK, JobTypeOK, DispTypeOK, UserTypeOK, HistoryTypeOK, RunBody,
         jobVars, dispVars, userVars, history
    <2> QED BY <2>1, <2>2 DEF TypeOK
  <1>27. ASSUME NEW r \in Run, RunExit(r)
         PROVE  TypeOK'
    <2>1. RunTypeOK'
      BY <1>27 DEF TypeOK, RunTypeOK, RunExit, RunGoto, RunRecord, RunPc, Outcome,
         jobVars, dispVars, userVars, history
    <2>2. JobTypeOK' /\ DispTypeOK' /\ UserTypeOK' /\ HistoryTypeOK'
      BY <1>27 DEF TypeOK, JobTypeOK, DispTypeOK, UserTypeOK, HistoryTypeOK, RunExit,
         jobVars, dispVars, userVars, history
    <2> QED BY <2>1, <2>2 DEF TypeOK
  <1>28. ASSUME NEW r \in Run, RunTerm(r)
         PROVE  TypeOK'
    <2>1. JobTypeOK'
      BY <1>28, TerminatedType DEF TypeOK, JobTypeOK, RunTerm, Acquire, Unlocked,
         LockOp, RunTypeOK, RunRecord, dispVars, userVars
    <2>2. RunTypeOK'
      BY <1>28 DEF TypeOK, RunTypeOK, RunTerm, RunGoto, RunRecord, RunPc, Outcome,
         dispVars, userVars
    <2>3. DispTypeOK' /\ UserTypeOK' /\ HistoryTypeOK'
      BY <1>28 DEF TypeOK, DispTypeOK, UserTypeOK, HistoryTypeOK, RunTerm, dispVars,
         userVars
    <2> QED BY <2>1, <2>2, <2>3 DEF TypeOK
  <1>29. ASSUME NEW r \in Run, RunTermSaved(r)
         PROVE  TypeOK'
    <2>1. JobTypeOK'
      BY <1>29, IdleTypes DEF TypeOK, JobTypeOK, RunTermSaved, Commit, KeepUnsaved,
         dispVars, userVars, history
    <2>2. RunTypeOK'
      BY <1>29 DEF TypeOK, RunTypeOK, RunTermSaved, RunGoto, RunRecord, RunPc, Outcome,
         dispVars, userVars, history
    <2>3. DispTypeOK' /\ UserTypeOK' /\ HistoryTypeOK'
      BY <1>29 DEF TypeOK, DispTypeOK, UserTypeOK, HistoryTypeOK, RunTermSaved,
         dispVars, userVars, history
    <2> QED BY <2>1, <2>2, <2>3 DEF TypeOK
  <1>30. ASSUME NEW r \in Run, RunClear(r)
         PROVE  TypeOK'
    <2>1. RunTypeOK'
      BY <1>30 DEF TypeOK, RunTypeOK, RunClear, RunGoto, RunRecord, RunPc, Outcome,
         jobVars, dispVars, userVars, history
    <2>2. JobTypeOK' /\ DispTypeOK' /\ UserTypeOK' /\ HistoryTypeOK'
      BY <1>30 DEF TypeOK, JobTypeOK, DispTypeOK, UserTypeOK, HistoryTypeOK, RunClear,
         jobVars, dispVars, userVars, history
    <2> QED BY <2>1, <2>2 DEF TypeOK
  <1>31. ASSUME NEW r \in Run, RunComplete(r)
         PROVE  TypeOK'
    <2>1. JobTypeOK'
      BY <1>31, WithoutItemType DEF TypeOK, JobTypeOK, RunComplete, Acquire, Unlocked,
         LockOp, dispVars, userVars, history
    <2>2. RunTypeOK'
      BY <1>31 DEF TypeOK, RunTypeOK, RunComplete, RunGoto, RunRecord, RunPc, Outcome,
         dispVars, userVars, history
    <2>3. DispTypeOK' /\ UserTypeOK' /\ HistoryTypeOK'
      BY <1>31 DEF TypeOK, DispTypeOK, UserTypeOK, HistoryTypeOK, RunComplete, dispVars,
         userVars, history
    <2> QED BY <2>1, <2>2, <2>3 DEF TypeOK
  <1>32. ASSUME NEW r \in Run, RunCompleteSaved(r)
         PROVE  TypeOK'
    <2>1. JobTypeOK'
      BY <1>32, IdleTypes DEF TypeOK, JobTypeOK, RunCompleteSaved, Commit, Rollback,
         dispVars, userVars, history
    <2>2. RunTypeOK'
      BY <1>32 DEF TypeOK, RunTypeOK, RunCompleteSaved, RunGoto, RunRecord, RunPc,
         Outcome, dispVars, userVars, history
    <2>3. DispTypeOK' /\ UserTypeOK' /\ HistoryTypeOK'
      BY <1>32 DEF TypeOK, DispTypeOK, UserTypeOK, HistoryTypeOK, RunCompleteSaved,
         dispVars, userVars, history
    <2> QED BY <2>1, <2>2, <2>3 DEF TypeOK
  <1>33. ASSUME NEW r \in Run, RunClearPause(r)
         PROVE  TypeOK'
    <2>1. JobTypeOK'
      BY <1>33, PauseType DEF TypeOK, JobTypeOK, RunClearPause, Acquire, Unlocked,
         LockOp, dispVars, userVars, history
    <2>2. RunTypeOK'
      BY <1>33 DEF TypeOK, RunTypeOK, RunClearPause, RunGoto, RunRecord, RunPc, Outcome,
         dispVars, userVars, history
    <2>3. DispTypeOK' /\ UserTypeOK' /\ HistoryTypeOK'
      BY <1>33 DEF TypeOK, DispTypeOK, UserTypeOK, HistoryTypeOK, RunClearPause,
         dispVars, userVars, history
    <2> QED BY <2>1, <2>2, <2>3 DEF TypeOK
  <1>34. ASSUME NEW r \in Run, RunClearPauseSaved(r)
         PROVE  TypeOK'
    <2>1. JobTypeOK'
      BY <1>34, IdleTypes DEF TypeOK, JobTypeOK, RunClearPauseSaved, Commit, Rollback,
         dispVars, userVars
    <2>2. RunTypeOK'
      BY <1>34 DEF TypeOK, RunTypeOK, RunClearPauseSaved, RunGoto, RunRecord, RunPc,
         Outcome, dispVars, userVars
    <2>3. HistoryTypeOK'
      BY <1>34 DEF TypeOK, HistoryTypeOK, RunClearPauseSaved, dispVars, userVars
    <2>4. DispTypeOK' /\ UserTypeOK'
      BY <1>34 DEF TypeOK, DispTypeOK, UserTypeOK, RunClearPauseSaved, dispVars,
         userVars
    <2> QED BY <2>1, <2>2, <2>3, <2>4 DEF TypeOK
  <1>35. ASSUME NEW r \in Run, RunFinish(r)
         PROVE  TypeOK'
    <2>1. RunTypeOK'
      BY <1>35, IdleTypes DEF TypeOK, RunTypeOK, RunFinish, RunGoto, RunRecord, RunPc,
         Outcome, jobVars, userVars, history
    <2>2. DispTypeOK'
      BY <1>35, RequestDispatchType DEF TypeOK, DispTypeOK, RunFinish, jobVars,
         userVars, history
    <2>3. JobTypeOK' /\ UserTypeOK' /\ HistoryTypeOK'
      BY <1>35 DEF TypeOK, JobTypeOK, UserTypeOK, HistoryTypeOK, RunFinish, jobVars,
         userVars, history
    <2> QED BY <2>1, <2>2, <2>3 DEF TypeOK
  <1>36. ASSUME NEW r \in Run, RunRecheck(r)
         PROVE  TypeOK'
    <2>1. RunTypeOK'
      BY <1>36, IdleTypes DEF TypeOK, RunTypeOK, RunRecheck, RunRecord, RunPc, Outcome,
         jobVars, userVars, history
    <2>2. DispTypeOK'
      BY <1>36, RequestDispatchType DEF TypeOK, DispTypeOK, RunRecheck, jobVars,
         userVars, history
    <2>3. JobTypeOK' /\ UserTypeOK' /\ HistoryTypeOK'
      BY <1>36 DEF TypeOK, JobTypeOK, UserTypeOK, HistoryTypeOK, RunRecheck, jobVars,
         userVars, history
    <2> QED BY <2>1, <2>2, <2>3 DEF TypeOK
  <1>37. ASSUME Crash
         PROVE  TypeOK'
    <2>1. JobTypeOK'
      BY <1>37, IdleTypes DEF TypeOK, JobTypeOK, Crash
    <2>2. RunTypeOK'
      BY <1>37, IdleTypes DEF TypeOK, RunTypeOK, Crash, RunRecord, RunPc, Outcome
    <2>3. DispTypeOK'
      <3>1. disp' \in [Dispatcher -> DispRecord]
        BY <1>37, IdleTypes DEF Crash
      <3>2. kicks' \in 0 .. MaxKicks
        BY <1>37 DEF Crash
      <3>3. dispatching' \in BOOLEAN
        BY <1>37 DEF Crash
      <3> QED BY <3>1, <3>2, <3>3 DEF DispTypeOK
    <2>4. UserTypeOK'
      BY <1>37 DEF TypeOK, UserTypeOK, Crash
    <2>5. HistoryTypeOK'
      BY <1>37 DEF TypeOK, HistoryTypeOK, Crash
    <2> QED BY <2>1, <2>2, <2>3, <2>4, <2>5 DEF TypeOK
  <1>38. ASSUME Load
         PROVE  TypeOK'
    <2>1. JobTypeOK'
      BY <1>38, LifeType, ReconciledType DEF TypeOK, JobTypeOK, Load, Life, runVars,
         dispVars, userVars, history
    <2>2. UserTypeOK'
      BY <1>38 DEF TypeOK, UserTypeOK, Load, runVars, dispVars, userVars, history
    <2>3. RunTypeOK' /\ DispTypeOK' /\ HistoryTypeOK'
      BY <1>38 DEF TypeOK, RunTypeOK, DispTypeOK, HistoryTypeOK, Load, runVars,
         dispVars, userVars, history
    <2> QED BY <2>1, <2>2, <2>3 DEF TypeOK
  <1>39. ASSUME SetMessageQueueDispatcher
         PROVE  TypeOK'
    <2>1. JobTypeOK'
      BY <1>39, WithoutInterruptedType DEF TypeOK, JobTypeOK, SetMessageQueueDispatcher,
         runVars, userVars, history
    <2>2. DispTypeOK'
      BY <1>39, RequestDispatchType DEF TypeOK, DispTypeOK, SetMessageQueueDispatcher,
         runVars, userVars, history
    <2>3. UserTypeOK'
      BY <1>39 DEF TypeOK, UserTypeOK, SetMessageQueueDispatcher, runVars, userVars,
         history
    <2>4. RunTypeOK' /\ HistoryTypeOK'
      BY <1>39 DEF TypeOK, RunTypeOK, HistoryTypeOK, SetMessageQueueDispatcher, runVars,
         userVars, history
    <2> QED BY <2>1, <2>2, <2>3, <2>4 DEF TypeOK
  <1>40. CASE UNCHANGED vars
    BY <1>40 DEF TypeOK, JobTypeOK, RunTypeOK, DispTypeOK, UserTypeOK, HistoryTypeOK,
       vars, jobVars, runVars, dispVars, userVars, history
  <1> QED BY <1>1, <1>2, <1>3, <1>4, <1>5, <1>6, <1>7, <1>8, <1>9, <1>10, <1>11, <1>12,
     <1>13, <1>14, <1>15, <1>16, <1>17, <1>18, <1>19, <1>20, <1>21, <1>22, <1>23, <1>24,
     <1>25, <1>26, <1>27, <1>28, <1>29, <1>30, <1>31, <1>32, <1>33, <1>34, <1>35, <1>36,
     <1>37, <1>38, <1>39, <1>40 DEF Next, UserStep, HandlerStep, DispatcherStep,
     RunStep, BootStep

(***************************************************************************)
(* The control part.                                                       *)
(***************************************************************************)
\* requestMessageQueueDispatch leaves the dispatchers alone but for a fresh one.
LEMMA RequestDispatchEffect ==
  ASSUME NEW ds \in [Dispatcher -> DispRecord], RequestDispatch(ds)
  PROVE  \A d \in Dispatcher : disp'[d] = ds[d] \/ disp'[d].pc = "check"
PROOF BY DEF RequestDispatch, DispRecord

\* Stop moves no run.
LEMMA CancelRegisteredEffect ==
  ASSUME RunTypeOK, CancelRegistered
  PROVE  \A r \in Run : run'[r].pc = run[r].pc /\ run'[r].id = run[r].id
PROOF BY DEF RunTypeOK, RunRecord, CancelRegistered

\* Every action keeps one holder of the shard, a quiet start-up, and the messages
\* that goroutines and handlers carry.
LEMMA ControlStep ==
  ASSUME TypeOK, ControlInv, [Next]_vars
  PROVE  ControlInv'
PROOF
  <1> USE IdAssumption, SlotAssumption
  <1>1. ASSUME Kick
         PROVE  ControlInv'
    <2>1. LockInv'
      BY <1>1, RequestDispatchEffect DEF TypeOK, DispTypeOK, DispRecord, ControlInv,
         LockInv, Starting, Saving, Holding, Kick, jobVars, runVars, userVars, history
    <2>2. BootInv'
      BY <1>1, RequestDispatchEffect DEF TypeOK, DispTypeOK, DispRecord, ControlInv,
         BootInv, Kick, NoLock, jobVars, runVars, userVars, history
    <2>3. CarryInv'
      BY <1>1, RequestDispatchEffect DEF TypeOK, DispTypeOK, DispRecord, ControlInv,
         CarryInv, Starting, Kick, jobVars, runVars, userVars, history
    <2>4. KickInv'
      BY <1>1, RequestDispatchEffect DEF TypeOK, DispTypeOK, ControlInv, KickInv, Kick,
         jobVars, runVars, userVars, history
    <2> QED BY <2>1, <2>2, <2>3, <2>4 DEF ControlInv
  <1>2. ASSUME NEW i \in QueueId, Submit(i)
         PROVE  ControlInv'
    <2>1. LockInv'
      BY <1>2 DEF ControlInv, LockInv, Starting, Saving, Holding, Submit, Acquire,
         Unlocked, runVars, dispVars, userVars, history
    <2>2. BootInv'
      BY <1>2 DEF ControlInv, BootInv, Submit, Acquire, Unlocked, NoLock, runVars,
         dispVars, userVars, history
    <2>3. CarryInv'
      BY <1>2 DEF ControlInv, CarryInv, Starting, Submit, Acquire, Unlocked, runVars,
         dispVars, userVars, history
    <2>4. KickInv'
      BY <1>2 DEF ControlInv, KickInv, Submit, Acquire, Unlocked, runVars, dispVars,
         userVars, history
    <2> QED BY <2>1, <2>2, <2>3, <2>4 DEF ControlInv
  <1>3. ASSUME SubmitSaved
         PROVE  ControlInv'
    <2>1. LockInv'
      BY <1>3 DEF ControlInv, LockInv, Starting, Saving, Holding, SubmitSaved, Commit,
         Rollback, NoLock, runVars, userVars
    <2>2. BootInv'
      BY <1>3 DEF ControlInv, BootInv, SubmitSaved, Commit, Rollback, NoLock, runVars,
         userVars
    <2>3. CarryInv'
      BY <1>3 DEF ControlInv, CarryInv, Starting, SubmitSaved, Commit, Rollback, NoLock,
         runVars, userVars
    <2>4. KickInv'
      BY <1>3 DEF ControlInv, KickInv, SubmitSaved, Commit, Rollback, NoLock, runVars,
         userVars
    <2> QED BY <2>1, <2>2, <2>3, <2>4 DEF ControlInv
  <1>4. ASSUME NEW k \in DOMAIN mem.queue, DeleteQueuedMessage(k)
         PROVE  ControlInv'
    <2>1. LockInv'
      BY <1>4 DEF ControlInv, LockInv, Starting, Saving, Holding, DeleteQueuedMessage,
         Acquire, Unlocked, runVars, dispVars, userVars, history
    <2>2. BootInv'
      BY <1>4 DEF ControlInv, BootInv, DeleteQueuedMessage, Acquire, Unlocked, NoLock,
         runVars, dispVars, userVars, history
    <2>3. CarryInv'
      BY <1>4, JobFields DEF TypeOK, JobTypeOK, ControlInv, CarryInv, Starting,
         DeleteQueuedMessage, Acquire, Unlocked, runVars, dispVars, userVars, history
    <2>4. KickInv'
      BY <1>4 DEF ControlInv, KickInv, DeleteQueuedMessage, Acquire, Unlocked, runVars,
         dispVars, userVars, history
    <2> QED BY <2>1, <2>2, <2>3, <2>4 DEF ControlInv
  <1>5. ASSUME DeleteSaved
         PROVE  ControlInv'
    <2>1. LockInv'
      BY <1>5, RequestDispatchEffect DEF TypeOK, DispTypeOK, DispRecord, ControlInv,
         LockInv, Starting, Saving, Holding, DeleteSaved, Commit, Rollback, NoLock,
         runVars, userVars
    <2>2. BootInv'
      BY <1>5, RequestDispatchEffect DEF TypeOK, DispTypeOK, DispRecord, ControlInv,
         BootInv, DeleteSaved, Commit, Rollback, NoLock, runVars, userVars
    <2>3. CarryInv'
      BY <1>5, RequestDispatchEffect DEF TypeOK, DispTypeOK, DispRecord, ControlInv,
         CarryInv, Starting, DeleteSaved, Commit, Rollback, NoLock, runVars, userVars
    <2>4. KickInv'
      BY <1>5, RequestDispatchEffect DEF ControlInv, KickInv, DeleteSaved, Commit,
         Rollback, NoLock, runVars, userVars
    <2> QED BY <2>1, <2>2, <2>3, <2>4 DEF ControlInv
  <1>6. ASSUME ContinueMessageQueue
         PROVE  ControlInv'
    <2>1. LockInv'
      BY <1>6 DEF ControlInv, LockInv, Starting, Saving, Holding, ContinueMessageQueue,
         Acquire, Unlocked, runVars, userVars, history
    <2>2. BootInv'
      BY <1>6 DEF ControlInv, BootInv, ContinueMessageQueue, Acquire, Unlocked, NoLock,
         runVars, userVars, history
    <2>3. CarryInv'
      BY <1>6 DEF ControlInv, CarryInv, Starting, ContinueMessageQueue, Acquire,
         Unlocked, runVars, userVars, history
    <2>4. KickInv'
      BY <1>6 DEF ControlInv, KickInv, ContinueMessageQueue, Acquire, Unlocked, runVars,
         userVars, history
    <2> QED BY <2>1, <2>2, <2>3, <2>4 DEF ControlInv
  <1>7. ASSUME ContinueSaved
         PROVE  ControlInv'
    <2>1. LockInv'
      BY <1>7 DEF ControlInv, LockInv, Starting, Saving, Holding, ContinueSaved, Commit,
         Rollback, NoLock, runVars, userVars
    <2>2. BootInv'
      BY <1>7 DEF ControlInv, BootInv, ContinueSaved, Commit, Rollback, NoLock, runVars,
         userVars
    <2>3. CarryInv'
      BY <1>7 DEF ControlInv, CarryInv, Starting, ContinueSaved, Commit, Rollback,
         NoLock, runVars, userVars
    <2>4. KickInv'
      BY <1>7 DEF ControlInv, KickInv, ContinueSaved, Commit, Rollback, NoLock, runVars,
         userVars
    <2> QED BY <2>1, <2>2, <2>3, <2>4 DEF ControlInv
  <1>8. ASSUME PauseMessageQueueForStop
         PROVE  ControlInv'
    <2>1. LockInv'
      BY <1>8 DEF ControlInv, LockInv, Starting, Saving, Holding,
         PauseMessageQueueForStop, Acquire, Unlocked, runVars, dispVars
    <2>2. BootInv'
      BY <1>8 DEF ControlInv, BootInv, PauseMessageQueueForStop, Acquire, Unlocked,
         NoLock, runVars, dispVars
    <2>3. CarryInv'
      BY <1>8 DEF ControlInv, CarryInv, Starting, PauseMessageQueueForStop, Acquire,
         Unlocked, runVars, dispVars
    <2>4. KickInv'
      BY <1>8 DEF ControlInv, KickInv, PauseMessageQueueForStop, Acquire, Unlocked,
         runVars, dispVars
    <2> QED BY <2>1, <2>2, <2>3, <2>4 DEF ControlInv
  <1>9. ASSUME PauseSaved
         PROVE  ControlInv'
    <2>1. LockInv'
      BY <1>9 DEF ControlInv, LockInv, Starting, Saving, Holding, PauseSaved, Commit,
         Rollback, NoLock, runVars, dispVars
    <2>2. BootInv'
      BY <1>9 DEF ControlInv, BootInv, PauseSaved, Commit, Rollback, NoLock, runVars,
         dispVars
    <2>3. CarryInv'
      BY <1>9 DEF ControlInv, CarryInv, Starting, PauseSaved, Commit, Rollback, NoLock,
         runVars, dispVars
    <2>4. KickInv'
      BY <1>9 DEF ControlInv, KickInv, PauseSaved, Commit, Rollback, NoLock, runVars,
         dispVars
    <2> QED BY <2>1, <2>2, <2>3, <2>4 DEF ControlInv
  <1>10. ASSUME JobStop
         PROVE  ControlInv'
    <2>1. LockInv'
      BY <1>10, CancelRegisteredEffect DEF TypeOK, RunTypeOK, RunRecord, ControlInv,
         LockInv, Starting, Saving, Holding, JobStop, jobVars, dispVars, history
    <2>2. BootInv'
      BY <1>10, CancelRegisteredEffect DEF TypeOK, RunTypeOK, RunRecord, ControlInv,
         BootInv, JobStop, NoLock, jobVars, dispVars, history
    <2>3. CarryInv'
      BY <1>10, CancelRegisteredEffect DEF TypeOK, RunTypeOK, RunRecord, ControlInv,
         CarryInv, Starting, JobStop, jobVars, dispVars, history
    <2>4. KickInv'
      BY <1>10, CancelRegisteredEffect DEF ControlInv, KickInv, JobStop, jobVars,
         dispVars, history
    <2> QED BY <2>1, <2>2, <2>3, <2>4 DEF ControlInv
  <1>11. ASSUME MarkDeleted
         PROVE  ControlInv'
    <2>1. LockInv'
      BY <1>11 DEF ControlInv, LockInv, Starting, Saving, Holding, MarkDeleted,
         Unlocked, runVars, dispVars, history
    <2>2. BootInv'
      BY <1>11 DEF ControlInv, BootInv, MarkDeleted, Unlocked, NoLock, runVars,
         dispVars, history
    <2>3. CarryInv'
      BY <1>11 DEF ControlInv, CarryInv, Starting, MarkDeleted, Unlocked, runVars,
         dispVars, history
    <2>4. KickInv'
      BY <1>11 DEF ControlInv, KickInv, MarkDeleted, Unlocked, runVars, dispVars,
         history
    <2> QED BY <2>1, <2>2, <2>3, <2>4 DEF ControlInv
  <1>12. ASSUME StopDeleted
         PROVE  ControlInv'
    <2>1. LockInv'
      BY <1>12, CancelRegisteredEffect DEF TypeOK, RunTypeOK, RunRecord, ControlInv,
         LockInv, Starting, Saving, Holding, StopDeleted, jobVars, dispVars, history
    <2>2. BootInv'
      BY <1>12, CancelRegisteredEffect DEF TypeOK, RunTypeOK, RunRecord, ControlInv,
         BootInv, StopDeleted, NoLock, jobVars, dispVars, history
    <2>3. CarryInv'
      BY <1>12, CancelRegisteredEffect DEF TypeOK, RunTypeOK, RunRecord, ControlInv,
         CarryInv, Starting, StopDeleted, jobVars, dispVars, history
    <2>4. KickInv'
      BY <1>12, CancelRegisteredEffect DEF ControlInv, KickInv, StopDeleted, jobVars,
         dispVars, history
    <2> QED BY <2>1, <2>2, <2>3, <2>4 DEF ControlInv
  <1>13. ASSUME RemoveJob
         PROVE  ControlInv'
    <2>1. LockInv'
      BY <1>13 DEF ControlInv, LockInv, Starting, Saving, Holding, RemoveJob, Unlocked,
         runVars, dispVars, history
    <2>2. BootInv'
      BY <1>13 DEF ControlInv, BootInv, RemoveJob, Unlocked, NoLock, runVars, dispVars,
         history
    <2>3. CarryInv'
      BY <1>13 DEF ControlInv, CarryInv, Starting, RemoveJob, Unlocked, runVars,
         dispVars, history
    <2>4. KickInv'
      BY <1>13 DEF ControlInv, KickInv, RemoveJob, Unlocked, runVars, dispVars, history
    <2> QED BY <2>1, <2>2, <2>3, <2>4 DEF ControlInv
  <1>14. ASSUME NEW i \in DirectId, NEW r \in Run, SendDirect(i, r)
         PROVE  ControlInv'
    <2>1. LockInv'
      BY <1>14 DEF TypeOK, RunTypeOK, RunRecord, ControlInv, LockInv, Starting, Saving,
         Holding, SendDirect, BeginStart, Acquire, Unlocked, IdleRun, dispVars,
         userVars, history, Id
    <2>2. BootInv'
      BY <1>14 DEF TypeOK, RunTypeOK, RunRecord, ControlInv, BootInv, SendDirect,
         BeginStart, Acquire, Unlocked, IdleRun, NoLock, dispVars, userVars, history, Id
    <2>3. CarryInv'
      BY <1>14 DEF TypeOK, RunTypeOK, RunRecord, ControlInv, CarryInv, Starting,
         SendDirect, BeginStart, Acquire, Unlocked, IdleRun, dispVars, userVars,
         history, Id
    <2>4. KickInv'
      BY <1>14 DEF ControlInv, KickInv, SendDirect, BeginStart, Acquire, Unlocked,
         dispVars, userVars, history, Id
    <2> QED BY <2>1, <2>2, <2>3, <2>4 DEF ControlInv
  <1>15. ASSUME NEW r \in Run, DirectSaved(r)
         PROVE  ControlInv'
    <2>0. /\ lock.op = "direct" /\ lock' = NoLock /\ Starting(r) /\ UNCHANGED disp
          /\ \A s \in Run : s # r => run'[s] = run[s]
          /\ run'[r].pc \in {"body", "idle"}
      BY <1>15 DEF TypeOK, RunTypeOK, RunRecord, Starting, DirectSaved, StartCommitted,
         StartAborted, Commit, Rollback, NoLock, IdleRun, dispVars, userVars
    <2>1. LockInv'
      BY <2>0 DEF ControlInv, LockInv, Starting, Saving, Holding, NoLock
    <2>2. BootInv'
      BY <1>15 DEF TypeOK, RunTypeOK, RunRecord, ControlInv, BootInv, DirectSaved,
         StartCommitted, StartAborted, Commit, Rollback, NoLock, IdleRun, dispVars,
         userVars, Id
    <2>3. CarryInv'
      BY <1>15 DEF TypeOK, RunTypeOK, RunRecord, ControlInv, CarryInv, Starting,
         DirectSaved, StartCommitted, StartAborted, Commit, Rollback, NoLock, IdleRun,
         dispVars, userVars, Id
    <2>4. KickInv'
      BY <1>15 DEF ControlInv, KickInv, DirectSaved, StartCommitted, StartAborted,
         Commit, Rollback, NoLock, dispVars, userVars, Id
    <2> QED BY <2>1, <2>2, <2>3, <2>4 DEF ControlInv
  <1>16. ASSUME NEW d \in Dispatcher, DispCheck(d)
         PROVE  ControlInv'
    <2>0. \A k \in DOMAIN mem.queue : mem.queue[k].id \in QueueId
      BY JobFields DEF TypeOK, JobTypeOK
    <2>1. LockInv'
      BY <1>16 DEF TypeOK, DispTypeOK, DispRecord, ControlInv, LockInv, Starting,
         Saving, Holding, DispCheck, DispGoto, jobVars, runVars, userVars, history
    <2>2. BootInv'
      BY <1>16 DEF TypeOK, DispTypeOK, DispRecord, ControlInv, BootInv, DispCheck,
         DispGoto, NoLock, jobVars, runVars, userVars, history
    <2>3. CarryInv'
      BY <1>16, <2>0 DEF TypeOK, DispTypeOK, DispRecord, JobTypeOK, ControlInv,
         CarryInv, Starting, DispCheck, DispGoto, jobVars, runVars, userVars, history
    <2>4. KickInv'
      BY <1>16 DEF ControlInv, KickInv, DispCheck, DispGoto, jobVars, runVars, userVars,
         history
    <2> QED BY <2>1, <2>2, <2>3, <2>4 DEF ControlInv
  <1>17. ASSUME NEW d \in Dispatcher, DispDones(d)
         PROVE  ControlInv'
    <2>1. LockInv'
      BY <1>17 DEF TypeOK, DispTypeOK, DispRecord, ControlInv, LockInv, Starting,
         Saving, Holding, DispDones, DispGoto, jobVars, runVars, userVars, history
    <2>2. BootInv'
      BY <1>17 DEF TypeOK, DispTypeOK, DispRecord, ControlInv, BootInv, DispDones,
         DispGoto, NoLock, jobVars, runVars, userVars, history
    <2>3. CarryInv'
      BY <1>17 DEF TypeOK, DispTypeOK, DispRecord, ControlInv, CarryInv, Starting,
         DispDones, DispGoto, jobVars, runVars, userVars, history
    <2>4. KickInv'
      BY <1>17 DEF ControlInv, KickInv, DispDones, DispGoto, jobVars, runVars, userVars,
         history
    <2> QED BY <2>1, <2>2, <2>3, <2>4 DEF ControlInv
  <1>18. ASSUME NEW d \in Dispatcher, DispPrepare(d)
         PROVE  ControlInv'
    <2>0. /\ UNCHANGED <<lock, run>>
          /\ \A e \in Dispatcher : e # d => disp'[e] = disp[e]
          /\ disp'[d].pc \in {"send", "block"} /\ disp'[d].item = disp[d].item /\ disp[d].pc = "prepare"
      BY <1>18 DEF TypeOK, DispTypeOK, DispRecord, Starting, DispPrepare, DispGoto,
         jobVars, runVars, userVars, history
    <2>1. LockInv'
      BY <2>0 DEF ControlInv, LockInv, Starting, Saving, Holding, NoLock
    <2>2. BootInv'
      BY <1>18 DEF TypeOK, DispTypeOK, DispRecord, ControlInv, BootInv, DispPrepare,
         DispGoto, NoLock, jobVars, runVars, userVars, history
    <2>3. CarryInv'
      BY <2>0 DEF ControlInv, CarryInv, Starting, Saving, Holding, NoLock
    <2>4. KickInv'
      BY <1>18 DEF ControlInv, KickInv, DispPrepare, DispGoto, jobVars, runVars,
         userVars, history
    <2> QED BY <2>1, <2>2, <2>3, <2>4 DEF ControlInv
  <1>19. ASSUME NEW d \in Dispatcher, DispRefused(d)
         PROVE  ControlInv'
    <2>1. LockInv'
      BY <1>19 DEF TypeOK, DispTypeOK, DispRecord, ControlInv, LockInv, Starting,
         Saving, Holding, DispRefused, DispGoto, jobVars, runVars, userVars, history
    <2>2. BootInv'
      BY <1>19 DEF TypeOK, DispTypeOK, DispRecord, ControlInv, BootInv, DispRefused,
         DispGoto, NoLock, jobVars, runVars, userVars, history
    <2>3. CarryInv'
      BY <1>19 DEF TypeOK, DispTypeOK, DispRecord, ControlInv, CarryInv, Starting,
         DispRefused, DispGoto, jobVars, runVars, userVars, history
    <2>4. KickInv'
      BY <1>19 DEF ControlInv, KickInv, DispRefused, DispGoto, jobVars, runVars,
         userVars, history
    <2> QED BY <2>1, <2>2, <2>3, <2>4 DEF ControlInv
  <1>20. ASSUME NEW d \in Dispatcher, NEW r \in Run, DispSend(d, r)
         PROVE  ControlInv'
    <2>1. LockInv'
      BY <1>20 DEF TypeOK, RunTypeOK, DispTypeOK, RunRecord, DispRecord, ControlInv,
         LockInv, Starting, Saving, Holding, DispSend, DispGoto, BeginStart, Acquire,
         Unlocked, IdleRun, userVars, history, Id
    <2>2. BootInv'
      BY <1>20 DEF TypeOK, RunTypeOK, DispTypeOK, RunRecord, DispRecord, ControlInv,
         BootInv, DispSend, DispGoto, BeginStart, Acquire, Unlocked, IdleRun, NoLock,
         userVars, history, Id
    <2>3. CarryInv'
      BY <1>20 DEF TypeOK, RunTypeOK, DispTypeOK, RunRecord, DispRecord, ControlInv,
         CarryInv, Starting, DispSend, DispGoto, BeginStart, Acquire, Unlocked, IdleRun,
         userVars, history, Id
    <2>4. KickInv'
      BY <1>20 DEF ControlInv, KickInv, DispSend, DispGoto, BeginStart, Acquire,
         Unlocked, userVars, history, Id
    <2> QED BY <2>1, <2>2, <2>3, <2>4 DEF ControlInv
  <1>21. ASSUME NEW d \in Dispatcher, NEW r \in Run, DispSendSaved(d, r)
         PROVE  ControlInv'
    <2>0. /\ disp[d].pc = "sendSave" /\ lock' = NoLock /\ Starting(r)
          /\ \A s \in Run : s # r => run'[s] = run[s]
          /\ run'[r].pc \in {"body", "idle"}
          /\ \A e \in Dispatcher : e # d => disp'[e] = disp[e]
          /\ disp'[d].pc \in {"idle", "block"}
      BY <1>21 DEF TypeOK, RunTypeOK, DispTypeOK, RunRecord, DispRecord, Starting,
         DispSendSaved, DispGoto, StartCommitted, StartAborted, Commit, Rollback,
         NoLock, IdleRun, IdleDisp, userVars
    <2>1. LockInv'
      BY <2>0 DEF ControlInv, LockInv, Starting, Saving, Holding, NoLock
    <2>2. BootInv'
      BY <1>21 DEF TypeOK, RunTypeOK, DispTypeOK, RunRecord, DispRecord, ControlInv,
         BootInv, DispSendSaved, DispGoto, StartCommitted, StartAborted, Commit,
         Rollback, NoLock, IdleRun, IdleDisp, userVars, Id
    <2>3. CarryInv'
      <3>1. /\ run'[r].pc = "idle" \/ run'[r].id = run[r].id
            /\ disp'[d].pc = "idle" \/ disp'[d].item = disp[d].item
        BY <1>21 DEF TypeOK, RunTypeOK, DispTypeOK, RunRecord, DispRecord, DispSendSaved,
           DispGoto, StartCommitted, StartAborted, IdleRun, IdleDisp
      <3> QED BY <2>0, <3>1 DEF ControlInv, CarryInv, Starting, NoLock
    <2>4. KickInv'
      BY <1>21 DEF ControlInv, KickInv, DispSendSaved, DispGoto, StartCommitted,
         StartAborted, Commit, Rollback, NoLock, userVars, Id
    <2> QED BY <2>1, <2>2, <2>3, <2>4 DEF ControlInv
  <1>22. ASSUME NEW d \in Dispatcher, DispBlock(d)
         PROVE  ControlInv'
    <2>1. LockInv'
      BY <1>22 DEF TypeOK, DispTypeOK, DispRecord, ControlInv, LockInv, Starting,
         Saving, Holding, DispBlock, DispGoto, Acquire, Unlocked, runVars, userVars,
         history
    <2>2. BootInv'
      BY <1>22 DEF TypeOK, DispTypeOK, DispRecord, ControlInv, BootInv, DispBlock,
         DispGoto, Acquire, Unlocked, NoLock, runVars, userVars, history
    <2>3. CarryInv'
      BY <1>22 DEF TypeOK, DispTypeOK, DispRecord, ControlInv, CarryInv, Starting,
         DispBlock, DispGoto, Acquire, Unlocked, runVars, userVars, history
    <2>4. KickInv'
      BY <1>22 DEF ControlInv, KickInv, DispBlock, DispGoto, Acquire, Unlocked, runVars,
         userVars, history
    <2> QED BY <2>1, <2>2, <2>3, <2>4 DEF ControlInv
  <1>23. ASSUME NEW d \in Dispatcher, DispBlockSaved(d)
         PROVE  ControlInv'
    <2>1. LockInv'
      BY <1>23 DEF TypeOK, DispTypeOK, DispRecord, ControlInv, LockInv, Starting,
         Saving, Holding, DispBlockSaved, DispGoto, Commit, Rollback, NoLock, runVars,
         userVars, history
    <2>2. BootInv'
      BY <1>23 DEF TypeOK, DispTypeOK, DispRecord, ControlInv, BootInv, DispBlockSaved,
         DispGoto, Commit, Rollback, NoLock, runVars, userVars, history
    <2>3. CarryInv'
      BY <1>23 DEF TypeOK, DispTypeOK, DispRecord, ControlInv, CarryInv, Starting,
         DispBlockSaved, DispGoto, Commit, Rollback, NoLock, runVars, userVars, history
    <2>4. KickInv'
      BY <1>23 DEF ControlInv, KickInv, DispBlockSaved, DispGoto, Commit, Rollback,
         NoLock, runVars, userVars, history
    <2> QED BY <2>1, <2>2, <2>3, <2>4 DEF ControlInv
  <1>24. ASSUME NEW d \in Dispatcher, DispFinish(d)
         PROVE  ControlInv'
    <2>1. LockInv'
      BY <1>24 DEF TypeOK, DispTypeOK, DispRecord, ControlInv, LockInv, Starting,
         Saving, Holding, DispFinish, DispGoto, jobVars, runVars, userVars, history
    <2>2. BootInv'
      BY <1>24 DEF TypeOK, DispTypeOK, DispRecord, ControlInv, BootInv, DispFinish,
         DispGoto, NoLock, jobVars, runVars, userVars, history
    <2>3. CarryInv'
      BY <1>24 DEF TypeOK, DispTypeOK, DispRecord, ControlInv, CarryInv, Starting,
         DispFinish, DispGoto, jobVars, runVars, userVars, history
    <2>4. KickInv'
      BY <1>24 DEF ControlInv, KickInv, DispFinish, DispGoto, jobVars, runVars,
         userVars, history
    <2> QED BY <2>1, <2>2, <2>3, <2>4 DEF ControlInv
  <1>25. ASSUME NEW d \in Dispatcher, DispRecheck(d)
         PROVE  ControlInv'
    <2>0. /\ UNCHANGED <<lock, run>>
          /\ \A e \in Dispatcher : disp'[e] = disp[e] \/ disp'[e].pc \in {"check", "idle"}
      <3> DEFINE rest == [disp EXCEPT ![d] = IdleDisp]
      <3>1. rest \in [Dispatcher -> DispRecord]
        BY IdleTypes DEF TypeOK, DispTypeOK
      <3>2. \A e \in Dispatcher : rest[e] = disp[e] \/ rest[e].pc = "idle"
        BY DEF TypeOK, DispTypeOK, IdleDisp
      <3>3. RequestDispatch(rest) \/ disp' = rest
        BY <1>25 DEF DispRecheck
      <3>4. \A e \in Dispatcher : disp'[e] = rest[e] \/ disp'[e].pc = "check"
        BY <3>1, <3>3, RequestDispatchEffect
      <3>5. UNCHANGED <<lock, run>>
        BY <1>25 DEF DispRecheck, jobVars, runVars
      <3> QED BY <3>2, <3>4, <3>5
    <2>1. LockInv'
      BY <2>0 DEF ControlInv, LockInv, Starting, Saving, Holding, NoLock
    <2>2. BootInv'
      BY <1>25, RequestDispatchEffect, IdleTypes DEF TypeOK, DispTypeOK, DispRecord,
         ControlInv, BootInv, DispRecheck, IdleDisp, NoLock, jobVars, runVars, userVars,
         history
    <2>3. CarryInv'
      BY <2>0 DEF ControlInv, CarryInv, Starting, Saving, Holding, NoLock
    <2>4. KickInv'
      BY <1>25, RequestDispatchEffect, IdleTypes DEF ControlInv, KickInv, DispRecheck,
         jobVars, runVars, userVars, history
    <2> QED BY <2>1, <2>2, <2>3, <2>4 DEF ControlInv
  <1>26. ASSUME NEW r \in Run, RunBody(r)
         PROVE  ControlInv'
    <2>0. /\ UNCHANGED <<lock, disp>>
          /\ \A s \in Run : s # r => run'[s] = run[s]
          /\ run'[r].pc \in {"exit", "term"}
      BY <1>26 DEF TypeOK, RunTypeOK, RunRecord, Starting, RunBody, RunGoto, jobVars,
         dispVars, userVars, history
    <2>1. LockInv'
      BY <2>0 DEF ControlInv, LockInv, Starting, Saving, Holding, NoLock
    <2>2. BootInv'
      BY <1>26 DEF TypeOK, RunTypeOK, RunRecord, ControlInv, BootInv, RunBody, RunGoto,
         NoLock, jobVars, dispVars, userVars, history
    <2>3. CarryInv'
      BY <2>0 DEF ControlInv, CarryInv, Starting, Saving, Holding, NoLock
    <2>4. KickInv'
      BY <1>26 DEF ControlInv, KickInv, RunBody, jobVars, dispVars, userVars, history
    <2> QED BY <2>1, <2>2, <2>3, <2>4 DEF ControlInv
  <1>27. ASSUME NEW r \in Run, RunExit(r)
         PROVE  ControlInv'
    <2>0. /\ UNCHANGED <<lock, disp>>
          /\ \A s \in Run : s # r => run'[s] = run[s]
          /\ run'[r].pc \in {"clear", "term"}
      BY <1>27 DEF TypeOK, RunTypeOK, RunRecord, Starting, RunExit, RunGoto, jobVars,
         dispVars, userVars, history
    <2>1. LockInv'
      BY <2>0 DEF ControlInv, LockInv, Starting, Saving, Holding, NoLock
    <2>2. BootInv'
      BY <1>27 DEF TypeOK, RunTypeOK, RunRecord, ControlInv, BootInv, RunExit, RunGoto,
         NoLock, jobVars, dispVars, userVars, history
    <2>3. CarryInv'
      BY <2>0 DEF ControlInv, CarryInv, Starting, Saving, Holding, NoLock
    <2>4. KickInv'
      BY <1>27 DEF ControlInv, KickInv, RunExit, jobVars, dispVars, userVars, history
    <2> QED BY <2>1, <2>2, <2>3, <2>4 DEF ControlInv
  <1>28. ASSUME NEW r \in Run, RunTerm(r)
         PROVE  ControlInv'
    <2>1. LockInv'
      BY <1>28 DEF TypeOK, RunTypeOK, RunRecord, ControlInv, LockInv, Starting, Saving,
         Holding, RunTerm, RunGoto, Acquire, Unlocked, dispVars, userVars
    <2>2. BootInv'
      BY <1>28 DEF TypeOK, RunTypeOK, RunRecord, ControlInv, BootInv, RunTerm, RunGoto,
         Acquire, Unlocked, NoLock, dispVars, userVars
    <2>3. CarryInv'
      BY <1>28 DEF TypeOK, RunTypeOK, RunRecord, ControlInv, CarryInv, Starting,
         RunTerm, RunGoto, Acquire, Unlocked, dispVars, userVars
    <2>4. KickInv'
      BY <1>28 DEF ControlInv, KickInv, RunTerm, Acquire, Unlocked, dispVars, userVars
    <2> QED BY <2>1, <2>2, <2>3, <2>4 DEF ControlInv
  <1>29. ASSUME NEW r \in Run, RunTermSaved(r)
         PROVE  ControlInv'
    <2>1. LockInv'
      BY <1>29 DEF TypeOK, RunTypeOK, DispTypeOK, RunRecord, DispRecord, ControlInv,
         LockInv, Starting, Saving, Holding, RunTermSaved, RunGoto, Commit, KeepUnsaved,
         NoLock, dispVars, userVars, history
    <2>2. BootInv'
      BY <1>29 DEF TypeOK, RunTypeOK, DispTypeOK, RunRecord, DispRecord, ControlInv,
         BootInv, RunTermSaved, RunGoto, Commit, KeepUnsaved, NoLock, dispVars,
         userVars, history
    <2>3. CarryInv'
      BY <1>29 DEF TypeOK, RunTypeOK, DispTypeOK, RunRecord, DispRecord, ControlInv,
         CarryInv, Starting, RunTermSaved, RunGoto, Commit, KeepUnsaved, NoLock,
         dispVars, userVars, history
    <2>4. KickInv'
      BY <1>29 DEF ControlInv, KickInv, RunTermSaved, Commit, KeepUnsaved, NoLock,
         dispVars, userVars, history
    <2> QED BY <2>1, <2>2, <2>3, <2>4 DEF ControlInv
  <1>30. ASSUME NEW r \in Run, RunClear(r)
         PROVE  ControlInv'
    <2>1. LockInv'
      BY <1>30 DEF TypeOK, RunTypeOK, RunRecord, ControlInv, LockInv, Starting, Saving,
         Holding, RunClear, RunGoto, jobVars, dispVars, userVars, history
    <2>2. BootInv'
      BY <1>30 DEF TypeOK, RunTypeOK, RunRecord, ControlInv, BootInv, RunClear, RunGoto,
         NoLock, jobVars, dispVars, userVars, history
    <2>3. CarryInv'
      BY <1>30 DEF TypeOK, RunTypeOK, RunRecord, ControlInv, CarryInv, Starting,
         RunClear, RunGoto, jobVars, dispVars, userVars, history
    <2>4. KickInv'
      BY <1>30 DEF ControlInv, KickInv, RunClear, jobVars, dispVars, userVars, history
    <2> QED BY <2>1, <2>2, <2>3, <2>4 DEF ControlInv
  <1>31. ASSUME NEW r \in Run, RunComplete(r)
         PROVE  ControlInv'
    <2>0. /\ lock.op = "free" /\ UNCHANGED disp
          /\ \A s \in Run : s # r => run'[s] = run[s]
          /\ \/ run'[r].pc = "completeSave" /\ lock'.op = "run"
             \/ run'[r].pc = "clearPause" /\ UNCHANGED lock
      BY <1>31 DEF TypeOK, RunTypeOK, RunRecord, Starting, RunComplete, RunGoto,
         Acquire, Unlocked, dispVars, userVars, history
    <2>1. LockInv'
      BY <2>0 DEF ControlInv, LockInv, Starting, Saving, Holding, NoLock
    <2>2. BootInv'
      BY <1>31 DEF TypeOK, RunTypeOK, RunRecord, ControlInv, BootInv, RunComplete,
         RunGoto, Acquire, Unlocked, NoLock, dispVars, userVars, history
    <2>3. CarryInv'
      BY <1>31 DEF TypeOK, RunTypeOK, RunRecord, ControlInv, CarryInv, Starting,
         RunComplete, RunGoto, Acquire, Unlocked, dispVars, userVars, history
    <2>4. KickInv'
      BY <1>31 DEF ControlInv, KickInv, RunComplete, Acquire, Unlocked, dispVars,
         userVars, history
    <2> QED BY <2>1, <2>2, <2>3, <2>4 DEF ControlInv
  <1>32. ASSUME NEW r \in Run, RunCompleteSaved(r)
         PROVE  ControlInv'
    <2>1. LockInv'
      BY <1>32 DEF TypeOK, RunTypeOK, RunRecord, ControlInv, LockInv, Starting, Saving,
         Holding, RunCompleteSaved, RunGoto, Commit, Rollback, NoLock, dispVars,
         userVars, history
    <2>2. BootInv'
      BY <1>32 DEF TypeOK, RunTypeOK, RunRecord, ControlInv, BootInv, RunCompleteSaved,
         RunGoto, Commit, Rollback, NoLock, dispVars, userVars, history
    <2>3. CarryInv'
      BY <1>32 DEF TypeOK, RunTypeOK, RunRecord, ControlInv, CarryInv, Starting,
         RunCompleteSaved, RunGoto, Commit, Rollback, NoLock, dispVars, userVars,
         history
    <2>4. KickInv'
      BY <1>32 DEF ControlInv, KickInv, RunCompleteSaved, Commit, Rollback, NoLock,
         dispVars, userVars, history
    <2> QED BY <2>1, <2>2, <2>3, <2>4 DEF ControlInv
  <1>33. ASSUME NEW r \in Run, RunClearPause(r)
         PROVE  ControlInv'
    <2>1. LockInv'
      BY <1>33 DEF TypeOK, RunTypeOK, RunRecord, ControlInv, LockInv, Starting, Saving,
         Holding, RunClearPause, RunGoto, Acquire, Unlocked, dispVars, userVars, history
    <2>2. BootInv'
      BY <1>33 DEF TypeOK, RunTypeOK, RunRecord, ControlInv, BootInv, RunClearPause,
         RunGoto, Acquire, Unlocked, NoLock, dispVars, userVars, history
    <2>3. CarryInv'
      BY <1>33 DEF TypeOK, RunTypeOK, RunRecord, ControlInv, CarryInv, Starting,
         RunClearPause, RunGoto, Acquire, Unlocked, dispVars, userVars, history
    <2>4. KickInv'
      BY <1>33 DEF ControlInv, KickInv, RunClearPause, Acquire, Unlocked, dispVars,
         userVars, history
    <2> QED BY <2>1, <2>2, <2>3, <2>4 DEF ControlInv
  <1>34. ASSUME NEW r \in Run, RunClearPauseSaved(r)
         PROVE  ControlInv'
    <2>1. LockInv'
      BY <1>34 DEF TypeOK, RunTypeOK, RunRecord, ControlInv, LockInv, Starting, Saving,
         Holding, RunClearPauseSaved, RunGoto, Commit, Rollback, NoLock, dispVars,
         userVars
    <2>2. BootInv'
      BY <1>34 DEF TypeOK, RunTypeOK, RunRecord, ControlInv, BootInv,
         RunClearPauseSaved, RunGoto, Commit, Rollback, NoLock, dispVars, userVars
    <2>3. CarryInv'
      BY <1>34 DEF TypeOK, RunTypeOK, RunRecord, ControlInv, CarryInv, Starting,
         RunClearPauseSaved, RunGoto, Commit, Rollback, NoLock, dispVars, userVars
    <2>4. KickInv'
      BY <1>34 DEF ControlInv, KickInv, RunClearPauseSaved, Commit, Rollback, NoLock,
         dispVars, userVars
    <2> QED BY <2>1, <2>2, <2>3, <2>4 DEF ControlInv
  <1>35. ASSUME NEW r \in Run, RunFinish(r)
         PROVE  ControlInv'
    <2>0. /\ UNCHANGED lock
          /\ \A s \in Run : s # r => run'[s] = run[s]
          /\ run'[r].pc \in {"recheck", "idle"}
          /\ \A e \in Dispatcher : disp'[e] = disp[e] \/ disp'[e].pc = "check"
      BY <1>35, RequestDispatchEffect DEF TypeOK, RunTypeOK, DispTypeOK, RunRecord,
         DispRecord, Starting, RunFinish, RunGoto, IdleRun, jobVars, userVars, history
    <2>1. LockInv'
      BY <2>0 DEF ControlInv, LockInv, Starting, Saving, Holding, NoLock
    <2>2. BootInv'
      BY <1>35, RequestDispatchEffect DEF TypeOK, RunTypeOK, DispTypeOK, RunRecord,
         DispRecord, ControlInv, BootInv, RunFinish, RunGoto, IdleRun, NoLock, jobVars,
         userVars, history
    <2>3. CarryInv'
      BY <2>0 DEF ControlInv, CarryInv, Starting, Saving, Holding, NoLock
    <2>4. KickInv'
      BY <1>35, RequestDispatchEffect DEF ControlInv, KickInv, RunFinish, jobVars,
         userVars, history
    <2> QED BY <2>1, <2>2, <2>3, <2>4 DEF ControlInv
  <1>36. ASSUME NEW r \in Run, RunRecheck(r)
         PROVE  ControlInv'
    <2>0. /\ UNCHANGED lock
          /\ \A s \in Run : s # r => run'[s] = run[s]
          /\ run'[r].pc = "idle"
          /\ \A e \in Dispatcher : disp'[e] = disp[e] \/ disp'[e].pc = "check"
      BY <1>36, RequestDispatchEffect DEF TypeOK, RunTypeOK, DispTypeOK, RunRecord,
         DispRecord, Starting, RunRecheck, IdleRun, jobVars, userVars, history
    <2>1. LockInv'
      BY <2>0 DEF ControlInv, LockInv, Starting, Saving, Holding, NoLock
    <2>2. BootInv'
      BY <1>36, RequestDispatchEffect DEF TypeOK, RunTypeOK, DispTypeOK, RunRecord,
         DispRecord, ControlInv, BootInv, RunRecheck, IdleRun, NoLock, jobVars,
         userVars, history
    <2>3. CarryInv'
      BY <2>0 DEF ControlInv, CarryInv, Starting, Saving, Holding, NoLock
    <2>4. KickInv'
      BY <1>36, RequestDispatchEffect DEF ControlInv, KickInv, RunRecheck, jobVars,
         userVars, history
    <2> QED BY <2>1, <2>2, <2>3, <2>4 DEF ControlInv
  <1>37. ASSUME Crash
         PROVE  ControlInv'
    <2>1. LockInv'
      BY <1>37 DEF TypeOK, RunTypeOK, DispTypeOK, RunRecord, DispRecord, ControlInv,
         LockInv, Starting, Saving, Holding, Crash, NoLock, IdleRun, IdleDisp
    <2>2. BootInv'
      BY <1>37 DEF TypeOK, RunTypeOK, DispTypeOK, RunRecord, DispRecord, ControlInv,
         BootInv, Crash, NoLock, IdleRun, IdleDisp
    <2>3. CarryInv'
      BY <1>37 DEF TypeOK, RunTypeOK, DispTypeOK, RunRecord, DispRecord, ControlInv,
         CarryInv, Starting, Crash, NoLock, IdleRun, IdleDisp
    <2>4. KickInv'
      BY <1>37 DEF ControlInv, KickInv, Crash, NoLock
    <2> QED BY <2>1, <2>2, <2>3, <2>4 DEF ControlInv
  <1>38. ASSUME Load
         PROVE  ControlInv'
    <2>1. LockInv'
      BY <1>38 DEF ControlInv, LockInv, Starting, Saving, Holding, Load, runVars,
         dispVars, userVars, history
    <2>2. BootInv'
      BY <1>38 DEF ControlInv, BootInv, Load, NoLock, runVars, dispVars, userVars,
         history
    <2>3. CarryInv'
      BY <1>38 DEF ControlInv, CarryInv, Starting, Load, runVars, dispVars, userVars,
         history
    <2>4. KickInv'
      BY <1>38 DEF ControlInv, KickInv, Load, runVars, dispVars, userVars, history
    <2> QED BY <2>1, <2>2, <2>3, <2>4 DEF ControlInv
  <1>39. ASSUME SetMessageQueueDispatcher
         PROVE  ControlInv'
    <2>1. LockInv'
      BY <1>39, RequestDispatchEffect DEF TypeOK, DispTypeOK, DispRecord, ControlInv,
         LockInv, Starting, Saving, Holding, SetMessageQueueDispatcher, runVars,
         userVars, history
    <2>2. BootInv'
      BY <1>39, RequestDispatchEffect DEF TypeOK, DispTypeOK, DispRecord, ControlInv,
         BootInv, SetMessageQueueDispatcher, NoLock, runVars, userVars, history
    <2>3. CarryInv'
      BY <1>39, RequestDispatchEffect DEF TypeOK, DispTypeOK, DispRecord, ControlInv,
         CarryInv, Starting, SetMessageQueueDispatcher, runVars, userVars, history
    <2>4. KickInv'
      BY <1>39, RequestDispatchEffect DEF ControlInv, KickInv,
         SetMessageQueueDispatcher, runVars, userVars, history
    <2> QED BY <2>1, <2>2, <2>3, <2>4 DEF ControlInv
  <1>40. CASE UNCHANGED vars
    BY <1>40 DEF ControlInv, LockInv, BootInv, CarryInv, KickInv, Starting, Saving,
       Holding, vars, jobVars, runVars, dispVars, userVars, history
  <1> QED BY <1>1, <1>2, <1>3, <1>4, <1>5, <1>6, <1>7, <1>8, <1>9, <1>10, <1>11, <1>12,
     <1>13, <1>14, <1>15, <1>16, <1>17, <1>18, <1>19, <1>20, <1>21, <1>22, <1>23, <1>24,
     <1>25, <1>26, <1>27, <1>28, <1>29, <1>30, <1>31, <1>32, <1>33, <1>34, <1>35, <1>36,
     <1>37, <1>38, <1>39, <1>40 DEF Next, UserStep, HandlerStep, DispatcherStep,
     RunStep, BootStep

(***************************************************************************)
(* The data part.                                                          *)
(***************************************************************************)
\* While no claim and no deletion is being saved, memory has every message.
LEMMA NothingPending ==
  ASSUME DataInv, lock.op # "delete", \A r \in Run : ~Starting(r)
  PROVE  Kept(mem)
PROOF BY DEF DataInv, MemKept, Kept, Pending

\* Only the two sends can be pending, and only under their own lock.
LEMMA NobodyStarting ==
  ASSUME ControlInv, lock.op \notin {"direct", "dispatch"}
  PROVE  \A r \in Run : ~Starting(r)
PROOF BY DEF ControlInv, LockInv

\* A mutation that keeps receipts and waiting messages keeps what a copy says.
LEMMA GoodNext ==
  ASSUME TypeOK, NEW j \in Job, NEW n \in Job, Good(j), Coherent(n), ReceiptsKept(j, n)
  PROVE  Good(n)
PROOF
  <1>1. \A i \in dropped : i \in Id
    BY DEF TypeOK, HistoryTypeOK, Id
  <1>2. \A i \in Id : execs[i] > 0 => n.receipt[i] \in Claimed
    BY DEF Good, ReceiptsKept
  <1>3. \A i \in dropped : n.receipt[i] = "deleted"
    BY <1>1 DEF Good, ReceiptsKept
  <1> QED BY <1>2, <1>3 DEF Good

\* And the messages it has to keep.
LEMMA KeptNext ==
  ASSUME TypeOK, NEW j, NEW n, Kept(j), WaitsKept(j, n)
  PROVE  Kept(n)
PROOF BY DEF Kept, WaitsKept, TypeOK, HistoryTypeOK

\* A step after which no message is pending keeps the data part if it leaves three
\* good copies and the history alone.
LEMMA QuietData ==
  ASSUME DataInv, UNCHANGED <<acked, dropped, execs>>,
         lock'.op \notin {"submit", "delete"}, \A r \in Run : run'[r].pc # "starting",
         Good(mem'), Good(disk'), Good(saved'), Kept(mem'), Kept(disk'), Kept(saved')
  PROVE  DataInv'
PROOF
  <1>1. AtMostOnce'
    BY DEF DataInv, AtMostOnce
  <1>2. Good(mem)' /\ Good(disk)' /\ Good(saved)'
    BY DEF Good
  <1>3. Kept(disk)' /\ Kept(saved)' /\ MemKept'
    BY DEF Kept, MemKept, Settled
  <1>4. LockData'
    BY DEF LockData, Starting
  <1> QED BY <1>1, <1>2, <1>3, <1>4 DEF DataInv

\* A step that leaves the copies, the lock and the starting runs alone.
LEMMA FrameData ==
  ASSUME DataInv, UNCHANGED <<mem, disk, saved, lock, acked, dropped, execs>>,
         \A r \in Run : /\ run'[r].pc = "starting" <=> run[r].pc = "starting"
                        /\ run[r].pc = "starting" => run'[r].id = run[r].id
  PROVE  DataInv'
PROOF
  <1>1. AtMostOnce'
    BY DEF DataInv, AtMostOnce
  <1>2. Good(mem)' /\ Good(disk)' /\ Good(saved)'
    BY DEF DataInv, Good
  <1>3. Kept(disk)' /\ Kept(saved)'
    BY DEF DataInv, Kept, Settled
  <1>4. MemKept'
    BY DEF DataInv, MemKept, Settled, Pending, Starting
  <1>5. LockData'
    BY DEF DataInv, LockData, Starting
  <1> QED BY <1>1, <1>2, <1>3, <1>4, <1>5 DEF DataInv

\* The first half of a locked operation other than a send, a submission, a deletion.
LEMMA AcquireData ==
  ASSUME TypeOK, ControlInv, DataInv, NEW op, NEW i, NEW job \in Job,
         Acquire(op, i, job), op \notin {"submit", "delete"},
         Coherent(job), ReceiptsKept(mem, job), WaitsKept(mem, job),
         UNCHANGED <<disk, acked, dropped, execs>>,
         \A r \in Run : run'[r].pc # "starting"
  PROVE  DataInv'
PROOF
  <1>1. lock.op = "free" /\ lock'.op = op /\ saved' = mem /\ mem' = job /\ disk' = disk
    BY DEF Acquire, Unlocked
  <1>2. Kept(mem)
    BY <1>1, NobodyStarting, NothingPending
  <1>3. mem \in Job
    BY DEF TypeOK, JobTypeOK
  <1>4. Good(job) /\ Kept(job)
    BY <1>2, <1>3, GoodNext, KeptNext DEF DataInv
  <1> QED BY <1>1, <1>2, <1>4, QuietData DEF DataInv

\* The second half, when nothing is pending: saved, rolled back, or kept unsaved.
LEMMA ReleaseData ==
  ASSUME DataInv, NEW kind,
         \/ lock.op # "delete" /\ (\A r \in Run : ~Starting(r)) /\ (Commit \/ KeepUnsaved(kind))
         \/ Rollback(kind),
         UNCHANGED <<acked, dropped, execs>>,
         \A r \in Run : run'[r].pc # "starting"
  PROVE  DataInv'
PROOF
  <1>1. lock'.op = "free"
    BY DEF Commit, KeepUnsaved, Rollback, NoLock
  <1>2. CASE Rollback(kind)
    <2>1. mem' = saved /\ disk' = disk /\ saved' = saved
      BY <1>2 DEF Rollback
    <2> QED BY <1>1, <2>1, QuietData DEF DataInv
  <1>3. CASE lock.op # "delete" /\ (\A r \in Run : ~Starting(r)) /\ (Commit \/ KeepUnsaved(kind))
    <2>1. Kept(mem)
      BY <1>3, NothingPending
    <2>2. mem' = mem /\ saved' = mem /\ disk' \in {mem, disk}
      BY <1>3 DEF Commit, KeepUnsaved
    <2>3. Good(disk') /\ Kept(disk')
      BY <2>1, <2>2 DEF DataInv
    <2> QED BY <1>1, <2>1, <2>2, <2>3, QuietData DEF DataInv
  <1> QED BY <1>2, <1>3

\* SendMessage's claim: the message is pending until the save.
LEMMA BeginStartData ==
  ASSUME TypeOK, ControlInv, DataInv, NEW op, NEW i \in Id, NEW r \in Run,
         BeginStart(op, i, r), op \notin {"submit", "delete"},
         UNCHANGED <<disk, acked, dropped, execs>>
  PROVE  DataInv'
PROOF
  <1> DEFINE n == Started(mem, i)
  <1>1. /\ lock.op = "free" /\ lock'.op = op /\ saved' = mem /\ mem' = n
        /\ disk' = disk /\ MayStart(mem, i)
    BY DEF BeginStart, Acquire, Unlocked
  <1>2. /\ run'[r].pc = "starting" /\ run'[r].id = i
        /\ \A s \in Run : s # r => run'[s] = run[s]
    BY DEF BeginStart, TypeOK, RunTypeOK, IdleRun
  <1>3. /\ \A s \in Run : ~Starting(s)
        /\ Kept(mem)
    BY <1>1, NobodyStarting, NothingPending
  <1>4. mem \in Job /\ n \in Job
    BY StartedType DEF TypeOK, JobTypeOK
  <1>5. /\ Coherent(n) /\ ReceiptsKept(mem, n) /\ n.receipt[i] = "processing"
        /\ \A m \in QueueId : m # i /\ Waits(mem, m) => Waits(n, m)
    BY <1>1, <1>4, StartedCoherent, StartedKeeps DEF DataInv, Good
  <1> HIDE DEF n
  <1>6. Good(n)
    BY <1>4, <1>5, GoodNext DEF DataInv
  <1>7. execs[i] = 0
    <2>1. mem.receipt[i] \notin Claimed
      BY <1>1 DEF MayStart, Claimed
    <2>2. ~(execs[i] > 0) /\ execs[i] \in Nat
      BY <2>1 DEF DataInv, Good, TypeOK, HistoryTypeOK
    <2> QED BY <2>2
  <1>8. AtMostOnce'
    BY DEF DataInv, AtMostOnce
  <1>9. Good(mem)' /\ Good(disk)' /\ Good(saved)'
    BY <1>1, <1>6 DEF DataInv, Good
  <1>10. Kept(disk)' /\ Kept(saved)'
    BY <1>1, <1>3 DEF DataInv, Kept, Settled
  <1>11. MemKept'
    <2> SUFFICES ASSUME NEW m \in acked
                 PROVE  Waits(n, m) \/ Settled(m) \/ m = i
      BY <1>1, <1>2 DEF MemKept, Settled, Pending, Starting
    <2> QED BY <1>3, <1>5 DEF Kept, TypeOK, HistoryTypeOK
  <1>12. LockData'
    BY <1>1, <1>2, <1>3, <1>5, <1>7 DEF LockData, Starting
  <1> QED BY <1>8, <1>9, <1>10, <1>11, <1>12 DEF DataInv

\* The claim is saved and the agent starts: the only step that counts an execution.
LEMMA StartCommittedData ==
  ASSUME TypeOK, ControlInv, DataInv, NEW r \in Run, StartCommitted(r),
         UNCHANGED <<acked, dropped>>
  PROVE  DataInv'
PROOF
  <1> DEFINE i == run[r].id
  <1>1. /\ Starting(r) /\ i \in Id /\ execs[i] = 0 /\ mem.receipt[i] = "processing"
        /\ lock.op \in {"direct", "dispatch"}
        /\ \A s \in Run : Starting(s) => s = r
    BY DEF StartCommitted, Starting, ControlInv, LockInv, CarryInv, DataInv, LockData
  <1>2. /\ mem' = mem /\ disk' = mem /\ saved' = mem /\ lock' = NoLock
        /\ execs' = [execs EXCEPT ![i] = @ + 1]
    BY DEF StartCommitted, Commit
  <1>3. \A s \in Run : run'[s].pc # "starting"
    BY <1>1 DEF StartCommitted, Starting, TypeOK, RunTypeOK, RunRecord
  <1>4. /\ execs \in [Id -> Nat] /\ execs'[i] = 1
        /\ \A m \in Id : m # i => execs'[m] = execs[m]
    BY <1>1, <1>2 DEF TypeOK, HistoryTypeOK
  <1> HIDE DEF i
  <1>5. AtMostOnce'
    BY <1>4 DEF DataInv, AtMostOnce
  <1>6. Good(mem)' /\ Good(disk)' /\ Good(saved)'
    <2>1. \A m \in Id : execs'[m] > 0 => mem.receipt[m] \in Claimed
      BY <1>1, <1>4 DEF DataInv, Good, Claimed
    <2> QED BY <1>2, <2>1 DEF DataInv, Good
  <1>7. \A m \in acked : Waits(mem, m) \/ execs'[m] > 0 \/ m \in dropped
    <2> SUFFICES ASSUME NEW m \in acked
                 PROVE  Waits(mem, m) \/ execs'[m] > 0 \/ m \in dropped
      OBVIOUS
    <2>1. m \in Id
      BY DEF TypeOK, HistoryTypeOK, Id
    <2>2. Waits(mem, m) \/ execs[m] > 0 \/ m \in dropped \/ m = i
      BY <1>1 DEF DataInv, MemKept, Settled, Pending, i
    <2> QED BY <1>4, <2>1, <2>2
  <1>8. Kept(disk)' /\ Kept(saved)' /\ MemKept'
    BY <1>2, <1>7 DEF Kept, MemKept, Settled
  <1>9. LockData'
    BY <1>2, <1>3 DEF LockData, Starting, NoLock
  <1> QED BY <1>5, <1>6, <1>8, <1>9 DEF DataInv

\* An aborted start is a rollback.
LEMMA StartAbortedData ==
  ASSUME TypeOK, ControlInv, DataInv, NEW r \in Run, StartAborted(r),
         UNCHANGED <<acked, dropped>>
  PROVE  DataInv'
PROOF
  <1>1. Starting(r) /\ \A s \in Run : Starting(s) => s = r
    BY DEF StartAborted, Starting, ControlInv, LockInv
  <1>2. \A s \in Run : run'[s].pc # "starting"
    BY <1>1 DEF StartAborted, Starting, TypeOK, RunTypeOK, IdleRun
  <1>3. Rollback("start") /\ UNCHANGED execs
    BY DEF StartAborted
  <1> QED BY <1>2, <1>3, ReleaseData

\* Every action keeps the three copies of the job and the history in agreement.
LEMMA DataStep ==
  ASSUME TypeOK, ControlInv, DataInv, [Next]_vars
  PROVE  DataInv'
PROOF
  <1>0. /\ mem \in Job /\ disk \in Job /\ saved \in Job
        /\ Coherent(mem) /\ Coherent(disk) /\ Good(mem) /\ Good(disk) /\ Kept(disk)
    BY DEF TypeOK, JobTypeOK, DataInv, Good
  <1>1. ASSUME Kick
         PROVE  DataInv'
    BY <1>1, FrameData DEF Kick, jobVars, runVars, dispVars, userVars, history
  <1>2. ASSUME NEW i \in QueueId, Submit(i)
         PROVE  DataInv'
    <2> DEFINE job == Submitted(mem, i)
    <2>1. /\ lock.op = "free" /\ lock' = [op |-> "submit", id |-> i] /\ saved' = mem
          /\ mem' = job /\ MaySubmit(mem, i) /\ UNCHANGED <<disk, run, acked, dropped, execs>>
      BY <1>2 DEF Submit, Acquire, Unlocked, runVars, history
    <2>2. /\ job \in Job /\ Coherent(job) /\ ReceiptsKept(mem, job) /\ WaitsKept(mem, job)
          /\ Waits(job, i)
      BY <1>0, <2>1, SubmittedType, SubmittedCoherent, SubmittedKeeps
    <2>3. Kept(mem) /\ \A r \in Run : ~Starting(r)
      BY <2>1, NobodyStarting, NothingPending
    <2>4. Good(job) /\ Kept(job)
      BY <1>0, <2>2, <2>3, GoodNext, KeptNext
    <2> HIDE DEF job
    <2>5. Good(mem)' /\ Good(disk)' /\ Good(saved)' /\ AtMostOnce'
      BY <1>0, <2>1, <2>4 DEF Good, AtMostOnce, DataInv
    <2>6. Kept(disk)' /\ Kept(saved)' /\ MemKept'
      BY <1>0, <2>1, <2>3, <2>4 DEF Kept, Settled, MemKept
    <2>7. LockData'
      BY <2>1, <2>2, <2>3 DEF LockData, Starting
    <2> QED BY <2>5, <2>6, <2>7 DEF DataInv
  <1>3. ASSUME SubmitSaved
         PROVE  DataInv'
    <2>1. lock.op = "submit" /\ UNCHANGED <<run, dropped, execs>>
      BY <1>3 DEF SubmitSaved, runVars
    <2>2. \A r \in Run : ~Starting(r) /\ run'[r].pc # "starting"
      BY <2>1, NobodyStarting DEF Starting
    <2>3. CASE Rollback("submit") /\ UNCHANGED acked
      BY <2>1, <2>2, <2>3, ReleaseData
    <2>4. CASE Commit /\ acked' = acked \cup {lock.id}
      <3>1. mem' = mem /\ disk' = mem /\ saved' = mem /\ lock' = NoLock
        BY <2>4 DEF Commit
      <3>2. Kept(mem) /\ Waits(mem, lock.id)
        BY <2>1, <2>2, NothingPending DEF DataInv, LockData
      <3>3. Good(mem)' /\ Good(disk)' /\ Good(saved)' /\ AtMostOnce'
        BY <1>0, <2>1, <3>1 DEF Good, AtMostOnce, DataInv
      <3>4. Kept(disk)' /\ Kept(saved)' /\ MemKept'
        BY <2>1, <2>4, <3>1, <3>2 DEF Kept, Settled, MemKept
      <3>5. LockData'
        BY <2>2, <3>1 DEF LockData, Starting, NoLock
      <3> QED BY <3>3, <3>4, <3>5 DEF DataInv
    <2> QED BY <1>3, <2>3, <2>4 DEF SubmitSaved
  <1>4. ASSUME NEW k \in DOMAIN mem.queue, DeleteQueuedMessage(k)
         PROVE  DataInv'
    <2> DEFINE job == Deleted(mem, k)
               i == mem.queue[k].id
    <2>1. /\ lock.op = "free" /\ lock' = [op |-> "delete", id |-> i] /\ saved' = mem
          /\ mem' = job /\ MayDelete(mem, k) /\ UNCHANGED <<disk, run, acked, dropped, execs>>
      BY <1>4 DEF DeleteQueuedMessage, Acquire, Unlocked, runVars, history
    <2>2. /\ job \in Job /\ Coherent(job) /\ ReceiptsKept(mem, job)
          /\ job.receipt[i] = "deleted"
          /\ \A m \in QueueId : m # i /\ Waits(mem, m) => Waits(job, m)
      BY <1>0, <2>1, DeletedType, DeletedCoherent, DeletedKeeps
    <2>3. Kept(mem) /\ \A r \in Run : ~Starting(r)
      BY <2>1, NobodyStarting, NothingPending
    <2>4. Good(job)
      BY <1>0, <2>2, GoodNext
    <2> HIDE DEF job, i
    <2>5. Good(mem)' /\ Good(disk)' /\ Good(saved)' /\ AtMostOnce'
      BY <1>0, <2>1, <2>4 DEF Good, AtMostOnce, DataInv
    <2>6. Kept(disk)' /\ Kept(saved)'
      BY <1>0, <2>1, <2>3 DEF Kept, Settled
    <2>7. MemKept'
      <3> SUFFICES ASSUME NEW m \in acked
                   PROVE  Waits(job, m) \/ Settled(m) \/ m = i
        BY <2>1 DEF MemKept, Settled, Pending
      <3> QED BY <2>2, <2>3 DEF Kept, TypeOK, HistoryTypeOK
    <2>8. LockData'
      BY <2>1, <2>2, <2>3 DEF LockData, Starting
    <2> QED BY <2>5, <2>6, <2>7, <2>8 DEF DataInv
  <1>5. ASSUME DeleteSaved
         PROVE  DataInv'
    <2>1. lock.op = "delete" /\ UNCHANGED <<run, acked, execs>>
      BY <1>5 DEF DeleteSaved, runVars
    <2>2. \A r \in Run : ~Starting(r) /\ run'[r].pc # "starting"
      BY <2>1, NobodyStarting DEF Starting
    <2>3. CASE Rollback("delete") /\ UNCHANGED dropped
      BY <2>1, <2>2, <2>3, ReleaseData
    <2>4. CASE Commit /\ dropped' = dropped \cup {lock.id}
      <3>1. mem' = mem /\ disk' = mem /\ saved' = mem /\ lock' = NoLock
        BY <2>4 DEF Commit
      <3>2. mem.receipt[lock.id] = "deleted"
        BY <2>1 DEF DataInv, LockData
      <3>3. \A i \in acked : Waits(mem, i) \/ execs[i] > 0 \/ i \in dropped'
        BY <2>2, <2>4 DEF DataInv, MemKept, Settled, Pending
      <3>4. Good(mem)' /\ Good(disk)' /\ Good(saved)' /\ AtMostOnce'
        BY <1>0, <2>1, <2>4, <3>1, <3>2 DEF Good, AtMostOnce, DataInv
      <3>5. Kept(disk)' /\ Kept(saved)' /\ MemKept'
        BY <2>1, <3>1, <3>3 DEF Kept, Settled, MemKept
      <3>6. LockData'
        BY <2>2, <3>1 DEF LockData, Starting, NoLock
      <3> QED BY <3>4, <3>5, <3>6 DEF DataInv
    <2> QED BY <1>5, <2>3, <2>4 DEF DeleteSaved
  <1>6. ASSUME ContinueMessageQueue
         PROVE  DataInv'
    <2>1. UNCHANGED <<disk, run, acked, dropped, execs>>
      BY <1>6 DEF ContinueMessageQueue, runVars, history
    <2>2. CASE UNCHANGED <<mem, lock, saved>>
      BY <2>1, <2>2, FrameData
    <2>3. CASE Acquire("continue", NoId, Resumed(mem))
      <3>1. \A r \in Run : run'[r].pc # "starting"
        BY <2>1, <2>3, NobodyStarting DEF Acquire, Unlocked, Starting
      <3>2. /\ Resumed(mem) \in Job /\ Coherent(Resumed(mem))
            /\ ReceiptsKept(mem, Resumed(mem)) /\ WaitsKept(mem, Resumed(mem))
        BY <1>0, PauseType, OtherFieldsCoherent, OtherFieldsKeep
      <3> QED BY <2>1, <2>3, <3>1, <3>2, AcquireData
    <2> QED BY <1>6, <2>2, <2>3 DEF ContinueMessageQueue
  <1>7. ASSUME ContinueSaved
         PROVE  DataInv'
    <2>1. lock.op = "continue" /\ run' = run /\ UNCHANGED <<acked, dropped, execs>>
      BY <1>7 DEF ContinueSaved, runVars
    <2>2. \A r \in Run : ~Starting(r)
      BY <2>1, NobodyStarting
    <2>3. \A r \in Run : run'[r].pc # "starting"
      BY <2>1, <2>2 DEF Starting
    <2>4. Commit \/ Rollback("continue")
      BY <1>7 DEF ContinueSaved
    <2> QED BY <2>1, <2>2, <2>3, <2>4, ReleaseData
  <1>8. ASSUME PauseMessageQueueForStop
         PROVE  DataInv'
    <2>1. UNCHANGED <<disk, run, acked, dropped, execs>>
      BY <1>8 DEF PauseMessageQueueForStop, runVars, history
    <2>2. CASE UNCHANGED <<mem, lock, saved>>
      BY <2>1, <2>2, FrameData
    <2>3. CASE Acquire("pause", NoId, Stopped(mem))
      <3>1. \A r \in Run : run'[r].pc # "starting"
        BY <2>1, <2>3, NobodyStarting DEF Acquire, Unlocked, Starting
      <3>2. /\ Stopped(mem) \in Job /\ Coherent(Stopped(mem))
            /\ ReceiptsKept(mem, Stopped(mem)) /\ WaitsKept(mem, Stopped(mem))
        BY <1>0, PauseType, OtherFieldsCoherent, OtherFieldsKeep
      <3> QED BY <2>1, <2>3, <3>1, <3>2, AcquireData
    <2> QED BY <1>8, <2>2, <2>3 DEF PauseMessageQueueForStop
  <1>9. ASSUME PauseSaved
         PROVE  DataInv'
    <2>1. lock.op = "pause" /\ run' = run /\ UNCHANGED <<acked, dropped, execs>>
      BY <1>9 DEF PauseSaved, runVars
    <2>2. \A r \in Run : ~Starting(r)
      BY <2>1, NobodyStarting
    <2>3. \A r \in Run : run'[r].pc # "starting"
      BY <2>1, <2>2 DEF Starting
    <2>4. Commit \/ Rollback("pause")
      BY <1>9 DEF PauseSaved
    <2> QED BY <2>1, <2>2, <2>3, <2>4, ReleaseData
  <1>10. ASSUME JobStop
         PROVE  DataInv'
    <2>1. \A r \in Run : run'[r].pc = run[r].pc /\ run'[r].id = run[r].id
      BY <1>10, CancelRegisteredEffect DEF JobStop, TypeOK
    <2> QED BY <1>10, <2>1, FrameData DEF JobStop, jobVars, history
  <1>11. ASSUME MarkDeleted
         PROVE  DataInv'
    <2>1. /\ lock.op = "free" /\ UNCHANGED <<lock, run, acked, dropped, execs>>
          /\ mem' = [mem EXCEPT !.life = "deleted"] /\ saved' = mem'
          /\ disk' = [mem EXCEPT !.life = "deleted"]
      BY <1>11 DEF MarkDeleted, Unlocked, runVars, history
    <2>2. Kept(mem) /\ \A r \in Run : run'[r].pc # "starting"
      BY <2>1, NobodyStarting, NothingPending DEF Starting
    <2>3. ASSUME NEW j \in Job, Good(j), Kept(j)
          PROVE  Good([j EXCEPT !.life = "deleted"]) /\ Kept([j EXCEPT !.life = "deleted"])
      <3>1. [j EXCEPT !.life = "deleted"] \in Job
        BY LifeType DEF Life
      <3> QED BY <2>3, <3>1, OtherFieldsCoherent, OtherFieldsKeep, GoodNext, KeptNext DEF Good
    <2>4. Good(mem') /\ Kept(mem') /\ Good(disk') /\ Kept(disk')
      BY <1>0, <2>1, <2>2, <2>3
    <2> QED BY <2>1, <2>2, <2>4, QuietData
  <1>12. ASSUME StopDeleted
         PROVE  DataInv'
    <2>1. \A r \in Run : run'[r].pc = run[r].pc /\ run'[r].id = run[r].id
      BY <1>12, CancelRegisteredEffect DEF StopDeleted, TypeOK
    <2> QED BY <1>12, <2>1, FrameData DEF StopDeleted, jobVars, history
  <1>13. ASSUME RemoveJob
         PROVE  DataInv'
    <2>1. /\ lock.op = "free" /\ UNCHANGED <<lock, run, acked, dropped, execs>>
          /\ mem' = [mem EXCEPT !.life = "removed"] /\ saved' = mem'
          /\ disk' = [disk EXCEPT !.life = "removed"]
      BY <1>13 DEF RemoveJob, Unlocked, runVars, history
    <2>2. Kept(mem) /\ \A r \in Run : run'[r].pc # "starting"
      BY <2>1, NobodyStarting, NothingPending DEF Starting
    <2>3. ASSUME NEW j \in Job, Good(j), Kept(j)
          PROVE  Good([j EXCEPT !.life = "removed"]) /\ Kept([j EXCEPT !.life = "removed"])
      <3>1. [j EXCEPT !.life = "removed"] \in Job
        BY LifeType DEF Life
      <3> QED BY <2>3, <3>1, OtherFieldsCoherent, OtherFieldsKeep, GoodNext, KeptNext DEF Good
    <2>4. Good(mem') /\ Kept(mem') /\ Good(disk') /\ Kept(disk')
      BY <1>0, <2>1, <2>2, <2>3
    <2> QED BY <2>1, <2>2, <2>4, QuietData
  <1>14. ASSUME NEW i \in DirectId, NEW r \in Run, SendDirect(i, r)
         PROVE  DataInv'
    <2>1. i \in Id
      BY DEF Id
    <2> QED BY <1>14, <2>1, BeginStartData DEF SendDirect, history
  <1>15. ASSUME NEW r \in Run, DirectSaved(r)
         PROVE  DataInv'
    BY <1>15, StartCommittedData, StartAbortedData DEF DirectSaved
  <1>16. ASSUME NEW d \in Dispatcher, DispCheck(d)
         PROVE  DataInv'
    BY <1>16, FrameData DEF DispCheck, jobVars, runVars, dispVars, userVars, history
  <1>17. ASSUME NEW d \in Dispatcher, DispDones(d)
         PROVE  DataInv'
    BY <1>17, FrameData DEF DispDones, jobVars, runVars, dispVars, userVars, history
  <1>18. ASSUME NEW d \in Dispatcher, DispPrepare(d)
         PROVE  DataInv'
    BY <1>18, FrameData DEF DispPrepare, jobVars, runVars, dispVars, userVars, history
  <1>19. ASSUME NEW d \in Dispatcher, DispRefused(d)
         PROVE  DataInv'
    BY <1>19, FrameData DEF DispRefused, jobVars, runVars, dispVars, userVars, history
  <1>20. ASSUME NEW d \in Dispatcher, NEW r \in Run, DispSend(d, r)
         PROVE  DataInv'
    <2>1. disp[d].item \in Id
      BY <1>20 DEF DispSend, ControlInv, CarryInv, Id
    <2> QED BY <1>20, <2>1, BeginStartData DEF DispSend, history
  <1>21. ASSUME NEW d \in Dispatcher, NEW r \in Run, DispSendSaved(d, r)
         PROVE  DataInv'
    BY <1>21, StartCommittedData, StartAbortedData DEF DispSendSaved
  <1>22. ASSUME NEW d \in Dispatcher, DispBlock(d)
         PROVE  DataInv'
    <2> DEFINE job == Blocked(mem, disp[d].item)
    <2>1. UNCHANGED <<disk, run, acked, dropped, execs>>
      BY <1>22 DEF DispBlock, runVars, history
    <2>2. CASE UNCHANGED <<mem, lock, saved>>
      BY <2>1, <2>2, FrameData
    <2>3. CASE HeadIs(mem.queue, disp[d].item) /\ Acquire("dispatch", disp[d].item, job)
      <3>1. \A r \in Run : run'[r].pc # "starting"
        BY <2>1, <2>3, NobodyStarting DEF Acquire, Unlocked, Starting
      <3>2. disp[d].item \in Id
        BY <1>22 DEF DispBlock, ControlInv, CarryInv, Id
      <3>3. job \in Job /\ Coherent(job) /\ ReceiptsKept(mem, job) /\ WaitsKept(mem, job)
        BY <1>0, <2>3, <3>2, BlockedType, BlockedCoherent, BlockedKeeps
      <3> HIDE DEF job
      <3> QED BY <2>1, <2>3, <3>1, <3>3, AcquireData
    <2> QED BY <1>22, <2>2, <2>3 DEF DispBlock
  <1>23. ASSUME NEW d \in Dispatcher, DispBlockSaved(d)
         PROVE  DataInv'
    <2>1. lock.op = "dispatch" /\ \A r \in Run : ~Starting(r)
      BY <1>23 DEF DispBlockSaved, ControlInv, LockInv, Holding
    <2>2. /\ UNCHANGED <<run, acked, dropped, execs>>
          /\ Commit \/ Rollback("block")
      BY <1>23 DEF DispBlockSaved, runVars, history
    <2>3. \A r \in Run : run'[r].pc # "starting"
      BY <2>1, <2>2 DEF Starting
    <2> QED BY <2>1, <2>2, <2>3, ReleaseData
  <1>24. ASSUME NEW d \in Dispatcher, DispFinish(d)
         PROVE  DataInv'
    BY <1>24, FrameData DEF DispFinish, jobVars, runVars, dispVars, userVars, history
  <1>25. ASSUME NEW d \in Dispatcher, DispRecheck(d)
         PROVE  DataInv'
    BY <1>25, FrameData DEF DispRecheck, jobVars, runVars, dispVars, userVars, history
  <1>26. ASSUME NEW r \in Run, RunBody(r)
         PROVE  DataInv'
    <2>1. \A s \in Run : s # r => run'[s] = run[s]
      BY <1>26 DEF RunBody, RunGoto, TypeOK, RunTypeOK, RunRecord
    <2>2. run[r].pc # "starting" /\ run'[r].pc # "starting"
      BY <1>26 DEF RunBody, RunGoto, TypeOK, RunTypeOK, RunRecord
    <2>3. UNCHANGED <<mem, disk, saved, lock, acked, dropped, execs>>
      BY <1>26 DEF RunBody, jobVars, history
    <2> QED BY <2>1, <2>2, <2>3, FrameData
  <1>27. ASSUME NEW r \in Run, RunExit(r)
         PROVE  DataInv'
    <2>1. \A s \in Run : s # r => run'[s] = run[s]
      BY <1>27 DEF RunExit, RunGoto, TypeOK, RunTypeOK, RunRecord
    <2>2. run[r].pc # "starting" /\ run'[r].pc # "starting"
      BY <1>27 DEF RunExit, RunGoto, TypeOK, RunTypeOK, RunRecord
    <2>3. UNCHANGED <<mem, disk, saved, lock, acked, dropped, execs>>
      BY <1>27 DEF RunExit, jobVars, history
    <2> QED BY <2>1, <2>2, <2>3, FrameData
  <1>28. ASSUME NEW r \in Run, RunTerm(r)
         PROVE  DataInv'
    <2> DEFINE job == Terminated(mem, run[r].outcome, prior)
    <2>1. \A s \in Run : ~Starting(s)
      BY <1>28, NobodyStarting DEF RunTerm, Acquire, Unlocked
    <2>2. \A s \in Run : run'[s].pc # "starting"
      BY <1>28, <2>1 DEF RunTerm, RunGoto, Starting, TypeOK, RunTypeOK, RunRecord
    <2>3. run[r].outcome \in Outcome /\ prior \in {"none", "completed", "failed"}
      BY DEF JobTypeOK, TypeOK, RunTypeOK, RunRecord
    <2>4. job \in Job /\ Coherent(job) /\ ReceiptsKept(mem, job) /\ WaitsKept(mem, job)
      BY <1>0, <2>3, TerminatedType, TerminatedCoherent, TerminatedKeeps
    <2>5. Acquire("run", NoId, job) /\ UNCHANGED <<disk, acked, dropped, execs>>
      BY <1>28 DEF RunTerm
    <2> QED BY <2>2, <2>4, <2>5, AcquireData
  <1>29. ASSUME NEW r \in Run, RunTermSaved(r)
         PROVE  DataInv'
    <2>1. lock.op = "run" /\ UNCHANGED <<acked, dropped, execs>> /\ (Commit \/ KeepUnsaved("terminal"))
      BY <1>29 DEF RunTermSaved, history, ControlInv, LockInv, Saving
    <2>2. \A s \in Run : ~Starting(s)
      BY <2>1, NobodyStarting
    <2>3. \A s \in Run : run'[s].pc # "starting"
      BY <1>29, <2>2 DEF RunTermSaved, RunGoto, Starting, TypeOK, RunTypeOK, RunRecord
    <2> QED BY <2>1, <2>2, <2>3, ReleaseData
  <1>30. ASSUME NEW r \in Run, RunClear(r)
         PROVE  DataInv'
    <2>1. \A s \in Run : s # r => run'[s] = run[s]
      BY <1>30 DEF RunClear, RunGoto, TypeOK, RunTypeOK, RunRecord
    <2>2. run[r].pc # "starting" /\ run'[r].pc # "starting"
      BY <1>30 DEF RunClear, RunGoto, TypeOK, RunTypeOK, RunRecord
    <2>3. UNCHANGED <<mem, disk, saved, lock, acked, dropped, execs>>
      BY <1>30 DEF RunClear, jobVars, history
    <2> QED BY <2>1, <2>2, <2>3, FrameData
  <1>31. ASSUME NEW r \in Run, RunComplete(r)
         PROVE  DataInv'
    <2>1. CASE Unlocked /\ UNCHANGED <<mem, lock, saved>>
      <3>1. \A s \in Run : ~Starting(s)
        BY <2>1, NobodyStarting DEF Unlocked
      <3>2. \A s \in Run : run'[s].pc # "starting"
        BY <1>31, <3>1 DEF RunComplete, RunGoto, Starting, TypeOK, RunTypeOK, RunRecord
      <3> QED BY <1>31, <2>1, <3>1, <3>2, FrameData DEF RunComplete, Starting, history
    <2>2. ASSUME NEW k \in DOMAIN mem.queue, mem.queue[k].state = "processing",
                 Acquire("run", NoId, WithoutItem(mem, k))
          PROVE  DataInv'
      <3>1. \A s \in Run : ~Starting(s)
        BY <2>2, NobodyStarting DEF Acquire, Unlocked
      <3>2. \A s \in Run : run'[s].pc # "starting"
        BY <1>31, <3>1 DEF RunComplete, RunGoto, Starting, TypeOK, RunTypeOK, RunRecord
      <3>3. /\ WithoutItem(mem, k) \in Job /\ Coherent(WithoutItem(mem, k))
            /\ ReceiptsKept(mem, WithoutItem(mem, k)) /\ WaitsKept(mem, WithoutItem(mem, k))
        BY <1>0, <2>2, WithoutItemType, WithoutItemCoherent, WithoutItemKeeps
      <3> QED BY <1>31, <2>2, <3>2, <3>3, AcquireData DEF RunComplete, history
    <2>3. \/ Unlocked /\ UNCHANGED <<mem, lock, saved>>
          \/ \E k \in DOMAIN mem.queue : /\ mem.queue[k].state = "processing"
                                         /\ Acquire("run", NoId, WithoutItem(mem, k))
      BY <1>31 DEF RunComplete
    <2> QED BY <2>1, <2>2, <2>3
  <1>32. ASSUME NEW r \in Run, RunCompleteSaved(r)
         PROVE  DataInv'
    <2>1. lock.op = "run" /\ UNCHANGED <<acked, dropped, execs>> /\ (Commit \/ Rollback("complete"))
      BY <1>32 DEF RunCompleteSaved, history, ControlInv, LockInv, Saving
    <2>2. \A s \in Run : ~Starting(s)
      BY <2>1, NobodyStarting
    <2>3. \A s \in Run : run'[s].pc # "starting"
      BY <1>32, <2>2 DEF RunCompleteSaved, RunGoto, Starting, TypeOK, RunTypeOK, RunRecord
    <2> QED BY <2>1, <2>2, <2>3, ReleaseData
  <1>33. ASSUME NEW r \in Run, RunClearPause(r)
         PROVE  DataInv'
    <2>1. CASE Unlocked /\ UNCHANGED <<mem, lock, saved>>
      <3>1. \A s \in Run : ~Starting(s)
        BY <2>1, NobodyStarting DEF Unlocked
      <3>2. \A s \in Run : run'[s].pc # "starting"
        BY <1>33, <3>1 DEF RunClearPause, RunGoto, Starting, TypeOK, RunTypeOK, RunRecord
      <3> QED BY <1>33, <2>1, <3>1, <3>2, FrameData DEF RunClearPause, Starting, history
    <2>2. ASSUME Acquire("run", NoId, Resumed(mem))
          PROVE  DataInv'
      <3>1. \A s \in Run : ~Starting(s)
        BY <2>2, NobodyStarting DEF Acquire, Unlocked
      <3>2. \A s \in Run : run'[s].pc # "starting"
        BY <1>33, <3>1 DEF RunClearPause, RunGoto, Starting, TypeOK, RunTypeOK, RunRecord
      <3>3. /\ Resumed(mem) \in Job /\ Coherent(Resumed(mem))
            /\ ReceiptsKept(mem, Resumed(mem)) /\ WaitsKept(mem, Resumed(mem))
        BY <1>0, PauseType, OtherFieldsCoherent, OtherFieldsKeep
      <3> QED BY <1>33, <2>2, <3>2, <3>3, AcquireData DEF RunClearPause, history
    <2> QED BY <1>33, <2>1, <2>2 DEF RunClearPause
  <1>34. ASSUME NEW r \in Run, RunClearPauseSaved(r)
         PROVE  DataInv'
    <2>1. lock.op = "run" /\ UNCHANGED <<acked, dropped, execs>> /\ (Commit \/ Rollback("clearPause"))
      BY <1>34 DEF RunClearPauseSaved, history, ControlInv, LockInv, Saving
    <2>2. \A s \in Run : ~Starting(s)
      BY <2>1, NobodyStarting
    <2>3. \A s \in Run : run'[s].pc # "starting"
      BY <1>34, <2>2 DEF RunClearPauseSaved, RunGoto, Starting, TypeOK, RunTypeOK, RunRecord
    <2> QED BY <2>1, <2>2, <2>3, ReleaseData
  <1>35. ASSUME NEW r \in Run, RunFinish(r)
         PROVE  DataInv'
    <2>1. \A s \in Run : s # r => run'[s] = run[s]
      BY <1>35 DEF RunFinish, RunGoto, IdleRun, TypeOK, RunTypeOK, RunRecord
    <2>2. run[r].pc # "starting" /\ run'[r].pc # "starting"
      BY <1>35 DEF RunFinish, RunGoto, IdleRun, TypeOK, RunTypeOK, RunRecord
    <2>3. UNCHANGED <<mem, disk, saved, lock, acked, dropped, execs>>
      BY <1>35 DEF RunFinish, jobVars, history
    <2> QED BY <2>1, <2>2, <2>3, FrameData
  <1>36. ASSUME NEW r \in Run, RunRecheck(r)
         PROVE  DataInv'
    <2>1. \A s \in Run : s # r => run'[s] = run[s]
      BY <1>36 DEF RunRecheck, IdleRun, TypeOK, RunTypeOK, RunRecord
    <2>2. run[r].pc # "starting" /\ run'[r].pc # "starting"
      BY <1>36 DEF RunRecheck, IdleRun, TypeOK, RunTypeOK, RunRecord
    <2>3. UNCHANGED <<mem, disk, saved, lock, acked, dropped, execs>>
      BY <1>36 DEF RunRecheck, jobVars, history
    <2> QED BY <2>1, <2>2, <2>3, FrameData
  <1>37. ASSUME Crash
         PROVE  DataInv'
    <2>1. /\ mem' = disk /\ saved' = disk /\ disk' = disk /\ lock'.op = "free"
          /\ UNCHANGED <<acked, dropped, execs>>
          /\ \A r \in Run : run'[r].pc # "starting"
      BY <1>37 DEF Crash, NoLock, IdleRun
    <2> QED BY <1>0, <2>1, QuietData
  <1>38. ASSUME Load
         PROVE  DataInv'
    <2>1. /\ lock.op = "free" /\ UNCHANGED <<lock, run, acked, dropped, execs>> /\ saved' = mem'
          /\ \A r \in Run : ~Starting(r)
      BY <1>38 DEF Load, runVars, history, ControlInv, BootInv, NoLock, Starting
    <2>2. Kept(mem) /\ \A r \in Run : run'[r].pc # "starting"
      BY <2>1, NothingPending DEF Starting
    <2>3. Good(Reconciled(disk)) /\ Kept(Reconciled(disk))
      BY <1>0, ReconciledType, ReconciledCoherent, ReconciledKeeps, GoodNext, KeptNext
    <2>4. Good([disk EXCEPT !.life = "removed"]) /\ Kept([disk EXCEPT !.life = "removed"])
      <3>1. [disk EXCEPT !.life = "removed"] \in Job
        BY <1>0, LifeType DEF Life
      <3> QED BY <1>0, <3>1, OtherFieldsCoherent, OtherFieldsKeep, GoodNext, KeptNext
    <2>5. /\ mem' = Reconciled(disk) \/ mem' = [disk EXCEPT !.life = "removed"]
          /\ disk' = disk \/ disk' = mem'
      BY <1>38 DEF Load
    <2>6. Good(mem') /\ Kept(mem') /\ Good(disk') /\ Kept(disk')
      BY <1>0, <2>2, <2>3, <2>4, <2>5
    <2> QED BY <2>1, <2>2, <2>6, QuietData
  <1>39. ASSUME SetMessageQueueDispatcher
         PROVE  DataInv'
    <2>1. /\ lock.op = "free" /\ UNCHANGED <<lock, run, acked, dropped, execs>> /\ saved' = mem'
          /\ \A r \in Run : ~Starting(r)
      BY <1>39 DEF SetMessageQueueDispatcher, runVars, history, ControlInv, BootInv,
         NoLock, Starting
    <2>2. Kept(mem) /\ \A r \in Run : run'[r].pc # "starting"
      BY <2>1, NothingPending DEF Starting
    <2>3. HeadInterrupted(mem) => Good(WithoutInterrupted(mem)) /\ Kept(WithoutInterrupted(mem))
      BY <1>0, <2>2, WithoutInterruptedType, WithoutInterruptedCoherent,
         WithoutInterruptedKeeps, GoodNext, KeptNext
    <2>4. \/ HeadInterrupted(mem) /\ mem' = WithoutInterrupted(mem) /\ disk' = mem'
          \/ UNCHANGED <<mem, disk>>
      BY <1>39 DEF SetMessageQueueDispatcher
    <2>5. Good(mem') /\ Kept(mem') /\ Good(disk') /\ Kept(disk')
      BY <1>0, <2>2, <2>3, <2>4
    <2> QED BY <2>1, <2>2, <2>5, QuietData
  <1>40. CASE UNCHANGED vars
    BY <1>40, FrameData DEF vars, jobVars, runVars, dispVars, userVars, history
  <1> QED BY <1>1, <1>2, <1>3, <1>4, <1>5, <1>6, <1>7, <1>8, <1>9, <1>10, <1>11, <1>12,
     <1>13, <1>14, <1>15, <1>16, <1>17, <1>18, <1>19, <1>20, <1>21, <1>22, <1>23, <1>24,
     <1>25, <1>26, <1>27, <1>28, <1>29, <1>30, <1>31, <1>32, <1>33, <1>34, <1>35, <1>36,
     <1>37, <1>38, <1>39, <1>40 DEF Next, UserStep, HandlerStep, DispatcherStep,
     RunStep, BootStep

(***************************************************************************)
(* The theorems.                                                           *)
(***************************************************************************)
\* A fresh job satisfies the inductive invariant.
LEMMA InitInv ==
  ASSUME Init
  PROVE  IInv
PROOF
  <1> USE IdAssumption, SlotAssumption
  <1>1. TypeOK
    <2>1. JobTypeOK
      BY NewJobType, IdleTypes DEF Init, JobTypeOK
    <2>2. RunTypeOK
      BY IdleTypes DEF Init, RunTypeOK
    <2>3. DispTypeOK
      <3>1. disp \in [Dispatcher -> DispRecord]
        BY IdleTypes DEF Init
      <3>2. kicks \in 0 .. MaxKicks
        BY DEF Init
      <3>3. dispatching \in BOOLEAN
        BY DEF Init
      <3> QED BY <3>1, <3>2, <3>3 DEF DispTypeOK
    <2>4. UserTypeOK /\ HistoryTypeOK
      BY DEF Init, UserTypeOK, HistoryTypeOK
    <2> QED BY <2>1, <2>2, <2>3, <2>4 DEF TypeOK
  <1>2. /\ \A r \in Run : run[r].pc = "idle"
        /\ \A d \in Dispatcher : disp[d].pc = "idle"
        /\ lock.op = "free" /\ boot = "up"
    BY DEF Init, IdleRun, IdleDisp, NoLock
  <1>3. ControlInv
    BY <1>2 DEF ControlInv, LockInv, BootInv, CarryInv, KickInv, Starting, Saving, Holding
  <1>4. DataInv
    <2>1. Coherent(NewJob)
      BY NewJobCoherent
    <2>2. acked = {} /\ dropped = {} /\ mem = NewJob /\ disk = NewJob /\ saved = NewJob
      BY DEF Init
    <2>3. \A i \in Id : execs[i] = 0
      BY DEF Init
    <2>4. Good(NewJob) /\ Kept(NewJob) /\ MemKept
      BY <2>1, <2>2, <2>3 DEF Good, Kept, MemKept
    <2>5. LockData
      BY <1>2 DEF LockData, Starting
    <2> QED BY <2>2, <2>3, <2>4, <2>5 DEF DataInv, AtMostOnce
  <1> QED BY <1>1, <1>3, <1>4 DEF IInv

\* Every step keeps the inductive invariant.
LEMMA StepInv ==
  ASSUME IInv, [Next]_vars
  PROVE  IInv'
PROOF
  <1>1. TypeOK'
    BY TypeStep DEF IInv
  <1>2. ControlInv'
    BY ControlStep DEF IInv
  <1>3. DataInv'
    BY DataStep, <1>1, <1>2 DEF IInv
  <1> QED BY <1>1, <1>2, <1>3 DEF IInv

\* The inductive invariant holds of every reachable state.
THEOREM Inductive == Spec => []IInv
PROOF
  <1>1. Init => IInv
    BY InitInv
  <1>2. IInv /\ [Next]_vars => IInv'
    BY StepInv
  <1> QED BY <1>1, <1>2, PTL DEF Spec

\* Every variable keeps its type, whatever the interleaving and the faults: in
\* particular a terminal status is one the job may have (applyTerminalStatusLocked).
THEOREM TypeCorrect == Spec => []TypeOK
PROOF
  <1>1. IInv => TypeOK
    BY DEF IInv
  <1> QED BY <1>1, Inductive, PTL

\* SendMessage starts the agent at most once on a client message id.
THEOREM ExecutedAtMostOnce == Spec => []AtMostOnce
PROOF
  <1>1. IInv => AtMostOnce
    BY DEF IInv, DataInv
  <1> QED BY <1>1, Inductive, PTL

\* A message that DeleteQueuedMessage removed is never executed.
THEOREM DeletedStaysDeleted == Spec => []DeletedNeverRuns
PROOF
  <1>1. IInv => DeletedNeverRuns
    <2> SUFFICES ASSUME IInv, NEW i \in dropped
                 PROVE  execs[i] = 0
      BY DEF DeletedNeverRuns
    <2>1. i \in Id /\ execs[i] \in Nat
      BY DEF IInv, TypeOK, HistoryTypeOK, Id
    <2>2. mem.receipt[i] = "deleted" /\ (execs[i] > 0 => mem.receipt[i] \in Claimed)
      BY <2>1 DEF IInv, DataInv, Good
    <2> QED BY <2>1, <2>2 DEF Claimed
  <1> QED BY <1>1, Inductive, PTL

\* A message that SubmitMessage accepted stays in job.json until it is executed or
\* deleted.
THEOREM AcceptedIsDurable == Spec => []NoLostMessage
PROOF
  <1>1. IInv => NoLostMessage
    BY DEF IInv, DataInv, Kept, Settled, NoLostMessage
  <1> QED BY <1>1, Inductive, PTL

\* The queue and the receipts of a job agree, in memory and in job.json.
THEOREM QueueAndReceiptsAgree == Spec => []QueueMatchesReceipts
PROOF
  <1>1. IInv => QueueMatchesReceipts
    BY DEF IInv, DataInv, Good, QueueMatchesReceipts
  <1> QED BY <1>1, Inductive, PTL

(***************************************************************************)
(* The life of a job.  Each of its four promises adds an invariant to      *)
(* IInv.  Its step lemma names the few forms a step can take as far as     *)
(* that invariant is concerned, shows that each form keeps it, and then    *)
(* which form each action has.                                             *)
(***************************************************************************)

(***************************************************************************)
(* Deleting a job is final: once job.json is a tombstone or is gone, no    *)
(* save of a run, a dispatcher, a handler or a restart brings it back, and *)
(* no agent is started on it.                                              *)
(*                                                                         *)
(* The fence in saveJobWithRetryUnderPersistLock looks at the job in       *)
(* memory.  So the argument is that memory never looks more alive than     *)
(* disk does, neither in the job itself nor in the copy that a failed save *)
(* would put back.                                                         *)
(***************************************************************************)
LifeInv ==
  disk.life # "live" =>
    /\ mem.life # "live" /\ saved.life # "live"
    /\ boot = "loaded" => mem.life = "removed" /\ saved.life = "removed"

\* What a step may do to a job's durable life.
LifeKept ==
  /\ disk.life # "live" => disk'.life # "live"
  /\ disk.life = "removed" => disk'.life = "removed"
  /\ disk.life # "live" => execs' = execs

(***************************************************************************)
(* The forms a step takes, as far as the life of the job is concerned.     *)
(***************************************************************************)
QuietLife  == UNCHANGED <<mem, disk, saved, boot, execs>>
MutateLife == mem'.life = mem.life /\ saved' = mem /\ UNCHANGED <<disk, boot, execs>>
SaveLife   == mem.life = "live" /\ disk' = mem /\ saved' = mem /\ UNCHANGED <<mem, boot>>
UndoLife   == mem' = saved /\ UNCHANGED <<disk, saved, boot, execs>>
KeepLife   == saved' = mem /\ UNCHANGED <<disk, mem, boot, execs>>

\* Each form keeps the invariant and the durable life.
LEMMA FormsKeepLife ==
  ASSUME LifeInv, QuietLife \/ MutateLife \/ SaveLife \/ UndoLife \/ KeepLife
  PROVE  LifeInv' /\ LifeKept
PROOF
  <1>1. CASE QuietLife
    BY <1>1 DEF LifeInv, LifeKept, QuietLife
  <1>2. CASE MutateLife
    BY <1>2 DEF LifeInv, LifeKept, MutateLife
  <1>3. CASE SaveLife
    BY <1>3 DEF LifeInv, LifeKept, SaveLife
  <1>4. CASE UndoLife
    BY <1>4 DEF LifeInv, LifeKept, UndoLife
  <1>5. CASE KeepLife
    BY <1>5 DEF LifeInv, LifeKept, KeepLife
  <1> QED BY <1>1, <1>2, <1>3, <1>4, <1>5

\* No mutation of the record of a job touches its life.
LEMMA MutationsKeepLife ==
  ASSUME NEW j \in Job
  PROVE  /\ \A i : Submitted(j, i).life = j.life
         /\ \A i : Started(j, i).life = j.life
         /\ \A o, p : Terminated(j, o, p).life = j.life
         /\ \A k : WithoutItem(j, k).life = j.life
         /\ \A k : Deleted(j, k).life = j.life
         /\ \A i : Blocked(j, i).life = j.life
         /\ Resumed(j).life = j.life
         /\ Stopped(j).life = j.life
         /\ Reconciled(j).life = j.life
         /\ WithoutInterrupted(j).life = j.life
PROOF
  <1>1. \A i : Submitted(j, i).life = j.life
    BY DEF Submitted, Job
  <1>2. \A i : Started(j, i).life = j.life
    BY DEF Started, Job
  <1>3. \A o, p : Terminated(j, o, p).life = j.life
    BY DEF Terminated, Job
  <1>4. \A k : WithoutItem(j, k).life = j.life
    BY DEF WithoutItem, Job
  <1>5. \A k : Deleted(j, k).life = j.life
    BY DEF Deleted, Job
  <1>6. \A i : Blocked(j, i).life = j.life
    BY DEF Blocked, Job
  <1>7. Resumed(j).life = j.life /\ Stopped(j).life = j.life
    BY DEF Resumed, Stopped, Job
  <1>8. Reconciled(j).life = j.life
    BY DEF Reconciled, Job
  <1>9. WithoutInterrupted(j).life = j.life
    BY DEF WithoutInterrupted, Job
  <1> QED BY <1>1, <1>2, <1>3, <1>4, <1>5, <1>6, <1>7, <1>8, <1>9

\* Every step keeps the invariant and the durable life.
LEMMA LifeStep ==
  ASSUME TypeOK, LifeInv, [Next]_vars
  PROVE  LifeInv' /\ LifeKept
PROOF
  <1> DEFINE Goal == LifeInv' /\ LifeKept
  <1>a. mem \in Job /\ disk \in Job
    BY DEF TypeOK, JobTypeOK
  <1>b. QuietLife \/ MutateLife \/ SaveLife \/ UndoLife \/ KeepLife => Goal
    BY FormsKeepLife
  <1>1. ASSUME Kick
         PROVE  Goal
    BY <1>1, <1>b DEF Kick, QuietLife, jobVars, history
  <1>2. ASSUME JobStop
         PROVE  Goal
    BY <1>2, <1>b DEF JobStop, QuietLife, jobVars, history
  <1>3. ASSUME StopDeleted
         PROVE  Goal
    BY <1>3, <1>b DEF StopDeleted, QuietLife, jobVars, history
  <1>4. ASSUME NEW d \in Dispatcher, DispCheck(d)
         PROVE  Goal
    BY <1>4, <1>b DEF DispCheck, QuietLife, jobVars, history
  <1>5. ASSUME NEW d \in Dispatcher, DispDones(d)
         PROVE  Goal
    BY <1>5, <1>b DEF DispDones, QuietLife, jobVars, history
  <1>6. ASSUME NEW d \in Dispatcher, DispPrepare(d)
         PROVE  Goal
    BY <1>6, <1>b DEF DispPrepare, QuietLife, jobVars, history
  <1>7. ASSUME NEW d \in Dispatcher, DispRefused(d)
         PROVE  Goal
    BY <1>7, <1>b DEF DispRefused, QuietLife, jobVars, history
  <1>8. ASSUME NEW d \in Dispatcher, DispFinish(d)
         PROVE  Goal
    BY <1>8, <1>b DEF DispFinish, QuietLife, jobVars, history
  <1>9. ASSUME NEW d \in Dispatcher, DispRecheck(d)
         PROVE  Goal
    BY <1>9, <1>b DEF DispRecheck, QuietLife, jobVars, history
  <1>10. ASSUME NEW r \in Run, RunBody(r)
         PROVE  Goal
    BY <1>10, <1>b DEF RunBody, QuietLife, jobVars, history
  <1>11. ASSUME NEW r \in Run, RunExit(r)
         PROVE  Goal
    BY <1>11, <1>b DEF RunExit, QuietLife, jobVars, history
  <1>12. ASSUME NEW r \in Run, RunClear(r)
         PROVE  Goal
    BY <1>12, <1>b DEF RunClear, QuietLife, jobVars, history
  <1>13. ASSUME NEW r \in Run, RunFinish(r)
         PROVE  Goal
    BY <1>13, <1>b DEF RunFinish, QuietLife, jobVars, history
  <1>14. ASSUME NEW r \in Run, RunRecheck(r)
         PROVE  Goal
    BY <1>14, <1>b DEF RunRecheck, QuietLife, jobVars, history
  <1>15. ASSUME NEW i \in QueueId, Submit(i)
         PROVE  Goal
    <2>1. MutateLife \/ QuietLife
      BY <1>15, <1>a, MutationsKeepLife DEF Submit, Acquire, MutateLife, QuietLife, history
    <2> QED BY <2>1, <1>b
  <1>16. ASSUME NEW k \in DOMAIN mem.queue, DeleteQueuedMessage(k)
         PROVE  Goal
    <2>1. MutateLife \/ QuietLife
      BY <1>16, <1>a, MutationsKeepLife DEF DeleteQueuedMessage, Acquire, MutateLife, QuietLife, history
    <2> QED BY <2>1, <1>b
  <1>17. ASSUME ContinueMessageQueue
         PROVE  Goal
    <2>1. MutateLife \/ QuietLife
      BY <1>17, <1>a, MutationsKeepLife DEF ContinueMessageQueue, Acquire, MutateLife, QuietLife, history
    <2> QED BY <2>1, <1>b
  <1>18. ASSUME PauseMessageQueueForStop
         PROVE  Goal
    <2>1. MutateLife \/ QuietLife
      BY <1>18, <1>a, MutationsKeepLife DEF PauseMessageQueueForStop, Acquire, MutateLife, QuietLife, history
    <2> QED BY <2>1, <1>b
  <1>19. ASSUME NEW i \in DirectId, NEW r \in Run, SendDirect(i, r)
         PROVE  Goal
    <2>1. MutateLife \/ QuietLife
      BY <1>19, <1>a, MutationsKeepLife DEF SendDirect, Acquire, BeginStart, MutateLife, QuietLife, history
    <2> QED BY <2>1, <1>b
  <1>20. ASSUME NEW d \in Dispatcher, NEW r \in Run, DispSend(d, r)
         PROVE  Goal
    <2>1. MutateLife \/ QuietLife
      BY <1>20, <1>a, MutationsKeepLife DEF DispSend, Acquire, BeginStart, MutateLife, QuietLife, history
    <2> QED BY <2>1, <1>b
  <1>21. ASSUME NEW d \in Dispatcher, DispBlock(d)
         PROVE  Goal
    <2>1. MutateLife \/ QuietLife
      BY <1>21, <1>a, MutationsKeepLife DEF DispBlock, Acquire, MutateLife, QuietLife, history
    <2> QED BY <2>1, <1>b
  <1>22. ASSUME NEW r \in Run, RunTerm(r)
         PROVE  Goal
    <2>1. MutateLife \/ QuietLife
      BY <1>22, <1>a, MutationsKeepLife DEF RunTerm, Acquire, MutateLife, QuietLife, history
    <2> QED BY <2>1, <1>b
  <1>23. ASSUME NEW r \in Run, RunComplete(r)
         PROVE  Goal
    <2>1. MutateLife \/ QuietLife
      BY <1>23, <1>a, MutationsKeepLife DEF RunComplete, Acquire, MutateLife, QuietLife, history
    <2> QED BY <2>1, <1>b
  <1>24. ASSUME NEW r \in Run, RunClearPause(r)
         PROVE  Goal
    <2>1. MutateLife \/ QuietLife
      BY <1>24, <1>a, MutationsKeepLife DEF RunClearPause, Acquire, MutateLife, QuietLife, history
    <2> QED BY <2>1, <1>b
  <1>25. ASSUME SubmitSaved
         PROVE  Goal
    <2>1. SaveLife \/ UndoLife
      BY <1>25 DEF SubmitSaved, Commit, MaySave, Rollback, UndoLife, SaveLife, history
    <2> QED BY <2>1, <1>b
  <1>26. ASSUME DeleteSaved
         PROVE  Goal
    <2>1. SaveLife \/ UndoLife
      BY <1>26 DEF DeleteSaved, Commit, MaySave, Rollback, UndoLife, SaveLife, history
    <2> QED BY <2>1, <1>b
  <1>27. ASSUME ContinueSaved
         PROVE  Goal
    <2>1. SaveLife \/ UndoLife
      BY <1>27 DEF ContinueSaved, Commit, MaySave, Rollback, UndoLife, SaveLife, history
    <2> QED BY <2>1, <1>b
  <1>28. ASSUME PauseSaved
         PROVE  Goal
    <2>1. SaveLife \/ UndoLife
      BY <1>28 DEF PauseSaved, Commit, MaySave, Rollback, UndoLife, SaveLife, history
    <2> QED BY <2>1, <1>b
  <1>29. ASSUME NEW r \in Run, DirectSaved(r)
         PROVE  Goal
    <2>1. SaveLife \/ UndoLife
      BY <1>29 DEF DirectSaved, StartCommitted, StartAborted, Commit, MaySave, Rollback, UndoLife, SaveLife, history
    <2> QED BY <2>1, <1>b
  <1>30. ASSUME NEW d \in Dispatcher, NEW r \in Run, DispSendSaved(d, r)
         PROVE  Goal
    <2>1. SaveLife \/ UndoLife
      BY <1>30 DEF DispSendSaved, StartCommitted, StartAborted, Commit, MaySave, Rollback, UndoLife, SaveLife, history
    <2> QED BY <2>1, <1>b
  <1>31. ASSUME NEW d \in Dispatcher, DispBlockSaved(d)
         PROVE  Goal
    <2>1. SaveLife \/ UndoLife
      BY <1>31 DEF DispBlockSaved, Commit, MaySave, Rollback, UndoLife, SaveLife, history
    <2> QED BY <2>1, <1>b
  <1>32. ASSUME NEW r \in Run, RunTermSaved(r)
         PROVE  Goal
    <2>1. SaveLife \/ KeepLife
      BY <1>32 DEF RunTermSaved, Commit, MaySave, KeepUnsaved, KeepLife, SaveLife, history
    <2> QED BY <2>1, <1>b
  <1>33. ASSUME NEW r \in Run, RunCompleteSaved(r)
         PROVE  Goal
    <2>1. SaveLife \/ UndoLife
      BY <1>33 DEF RunCompleteSaved, Commit, MaySave, Rollback, UndoLife, SaveLife, history
    <2> QED BY <2>1, <1>b
  <1>34. ASSUME NEW r \in Run, RunClearPauseSaved(r)
         PROVE  Goal
    <2>1. SaveLife \/ UndoLife
      BY <1>34 DEF RunClearPauseSaved, Commit, MaySave, Rollback, UndoLife, SaveLife, history
    <2> QED BY <2>1, <1>b
  <1>35. ASSUME MarkDeleted
         PROVE  Goal
    BY <1>35, <1>a DEF MarkDeleted, LifeInv, LifeKept, Job, history
  <1>36. ASSUME RemoveJob
         PROVE  Goal
    BY <1>36, <1>a DEF RemoveJob, LifeInv, LifeKept, Job, history
  <1>37. ASSUME Crash
         PROVE  Goal
    BY <1>37 DEF Crash, LifeInv, LifeKept
  <1>38. ASSUME Load
         PROVE  Goal
    BY <1>38, <1>a, MutationsKeepLife DEF Load, LifeInv, LifeKept, Job, history
  <1>39. ASSUME SetMessageQueueDispatcher
         PROVE  Goal
    BY <1>39, <1>a, MutationsKeepLife DEF SetMessageQueueDispatcher, LifeInv,
       LifeKept, history
  <1>40. CASE UNCHANGED vars
    BY <1>40, <1>b DEF QuietLife, vars, jobVars, runVars, dispVars, userVars, history
  <1> QED
    BY <1>1, <1>2, <1>3, <1>4, <1>5, <1>6, <1>7, <1>8, <1>9, <1>10, <1>11,
       <1>12, <1>13, <1>14, <1>15, <1>16, <1>17, <1>18, <1>19, <1>20, <1>21,
       <1>22, <1>23, <1>24, <1>25, <1>26, <1>27, <1>28, <1>29, <1>30, <1>31,
       <1>32, <1>33, <1>34, <1>35, <1>36, <1>37, <1>38, <1>39, <1>40 DEF Next,
       UserStep, HandlerStep, DispatcherStep, RunStep, BootStep

\* A tombstone is final: no late save writes job.json back after MarkDeleted or the
\* removal, and no agent starts on a deleted job.
THEOREM DeletionIsFinal == Spec => TombstoneFinal
PROOF
  <1>1. Init => LifeInv
    BY DEF Init, LifeInv, NewJob
  <1>2. TypeOK /\ LifeInv /\ [Next]_vars => LifeInv'
    BY LifeStep
  <1>3. TypeOK /\ LifeInv /\ [Next]_vars =>
          [/\ disk.life # "live" => disk'.life # "live"
           /\ disk.life = "removed" => disk'.life = "removed"
           /\ disk.life # "live" => execs' = execs]_vars
    BY LifeStep DEF LifeKept
  <1> QED BY <1>1, <1>2, <1>3, TypeCorrect, PTL DEF Spec, TombstoneFinal

(***************************************************************************)
(* The durable receipt of a client message moves through its lifecycle one *)
(* state at a time and never back, through failed saves, kept terminal     *)
(* states, repairs and crashes.                                            *)
(*                                                                         *)
(* Memory may be ahead of job.json for two reasons: the holder of the      *)
(* persist shard has not saved yet, or a terminal state was kept although  *)
(* its save failed.  The second stays until some later save writes it, so  *)
(* the two may add up; they must never add up on one receipt.              *)
(***************************************************************************)
\* From a to b every receipt stays or moves one step forward.
Ahead(a, b) ==
  \A i \in Id : b.receipt[i] = a.receipt[i] \/ <<a.receipt[i], b.receipt[i]>> \in Lifecycle

\* From a to b every receipt stays or reaches its end.
Done(a, b) ==
  \A i \in Id : \/ b.receipt[i] = a.receipt[i]
               \/ /\ a.receipt[i] = "processing"
                  /\ b.receipt[i] \in {"completed", "failed", "stopped", "interrupted"}

Terminating(r) == run[r].pc = "termSave"

ReceiptInv ==
  /\ Done(disk, saved)
  /\ Ahead(saved, mem)
  /\ lock.op = "free" => mem.receipt = saved.receipt
  /\ \A r \in Run : Terminating(r) => Done(saved, mem)

(***************************************************************************)
(* The forms a step takes, as far as receipts are concerned.               *)
(***************************************************************************)
StillReceipts == UNCHANGED <<mem, disk, saved, lock>> /\ \A r \in Run : Terminating(r)' => Terminating(r)
GrabReceipts  == /\ lock.op = "free" /\ lock'.op # "free"
         /\ saved' = mem /\ Ahead(mem, mem') /\ UNCHANGED disk
         /\ \A r \in Run : Terminating(r)' => Done(mem, mem')
SaveReceipts  == disk' = mem /\ saved' = mem /\ UNCHANGED mem
UndoReceipts  == mem' = saved /\ UNCHANGED <<disk, saved>>
KeepReceipts  == /\ \E r \in Run : Terminating(r)
         /\ saved' = mem /\ UNCHANGED <<disk, mem>>

\* A receipt that has ended does not move, so the two ways of being ahead compose.
LEMMA AheadComposes ==
  ASSUME NEW a, NEW b, NEW c
  PROVE  /\ Done(a, a) /\ Ahead(a, a)
         /\ Done(a, b) => Ahead(a, b)
         /\ Done(a, b) /\ Ahead(b, c) => Ahead(a, c)
         /\ Done(a, b) /\ Done(b, c) => Done(a, c)
PROOF
  <1>1. Done(a, a) /\ Ahead(a, a)
    BY DEF Done, Ahead
  <1>2. ASSUME Done(a, b)
        PROVE  Ahead(a, b)
    BY <1>2 DEF Done, Ahead, Lifecycle
  <1>3. ASSUME Done(a, b), Ahead(b, c)
        PROVE  Ahead(a, c)
    <2> SUFFICES ASSUME NEW i \in Id
                 PROVE  c.receipt[i] = a.receipt[i] \/ <<a.receipt[i], c.receipt[i]>> \in Lifecycle
      BY DEF Ahead
    <2>1. CASE b.receipt[i] = a.receipt[i]
      BY <2>1, <1>3 DEF Ahead
    <2>2. CASE /\ a.receipt[i] = "processing"
               /\ b.receipt[i] \in {"completed", "failed", "stopped", "interrupted"}
      <3>1. <<b.receipt[i], c.receipt[i]>> \notin Lifecycle
        BY <2>2 DEF Lifecycle
      <3>2. c.receipt[i] = b.receipt[i]
        BY <3>1, <1>3 DEF Ahead
      <3> QED BY <2>2, <3>2 DEF Lifecycle
    <2> QED BY <2>1, <2>2, <1>3 DEF Done
  <1>4. ASSUME Done(a, b), Done(b, c)
        PROVE  Done(a, c)
    BY <1>4 DEF Done
  <1> QED BY <1>1, <1>2, <1>3, <1>4

\* Each form keeps the invariant and moves job.json forward.
LEMMA FormsMoveForward ==
  ASSUME ReceiptInv, StillReceipts \/ GrabReceipts \/ SaveReceipts \/ UndoReceipts \/ KeepReceipts
  PROVE  ReceiptInv' /\ Ahead(disk, disk')
PROOF
  <1>a. Done(disk, saved) /\ Ahead(saved, mem)
    BY DEF ReceiptInv
  <1>1. CASE StillReceipts
    <2>1. Ahead(disk, disk')
      BY <1>1, AheadComposes DEF StillReceipts
    <2>2. ReceiptInv'
      BY <1>1 DEF ReceiptInv, StillReceipts, Terminating, Done, Ahead
    <2> QED BY <2>1, <2>2
  <1>2. CASE GrabReceipts
    <2>1. Ahead(disk, disk')
      BY <1>2, AheadComposes DEF GrabReceipts
    <2>2. Done(disk, mem)
      BY <1>2, <1>a DEF ReceiptInv, GrabReceipts, Done
    <2>3. Done(disk', saved') /\ Ahead(saved', mem')
      BY <1>2, <2>2 DEF GrabReceipts
    <2>4. \A r \in Run : Terminating(r)' => Done(saved', mem')
      BY <1>2 DEF GrabReceipts
    <2> QED BY <1>2, <2>1, <2>3, <2>4 DEF ReceiptInv, GrabReceipts, Done, Ahead
  <1>3. CASE SaveReceipts
    <2>1. Ahead(disk, disk')
      BY <1>3, <1>a, AheadComposes DEF SaveReceipts
    <2>2. Done(mem, mem) /\ Ahead(mem, mem)
      BY AheadComposes
    <2> QED BY <1>3, <2>1, <2>2 DEF ReceiptInv, SaveReceipts, Done, Ahead
  <1>4. CASE UndoReceipts
    <2>1. Ahead(disk, disk') /\ Done(saved, saved) /\ Ahead(saved, saved)
      BY <1>4, AheadComposes DEF UndoReceipts
    <2> QED BY <1>4, <1>a, <2>1 DEF ReceiptInv, UndoReceipts, Done, Ahead
  <1>5. CASE KeepReceipts
    <2>1. Done(saved, mem)
      BY <1>5 DEF ReceiptInv, KeepReceipts
    <2>2. Done(disk, mem) /\ Done(mem, mem) /\ Ahead(mem, mem) /\ Ahead(disk, disk')
      BY <1>5, <1>a, <2>1, AheadComposes DEF KeepReceipts
    <2> QED BY <1>5, <2>2 DEF ReceiptInv, KeepReceipts, Done, Ahead
  <1> QED BY <1>1, <1>2, <1>3, <1>4, <1>5

\* Every mutation moves the receipts of a coherent record forward.
LEMMA MutationsMoveForward ==
  ASSUME NEW j \in Job, Coherent(j)
  PROVE  /\ \A i \in Id : MaySubmit(j, i) => Ahead(j, Submitted(j, i))
         /\ \A i \in Id : MayStart(j, i) => Ahead(j, Started(j, i))
         /\ \A o \in Outcome : \A p : Done(j, Terminated(j, o, p))
         /\ \A k : WithoutItem(j, k).receipt = j.receipt
         /\ \A k : MayDelete(j, k) => Ahead(j, Deleted(j, k))
         /\ \A i \in Id : HeadIs(j.queue, i) => Ahead(j, Blocked(j, i))
         /\ Resumed(j).receipt = j.receipt /\ Stopped(j).receipt = j.receipt
         /\ Done(j, Reconciled(j))
         /\ HeadInterrupted(j) => Done(j, WithoutInterrupted(j))
PROOF
  <1> USE IdAssumption
  <1>a. /\ j.receipt \in [Id -> ReceiptState] /\ j.active \in Id \cup {NoId}
        /\ j.active # NoId => j.receipt[j.active] = "processing"
        /\ NoId \notin Id
    BY JobFields DEF Coherent, ActiveMatches, Id
  <1>b. \A k \in DOMAIN j.queue :
          /\ j.queue[k].id \in Id
          /\ j.queue[k].state # "processing" =>
               /\ j.receipt[j.queue[k].id] = j.queue[k].state
               /\ j.queue[k].state \in {"queued", "blocked"}
    BY JobFields DEF Coherent, ItemsMatch, ItemState
  <1>1. ASSUME NEW i \in Id, MaySubmit(j, i)
        PROVE  Ahead(j, Submitted(j, i))
    <2>1. \A n \in Id : Submitted(j, i).receipt[n] = IF n = i THEN "queued" ELSE j.receipt[n]
      BY <1>a DEF Submitted, Job
    <2> QED BY <1>1, <2>1 DEF MaySubmit, Ahead, Lifecycle
  <1>2. ASSUME NEW i \in Id, MayStart(j, i)
        PROVE  Ahead(j, Started(j, i))
    <2>1. \A n \in Id : Started(j, i).receipt[n] = IF n = i THEN "processing" ELSE j.receipt[n]
      BY <1>a DEF Started, Job
    <2> QED BY <1>2, <2>1 DEF MayStart, Ahead, Lifecycle
  <1>3. ASSUME NEW o \in Outcome, NEW p
        PROVE  Done(j, Terminated(j, o, p))
    <2>1. \A n \in Id : Terminated(j, o, p).receipt[n] = IF n = j.active THEN o ELSE j.receipt[n]
      BY <1>a DEF Terminated, Job
    <2> QED BY <1>a, <1>3, <2>1 DEF Done, Outcome
  <1>4. \A k : WithoutItem(j, k).receipt = j.receipt
    BY DEF WithoutItem, Job
  <1>5. ASSUME NEW k, MayDelete(j, k)
        PROVE  Ahead(j, Deleted(j, k))
    <2>1. k \in DOMAIN j.queue /\ j.receipt[j.queue[k].id] \in {"queued", "blocked"}
      BY <1>5, <1>b DEF MayDelete
    <2>2. \A n \in Id : Deleted(j, k).receipt[n] =
            IF n = j.queue[k].id THEN "deleted" ELSE j.receipt[n]
      BY <1>a, <1>b, <2>1 DEF Deleted, Job
    <2> QED BY <2>1, <2>2 DEF Ahead, Lifecycle
  <1>6. ASSUME NEW i \in Id, HeadIs(j.queue, i)
        PROVE  Ahead(j, Blocked(j, i))
    <2>1. j.receipt[i] \in {"queued", "blocked"}
      BY <1>6, <1>b DEF HeadIs, IsFirstWaiting
    <2>2. \A n \in Id : Blocked(j, i).receipt[n] = IF n = i THEN "blocked" ELSE j.receipt[n]
      BY <1>a DEF Blocked, Job
    <2> QED BY <2>1, <2>2 DEF Ahead, Lifecycle
  <1>7. Resumed(j).receipt = j.receipt /\ Stopped(j).receipt = j.receipt
    BY DEF Resumed, Stopped, Job
  <1>8. Done(j, Reconciled(j))
    <2>1. CASE j.status = "running"
      <3>1. \A n \in Id : Reconciled(j).receipt[n] =
              IF n = j.active THEN "interrupted" ELSE j.receipt[n]
        BY <2>1, <1>a DEF Reconciled, Job
      <3> QED BY <1>a, <3>1 DEF Done
    <2>2. CASE j.status # "running"
      BY <2>2 DEF Reconciled, Done
    <2> QED BY <2>1, <2>2
  <1>9. ASSUME HeadInterrupted(j)
        PROVE  Done(j, WithoutInterrupted(j))
    <2>1. 1 \in DOMAIN j.queue
      BY <1>9, JobFields DEF HeadInterrupted
    <2>2. \A n \in Id : WithoutInterrupted(j).receipt[n] =
            IF n = j.queue[1].id /\ j.receipt[n] = "processing" THEN "interrupted" ELSE j.receipt[n]
      BY <1>a, <1>b, <2>1 DEF WithoutInterrupted, Job
    <2> QED BY <2>2 DEF Done
  <1> QED BY <1>1, <1>2, <1>3, <1>4, <1>5, <1>6, <1>7, <1>8, <1>9

\* Every step keeps the invariant and moves job.json forward.
LEMMA ReceiptStep ==
  ASSUME IInv, ReceiptInv, [Next]_vars
  PROVE  ReceiptInv' /\ Ahead(disk, disk')
PROOF
  <1> DEFINE Goal == ReceiptInv' /\ Ahead(disk, disk')
  <1>a. /\ mem \in Job /\ disk \in Job /\ Coherent(mem) /\ Coherent(disk)
        /\ run \in [Run -> RunRecord]
    BY DEF IInv, TypeOK, JobTypeOK, RunTypeOK, DataInv, Good
  <1>b. StillReceipts \/ GrabReceipts \/ SaveReceipts \/ UndoReceipts \/ KeepReceipts => Goal
    BY FormsMoveForward
  <1>c. lock.op = "free" => \A r \in Run : ~Terminating(r)
    BY DEF IInv, ControlInv, LockInv, Saving, Terminating
  <1>d. /\ \A d \in Dispatcher : disp[d].pc \in {"send", "block"} => disp[d].item \in Id
        /\ \A i \in QueueId \cup DirectId : i \in Id
    BY DEF IInv, ControlInv, CarryInv, Id
  <1>1. ASSUME Kick
         PROVE  Goal
    <2>1. StillReceipts
      BY <1>1, <1>a DEF Kick, runVars, StillReceipts, Terminating, RunRecord, jobVars
    <2> QED BY <2>1, <1>b
  <1>2. ASSUME JobStop
         PROVE  Goal
    <2>1. StillReceipts
      BY <1>2, <1>a DEF JobStop, CancelRegistered, StillReceipts, Terminating, RunRecord, jobVars
    <2> QED BY <2>1, <1>b
  <1>3. ASSUME StopDeleted
         PROVE  Goal
    <2>1. StillReceipts
      BY <1>3, <1>a DEF StopDeleted, CancelRegistered, StillReceipts, Terminating, RunRecord, jobVars
    <2> QED BY <2>1, <1>b
  <1>4. ASSUME NEW d \in Dispatcher, DispCheck(d)
         PROVE  Goal
    <2>1. StillReceipts
      BY <1>4, <1>a DEF DispCheck, runVars, StillReceipts, Terminating, RunRecord, jobVars
    <2> QED BY <2>1, <1>b
  <1>5. ASSUME NEW d \in Dispatcher, DispDones(d)
         PROVE  Goal
    <2>1. StillReceipts
      BY <1>5, <1>a DEF DispDones, runVars, StillReceipts, Terminating, RunRecord, jobVars
    <2> QED BY <2>1, <1>b
  <1>6. ASSUME NEW d \in Dispatcher, DispPrepare(d)
         PROVE  Goal
    <2>1. StillReceipts
      BY <1>6, <1>a DEF DispPrepare, runVars, StillReceipts, Terminating, RunRecord, jobVars
    <2> QED BY <2>1, <1>b
  <1>7. ASSUME NEW d \in Dispatcher, DispRefused(d)
         PROVE  Goal
    <2>1. StillReceipts
      BY <1>7, <1>a DEF DispRefused, runVars, StillReceipts, Terminating, RunRecord, jobVars
    <2> QED BY <2>1, <1>b
  <1>8. ASSUME NEW d \in Dispatcher, DispFinish(d)
         PROVE  Goal
    <2>1. StillReceipts
      BY <1>8, <1>a DEF DispFinish, runVars, StillReceipts, Terminating, RunRecord, jobVars
    <2> QED BY <2>1, <1>b
  <1>9. ASSUME NEW d \in Dispatcher, DispRecheck(d)
         PROVE  Goal
    <2>1. StillReceipts
      BY <1>9, <1>a DEF DispRecheck, runVars, StillReceipts, Terminating, RunRecord, jobVars
    <2> QED BY <2>1, <1>b
  <1>10. ASSUME NEW r \in Run, RunBody(r)
         PROVE  Goal
    <2>1. StillReceipts
      BY <1>10, <1>a DEF RunBody, RunGoto, StillReceipts, Terminating, RunRecord, jobVars
    <2> QED BY <2>1, <1>b
  <1>11. ASSUME NEW r \in Run, RunExit(r)
         PROVE  Goal
    <2>1. StillReceipts
      BY <1>11, <1>a DEF RunExit, RunGoto, StillReceipts, Terminating, RunRecord, jobVars
    <2> QED BY <2>1, <1>b
  <1>12. ASSUME NEW r \in Run, RunClear(r)
         PROVE  Goal
    <2>1. StillReceipts
      BY <1>12, <1>a DEF RunClear, RunGoto, StillReceipts, Terminating, RunRecord, jobVars
    <2> QED BY <2>1, <1>b
  <1>13. ASSUME NEW r \in Run, RunFinish(r)
         PROVE  Goal
    <2>1. StillReceipts
      BY <1>13, <1>a DEF RunFinish, RunGoto, IdleRun, StillReceipts, Terminating, RunRecord, jobVars
    <2> QED BY <2>1, <1>b
  <1>14. ASSUME NEW r \in Run, RunRecheck(r)
         PROVE  Goal
    <2>1. StillReceipts
      BY <1>14, <1>a DEF RunRecheck, IdleRun, StillReceipts, Terminating, RunRecord, jobVars
    <2> QED BY <2>1, <1>b
  <1>15. ASSUME NEW i \in QueueId, Submit(i)
         PROVE  Goal
    <2>1. Ahead(mem, mem')
      BY <1>15, <1>a, <1>d, MutationsMoveForward DEF Submit, Acquire
    <2>2. \A s \in Run : ~Terminating(s)'
      BY <1>15, <1>a, <1>c DEF Submit, Acquire, Unlocked, Terminating, RunRecord, runVars
    <2>3. GrabReceipts
      BY <1>15, <2>1, <2>2 DEF Submit, Acquire, Unlocked, GrabReceipts
    <2> QED BY <2>3, <1>b
  <1>16. ASSUME NEW k \in DOMAIN mem.queue, DeleteQueuedMessage(k)
         PROVE  Goal
    <2>1. Ahead(mem, mem')
      BY <1>16, <1>a, <1>d, MutationsMoveForward DEF DeleteQueuedMessage, Acquire
    <2>2. \A s \in Run : ~Terminating(s)'
      BY <1>16, <1>a, <1>c DEF DeleteQueuedMessage, Acquire, Unlocked, Terminating, RunRecord, runVars
    <2>3. GrabReceipts
      BY <1>16, <2>1, <2>2 DEF DeleteQueuedMessage, Acquire, Unlocked, GrabReceipts
    <2> QED BY <2>3, <1>b
  <1>17. ASSUME ContinueMessageQueue
         PROVE  Goal
    <2>1. CASE UNCHANGED <<mem, lock, saved>>
      <3>1. StillReceipts
        BY <1>17, <2>1, <1>a DEF ContinueMessageQueue, StillReceipts, Terminating, RunRecord, runVars, Acquire
      <3> QED BY <3>1, <1>b
    <2>2. CASE lock.op = "free" /\ lock'.op # "free" /\ saved' = mem
      <3>1. Ahead(mem, mem')
        BY <1>17, <2>2, <1>a, <1>d, MutationsMoveForward DEF ContinueMessageQueue, Acquire, Unlocked, Ahead
      <3>2. \A s \in Run : ~Terminating(s)'
        BY <1>17, <2>2, <1>a, <1>c DEF ContinueMessageQueue, Terminating, RunRecord, runVars, Acquire, Unlocked
      <3>3. GrabReceipts
        BY <1>17, <2>2, <3>1, <3>2 DEF ContinueMessageQueue, GrabReceipts
      <3> QED BY <3>3, <1>b
    <2> QED BY <1>17, <2>1, <2>2 DEF ContinueMessageQueue, Acquire, Unlocked
  <1>18. ASSUME PauseMessageQueueForStop
         PROVE  Goal
    <2>1. CASE UNCHANGED <<mem, lock, saved>>
      <3>1. StillReceipts
        BY <1>18, <2>1, <1>a DEF PauseMessageQueueForStop, StillReceipts, Terminating, RunRecord, runVars, Acquire
      <3> QED BY <3>1, <1>b
    <2>2. CASE lock.op = "free" /\ lock'.op # "free" /\ saved' = mem
      <3>1. Ahead(mem, mem')
        BY <1>18, <2>2, <1>a, <1>d, MutationsMoveForward DEF PauseMessageQueueForStop, Acquire, Unlocked, Ahead
      <3>2. \A s \in Run : ~Terminating(s)'
        BY <1>18, <2>2, <1>a, <1>c DEF PauseMessageQueueForStop, Terminating, RunRecord, runVars, Acquire, Unlocked
      <3>3. GrabReceipts
        BY <1>18, <2>2, <3>1, <3>2 DEF PauseMessageQueueForStop, GrabReceipts
      <3> QED BY <3>3, <1>b
    <2> QED BY <1>18, <2>1, <2>2 DEF PauseMessageQueueForStop, Acquire, Unlocked
  <1>19. ASSUME NEW i \in DirectId, NEW r \in Run, SendDirect(i, r)
         PROVE  Goal
    <2>1. Ahead(mem, mem')
      BY <1>19, <1>a, <1>d, MutationsMoveForward DEF SendDirect, BeginStart, Acquire
    <2>2. \A s \in Run : ~Terminating(s)'
      BY <1>19, <1>a, <1>c DEF SendDirect, BeginStart, Acquire, Unlocked, Terminating, RunRecord, runVars, IdleRun
    <2>3. GrabReceipts
      BY <1>19, <2>1, <2>2 DEF SendDirect, BeginStart, Acquire, Unlocked, GrabReceipts
    <2> QED BY <2>3, <1>b
  <1>20. ASSUME NEW d \in Dispatcher, NEW r \in Run, DispSend(d, r)
         PROVE  Goal
    <2>1. Ahead(mem, mem')
      BY <1>20, <1>a, <1>d, MutationsMoveForward DEF DispSend, BeginStart, Acquire
    <2>2. \A s \in Run : ~Terminating(s)'
      BY <1>20, <1>a, <1>c DEF DispSend, BeginStart, Acquire, Unlocked, Terminating, RunRecord, runVars, IdleRun
    <2>3. GrabReceipts
      BY <1>20, <2>1, <2>2 DEF DispSend, BeginStart, Acquire, Unlocked, GrabReceipts
    <2> QED BY <2>3, <1>b
  <1>21. ASSUME NEW d \in Dispatcher, DispBlock(d)
         PROVE  Goal
    <2>1. CASE UNCHANGED <<mem, lock, saved>>
      <3>1. StillReceipts
        BY <1>21, <2>1, <1>a DEF DispBlock, StillReceipts, Terminating, RunRecord, runVars, DispGoto, Acquire
      <3> QED BY <3>1, <1>b
    <2>2. CASE lock.op = "free" /\ lock'.op # "free" /\ saved' = mem
      <3>1. Ahead(mem, mem')
        BY <1>21, <2>2, <1>a, <1>d, MutationsMoveForward DEF DispBlock, Acquire, Unlocked, Ahead
      <3>2. \A s \in Run : ~Terminating(s)'
        BY <1>21, <2>2, <1>a, <1>c DEF DispBlock, Terminating, RunRecord, runVars, DispGoto, Acquire, Unlocked
      <3>3. GrabReceipts
        BY <1>21, <2>2, <3>1, <3>2 DEF DispBlock, GrabReceipts
      <3> QED BY <3>3, <1>b
    <2> QED BY <1>21, <2>1, <2>2 DEF DispBlock, Acquire, Unlocked
  <1>22. ASSUME NEW r \in Run, RunTerm(r)
         PROVE  Goal
    <2>1. run[r].outcome \in Outcome
      BY <1>a DEF RunRecord
    <2>2. Done(mem, mem')
      BY <1>22, <2>1, <1>a, MutationsMoveForward DEF RunTerm, Acquire
    <2>3. Ahead(mem, mem')
      BY <2>2, AheadComposes
    <2>4. GrabReceipts
      BY <1>22, <2>2, <2>3 DEF RunTerm, Acquire, Unlocked, GrabReceipts
    <2> QED BY <2>4, <1>b
  <1>23. ASSUME NEW r \in Run, RunComplete(r)
         PROVE  Goal
    <2>1. CASE UNCHANGED <<mem, lock, saved>>
      <3>1. StillReceipts
        BY <1>23, <2>1, <1>a DEF RunComplete, StillReceipts, Terminating, RunRecord, RunGoto, Acquire
      <3> QED BY <3>1, <1>b
    <2>2. CASE lock.op = "free" /\ lock'.op # "free" /\ saved' = mem
      <3>1. Ahead(mem, mem')
        BY <1>23, <2>2, <1>a, <1>d, MutationsMoveForward DEF RunComplete, Acquire, Unlocked, Ahead
      <3>2. \A s \in Run : ~Terminating(s)'
        BY <1>23, <2>2, <1>a, <1>c DEF RunComplete, Terminating, RunRecord, RunGoto, Acquire, Unlocked
      <3>3. GrabReceipts
        BY <1>23, <2>2, <3>1, <3>2 DEF RunComplete, GrabReceipts
      <3> QED BY <3>3, <1>b
    <2> QED BY <1>23, <2>1, <2>2 DEF RunComplete, Acquire, Unlocked
  <1>24. ASSUME NEW r \in Run, RunClearPause(r)
         PROVE  Goal
    <2>1. CASE UNCHANGED <<mem, lock, saved>>
      <3>1. StillReceipts
        BY <1>24, <2>1, <1>a DEF RunClearPause, StillReceipts, Terminating, RunRecord, RunGoto, Acquire
      <3> QED BY <3>1, <1>b
    <2>2. CASE lock.op = "free" /\ lock'.op # "free" /\ saved' = mem
      <3>1. Ahead(mem, mem')
        BY <1>24, <2>2, <1>a, <1>d, MutationsMoveForward DEF RunClearPause, Acquire, Unlocked, Ahead
      <3>2. \A s \in Run : ~Terminating(s)'
        BY <1>24, <2>2, <1>a, <1>c DEF RunClearPause, Terminating, RunRecord, RunGoto, Acquire, Unlocked
      <3>3. GrabReceipts
        BY <1>24, <2>2, <3>1, <3>2 DEF RunClearPause, GrabReceipts
      <3> QED BY <3>3, <1>b
    <2> QED BY <1>24, <2>1, <2>2 DEF RunClearPause, Acquire, Unlocked
  <1>25. ASSUME SubmitSaved
         PROVE  Goal
    <2>1. SaveReceipts \/ UndoReceipts
      BY <1>25 DEF SubmitSaved, Commit, Rollback, UndoReceipts, SaveReceipts
    <2> QED BY <2>1, <1>b
  <1>26. ASSUME DeleteSaved
         PROVE  Goal
    <2>1. SaveReceipts \/ UndoReceipts
      BY <1>26 DEF DeleteSaved, Commit, Rollback, UndoReceipts, SaveReceipts
    <2> QED BY <2>1, <1>b
  <1>27. ASSUME ContinueSaved
         PROVE  Goal
    <2>1. SaveReceipts \/ UndoReceipts
      BY <1>27 DEF ContinueSaved, Commit, Rollback, UndoReceipts, SaveReceipts
    <2> QED BY <2>1, <1>b
  <1>28. ASSUME PauseSaved
         PROVE  Goal
    <2>1. SaveReceipts \/ UndoReceipts
      BY <1>28 DEF PauseSaved, Commit, Rollback, UndoReceipts, SaveReceipts
    <2> QED BY <2>1, <1>b
  <1>29. ASSUME NEW r \in Run, DirectSaved(r)
         PROVE  Goal
    <2>1. SaveReceipts \/ UndoReceipts
      BY <1>29 DEF DirectSaved, StartCommitted, StartAborted, Commit, Rollback, UndoReceipts, SaveReceipts
    <2> QED BY <2>1, <1>b
  <1>30. ASSUME NEW d \in Dispatcher, NEW r \in Run, DispSendSaved(d, r)
         PROVE  Goal
    <2>1. SaveReceipts \/ UndoReceipts
      BY <1>30 DEF DispSendSaved, StartCommitted, StartAborted, Commit, Rollback, UndoReceipts, SaveReceipts
    <2> QED BY <2>1, <1>b
  <1>31. ASSUME NEW d \in Dispatcher, DispBlockSaved(d)
         PROVE  Goal
    <2>1. SaveReceipts \/ UndoReceipts
      BY <1>31 DEF DispBlockSaved, Commit, Rollback, UndoReceipts, SaveReceipts
    <2> QED BY <2>1, <1>b
  <1>32. ASSUME NEW r \in Run, RunTermSaved(r)
         PROVE  Goal
    <2>1. SaveReceipts \/ KeepReceipts
      BY <1>32 DEF RunTermSaved, Commit, KeepUnsaved, KeepReceipts, Terminating, SaveReceipts
    <2> QED BY <2>1, <1>b
  <1>33. ASSUME NEW r \in Run, RunCompleteSaved(r)
         PROVE  Goal
    <2>1. SaveReceipts \/ UndoReceipts
      BY <1>33 DEF RunCompleteSaved, Commit, Rollback, UndoReceipts, SaveReceipts
    <2> QED BY <2>1, <1>b
  <1>34. ASSUME NEW r \in Run, RunClearPauseSaved(r)
         PROVE  Goal
    <2>1. SaveReceipts \/ UndoReceipts
      BY <1>34 DEF RunClearPauseSaved, Commit, Rollback, UndoReceipts, SaveReceipts
    <2> QED BY <2>1, <1>b
  <1>35. ASSUME MarkDeleted
         PROVE  Goal
    <2>1. Done(disk, mem)
      BY <1>35 DEF ReceiptInv, MarkDeleted, Unlocked, Done
    <2>2. mem'.receipt = mem.receipt /\ disk' = mem' /\ saved' = mem'
      BY <1>35, <1>a DEF MarkDeleted, Job
    <2>3. Ahead(disk, disk')
      BY <2>1, <2>2, AheadComposes DEF Ahead
    <2> QED BY <2>2, <2>3 DEF ReceiptInv, Done, Ahead
  <1>36. ASSUME RemoveJob
         PROVE  Goal
    <2>1. /\ mem'.receipt = mem.receipt /\ disk'.receipt = disk.receipt
          /\ saved' = mem' /\ mem.receipt = saved.receipt
      BY <1>36, <1>a DEF RemoveJob, Unlocked, ReceiptInv, Job
    <2> QED BY <2>1 DEF ReceiptInv, Done, Ahead
  <1>37. ASSUME Crash
         PROVE  Goal
    <2>1. mem' = disk /\ saved' = disk /\ disk' = disk
      BY <1>37 DEF Crash
    <2> QED BY <2>1 DEF ReceiptInv, Done, Ahead
  <1>38. ASSUME Load
         PROVE  Goal
    <2>1. Done(disk, mem') /\ saved' = mem'
      BY <1>38, <1>a, MutationsMoveForward DEF Load, Done, Job
    <2>2. disk'.receipt = disk.receipt \/ disk' = mem'
      BY <1>38 DEF Load
    <2>3. Ahead(disk, disk')
      BY <2>1, <2>2, AheadComposes DEF Ahead
    <2> QED BY <2>1, <2>2, <2>3 DEF ReceiptInv, Done, Ahead
  <1>39. ASSUME SetMessageQueueDispatcher
         PROVE  Goal
    <2>1. lock.op = "free"
      BY <1>39 DEF IInv, ControlInv, BootInv, SetMessageQueueDispatcher, NoLock
    <2>2. Done(disk, mem)
      BY <2>1 DEF ReceiptInv, Done
    <2>3. Done(mem, mem') /\ saved' = mem' /\ (disk' = mem' \/ UNCHANGED <<mem, disk>>)
      BY <1>39, <1>a, MutationsMoveForward DEF SetMessageQueueDispatcher, Done
    <2>4. Done(disk, mem')
      BY <2>2, <2>3, AheadComposes
    <2>5. Ahead(disk, disk')
      BY <2>3, <2>4, AheadComposes DEF Ahead
    <2> QED BY <2>3, <2>4, <2>5 DEF ReceiptInv, Done, Ahead
  <1>40. CASE UNCHANGED vars
    <2>1. StillReceipts
      BY <1>40 DEF StillReceipts, Terminating, vars, jobVars, runVars, dispVars, userVars, history
    <2> QED BY <2>1, <1>b
  <1> QED
    BY <1>1, <1>2, <1>3, <1>4, <1>5, <1>6, <1>7, <1>8, <1>9, <1>10, <1>11,
       <1>12, <1>13, <1>14, <1>15, <1>16, <1>17, <1>18, <1>19, <1>20, <1>21,
       <1>22, <1>23, <1>24, <1>25, <1>26, <1>27, <1>28, <1>29, <1>30, <1>31,
       <1>32, <1>33, <1>34, <1>35, <1>36, <1>37, <1>38, <1>39, <1>40 DEF Next,
       UserStep, HandlerStep, DispatcherStep, RunStep, BootStep

\* The receipt of a client message in job.json only moves forward: finishing, blocking,
\* deleting, rolling back and restarting respect its one-way state machine.
THEOREM ReceiptsOnlyMoveForward == Spec => ReceiptsMoveForward
PROOF
  <1>1. Init => ReceiptInv
    BY DEF Init, ReceiptInv, Done, Ahead, Terminating, IdleRun
  <1>2. IInv /\ ReceiptInv /\ [Next]_vars => ReceiptInv'
    BY ReceiptStep
  <1>3. IInv /\ ReceiptInv /\ [Next]_vars =>
          [\A i \in Id : disk'.receipt[i] = disk.receipt[i]
                           \/ <<disk.receipt[i], disk'.receipt[i]>> \in Lifecycle]_vars
    BY ReceiptStep DEF Ahead
  <1> QED BY <1>1, <1>2, <1>3, Inductive, PTL DEF Spec, ReceiptsMoveForward

(***************************************************************************)
(* No interleaving of starts, exits, failed saves and restarts strands a   *)
(* job in running: there is always a goroutine that will still apply a     *)
(* terminal status.                                                        *)
(*                                                                         *)
(* The difficulty is the rollback.  A failed save puts back the copy that  *)
(* its operation found, and in the meantime the run that was going to end  *)
(* the job may have left.  The persist shard rules it out: a run that      *)
(* leaves without a terminal transition has read a status other than       *)
(* running, and only a terminal transition in progress separates that      *)
(* status from the copy.                                                   *)
(***************************************************************************)
Live(r) == run[r].pc \in {"starting", "body", "term", "exit"}

\* Nobody has to end the job j.
AtRest(j) == j.life = "removed" \/ j.status # "running"

RunningInv ==
  /\ boot = "up" /\ ~AtRest(mem) => \E r \in Run : Live(r)
  /\ boot = "loaded" => AtRest(mem) /\ AtRest(saved)
  /\ saved.life = mem.life
  /\ saved.status = "running" /\ mem.status # "running" => \E r \in Run : Terminating(r)
  /\ \A r \in Run : Starting(r) => saved.status # "running"
  /\ \A r \in Run : Terminating(r) => mem.status # "running"

(***************************************************************************)
(* The forms most steps take, as far as the status is concerned.           *)
(***************************************************************************)
RunsStay ==
  \A r \in Run : /\ Live(r) => Live(r)'
                 /\ Starting(r)' <=> Starting(r)
                 /\ Terminating(r)' <=> Terminating(r)

QuietRunning  == UNCHANGED <<mem, saved, boot>> /\ RunsStay
MutateRunning == /\ mem'.life = mem.life /\ mem'.status = mem.status
          /\ saved' = mem /\ UNCHANGED boot
          /\ RunsStay /\ \A r \in Run : ~Starting(r)
SettleRunning == /\ saved' = mem /\ UNCHANGED <<mem, boot>>
          /\ RunsStay /\ \A r \in Run : ~Starting(r)
UndoRunning   == /\ mem' = saved /\ UNCHANGED <<saved, boot>>
          /\ RunsStay /\ \A r \in Run : ~Starting(r) /\ ~Terminating(r)

\* Each form keeps the invariant.
LEMMA FormsKeepRunning ==
  ASSUME RunningInv, QuietRunning \/ MutateRunning \/ SettleRunning \/ UndoRunning
  PROVE  RunningInv'
PROOF
  <1>1. CASE QuietRunning
    BY <1>1 DEF RunningInv, AtRest, QuietRunning, RunsStay
  <1>2. CASE MutateRunning
    BY <1>2 DEF RunningInv, AtRest, MutateRunning, RunsStay
  <1>3. CASE SettleRunning
    BY <1>3 DEF RunningInv, AtRest, SettleRunning, RunsStay
  <1>4. CASE UndoRunning
    BY <1>4 DEF RunningInv, AtRest, UndoRunning, RunsStay
  <1> QED BY <1>1, <1>2, <1>3, <1>4

\* The mutations of the queue touch neither status nor life; a start makes the job
\* running, an end and a repair make it anything else.
LEMMA MutationsAndStatus ==
  ASSUME NEW j \in Job
  PROVE  /\ \A i : Submitted(j, i).life = j.life /\ Submitted(j, i).status = j.status
         /\ \A k : WithoutItem(j, k).life = j.life /\ WithoutItem(j, k).status = j.status
         /\ \A k : Deleted(j, k).life = j.life /\ Deleted(j, k).status = j.status
         /\ \A i : Blocked(j, i).life = j.life /\ Blocked(j, i).status = j.status
         /\ Resumed(j).life = j.life /\ Resumed(j).status = j.status
         /\ Stopped(j).life = j.life /\ Stopped(j).status = j.status
         /\ \A i : Started(j, i).life = j.life
         /\ \A o \in Outcome : \A p \in {"none", "completed", "failed"} :
              /\ Terminated(j, o, p).life = j.life
              /\ Terminated(j, o, p).status # "running"
         /\ Reconciled(j).status # "running"
         /\ WithoutInterrupted(j).life = j.life /\ WithoutInterrupted(j).status = j.status
PROOF
  <1>1. \A i : Submitted(j, i).life = j.life /\ Submitted(j, i).status = j.status
    BY DEF Submitted, Job
  <1>2. \A k : WithoutItem(j, k).life = j.life /\ WithoutItem(j, k).status = j.status
    BY DEF WithoutItem, Job
  <1>3. \A k : Deleted(j, k).life = j.life /\ Deleted(j, k).status = j.status
    BY DEF Deleted, Job
  <1>4. \A i : Blocked(j, i).life = j.life /\ Blocked(j, i).status = j.status
    BY DEF Blocked, Job
  <1>5. /\ Resumed(j).life = j.life /\ Resumed(j).status = j.status
        /\ Stopped(j).life = j.life /\ Stopped(j).status = j.status
    BY DEF Resumed, Stopped, Job
  <1>6. \A i : Started(j, i).life = j.life
    BY DEF Started, Job
  <1>7. \A o \in Outcome : \A p \in {"none", "completed", "failed"} :
          /\ Terminated(j, o, p).life = j.life
          /\ Terminated(j, o, p).status # "running"
    BY DEF Terminated, Job, Outcome
  <1>8. Reconciled(j).status # "running"
    BY DEF Reconciled, Job
  <1>9. WithoutInterrupted(j).life = j.life /\ WithoutInterrupted(j).status = j.status
    BY DEF WithoutInterrupted, Job
  <1> QED BY <1>1, <1>2, <1>3, <1>4, <1>5, <1>6, <1>7, <1>8, <1>9

\* SendMessage makes the job running together with its run.
LEMMA BeginStartRunning ==
  ASSUME TypeOK, ControlInv, RunningInv, NEW op, NEW i, NEW r \in Run, BeginStart(op, i, r),
         boot = "up", UNCHANGED boot
  PROVE  RunningInv'
PROOF
  <1>1. mem \in Job /\ run \in [Run -> RunRecord]
    BY DEF TypeOK, JobTypeOK, RunTypeOK
  <1>2. saved' = mem /\ mem.status # "running" /\ mem'.life = mem.life /\ lock.op = "free"
    BY <1>1, MutationsAndStatus DEF BeginStart, Acquire, Unlocked, MayStart
  <1>3. run'[r].pc = "starting" /\ \A s \in Run : s # r => run'[s] = run[s]
    BY <1>1 DEF BeginStart, IdleRun, RunRecord
  <1>4. \A s \in Run : ~Terminating(s)
    BY <1>2 DEF ControlInv, LockInv, Saving, Terminating
  <1>5. Live(r)' /\ \A s \in Run : ~Terminating(s)'
    BY <1>3, <1>4 DEF Live, Terminating
  <1> QED BY <1>2, <1>5 DEF RunningInv

\* The save of a start: the run goes on.
LEMMA StartCommittedRunning ==
  ASSUME TypeOK, ControlInv, RunningInv, NEW r \in Run, StartCommitted(r), UNCHANGED boot
  PROVE  RunningInv'
PROOF
  <1>1. run \in [Run -> RunRecord]
    BY DEF TypeOK, RunTypeOK
  <1>2. /\ run'[r].pc = "body" /\ \A s \in Run : s # r => run'[s] = run[s]
        /\ saved' = mem /\ mem' = mem /\ run[r].pc = "starting"
    BY <1>1 DEF StartCommitted, Commit, RunRecord
  <1>3. boot = "up" /\ \A s \in Run : Starting(s) => s = r
    BY <1>2 DEF ControlInv, BootInv, LockInv, Starting
  <1>4. lock.op \in {"direct", "dispatch"}
    BY <1>2 DEF ControlInv, LockInv, Starting
  <1>5. \A s \in Run : ~Terminating(s)
    BY <1>4 DEF ControlInv, LockInv, Saving, Terminating
  <1>6. Live(r)' /\ \A s \in Run : ~Starting(s)' /\ ~Terminating(s)'
    BY <1>2, <1>3, <1>5 DEF Live, Starting, Terminating
  <1> QED BY <1>2, <1>3, <1>6 DEF RunningInv

\* Its failure: the job is again what it was, and that was not running.
LEMMA StartAbortedRunning ==
  ASSUME TypeOK, ControlInv, RunningInv, NEW r \in Run, StartAborted(r), UNCHANGED boot
  PROVE  RunningInv'
PROOF
  <1>1. run \in [Run -> RunRecord]
    BY DEF TypeOK, RunTypeOK
  <1>2. /\ run'[r].pc = "idle" /\ \A s \in Run : s # r => run'[s] = run[s]
        /\ saved' = saved /\ mem' = saved /\ run[r].pc = "starting"
    BY <1>1 DEF StartAborted, Rollback, IdleRun, RunRecord
  <1>3. boot = "up" /\ saved.status # "running"
    BY <1>2 DEF RunningInv, ControlInv, BootInv, Starting
  <1>4. lock.op \in {"direct", "dispatch"}
    BY <1>2 DEF ControlInv, LockInv, Starting
  <1>5. \A s \in Run : ~Terminating(s)'
    BY <1>2, <1>4 DEF ControlInv, LockInv, Saving, Terminating
  <1> QED BY <1>2, <1>3, <1>5 DEF RunningInv, AtRest

\* Every step keeps the invariant.
LEMMA RunningStep ==
  ASSUME IInv, RunningInv, [Next]_vars
  PROVE  RunningInv'
PROOF
  <1>a. /\ mem \in Job /\ disk \in Job /\ run \in [Run -> RunRecord]
        /\ prior \in {"none", "completed", "failed"} /\ TypeOK /\ ControlInv
    BY DEF IInv, TypeOK, JobTypeOK, RunTypeOK
  <1>b. QuietRunning \/ MutateRunning \/ SettleRunning \/ UndoRunning => RunningInv'
    BY FormsKeepRunning
  <1>c. lock.op = "free" => \A r \in Run : ~Starting(r) /\ ~Terminating(r)
    BY DEF IInv, ControlInv, LockInv, Saving, Terminating
  <1>d. /\ lock.op \in {"submit", "delete", "continue", "pause"} =>
             \A r \in Run : ~Starting(r) /\ ~Terminating(r)
        /\ \A r, s \in Run : run[r].pc \in {"completeSave", "clearPauseSave"} =>
             ~Starting(s) /\ ~Terminating(s)
        /\ \A d \in Dispatcher, s \in Run : disp[d].pc = "blockSave" =>
             ~Starting(s) /\ ~Terminating(s)
        /\ \A r, s \in Run : Terminating(r) => ~Starting(s) /\ (Terminating(s) => s = r)
    BY DEF IInv, ControlInv, LockInv, Saving, Holding, Starting, Terminating
  <1>e. boot # "up" => /\ lock.op = "free" /\ \A r \in Run : run[r].pc = "idle"
                       /\ \A d \in Dispatcher : disp[d].pc = "idle"
    BY DEF IInv, ControlInv, BootInv, NoLock
  <1>1. ASSUME Kick
         PROVE  RunningInv'
    <2>1. RunsStay
      BY <1>1, <1>a DEF Kick, runVars, RunsStay, Live, Starting, Terminating, RunRecord
    <2>2. QuietRunning
      BY <1>1, <2>1 DEF Kick, QuietRunning, jobVars
    <2> QED BY <2>2, <1>b
  <1>2. ASSUME JobStop
         PROVE  RunningInv'
    <2>1. RunsStay
      BY <1>2, <1>a DEF JobStop, CancelRegistered, runVars, RunsStay, Live, Starting, Terminating, RunRecord
    <2>2. QuietRunning
      BY <1>2, <2>1 DEF JobStop, QuietRunning, jobVars
    <2> QED BY <2>2, <1>b
  <1>3. ASSUME StopDeleted
         PROVE  RunningInv'
    <2>1. RunsStay
      BY <1>3, <1>a DEF StopDeleted, CancelRegistered, runVars, RunsStay, Live, Starting, Terminating, RunRecord
    <2>2. QuietRunning
      BY <1>3, <2>1 DEF StopDeleted, QuietRunning, jobVars
    <2> QED BY <2>2, <1>b
  <1>4. ASSUME NEW d \in Dispatcher, DispCheck(d)
         PROVE  RunningInv'
    <2>1. RunsStay
      BY <1>4, <1>a DEF DispCheck, runVars, RunsStay, Live, Starting, Terminating, RunRecord
    <2>2. QuietRunning
      BY <1>4, <2>1 DEF DispCheck, QuietRunning, jobVars
    <2> QED BY <2>2, <1>b
  <1>5. ASSUME NEW d \in Dispatcher, DispDones(d)
         PROVE  RunningInv'
    <2>1. RunsStay
      BY <1>5, <1>a DEF DispDones, runVars, RunsStay, Live, Starting, Terminating, RunRecord
    <2>2. QuietRunning
      BY <1>5, <2>1 DEF DispDones, QuietRunning, jobVars
    <2> QED BY <2>2, <1>b
  <1>6. ASSUME NEW d \in Dispatcher, DispPrepare(d)
         PROVE  RunningInv'
    <2>1. RunsStay
      BY <1>6, <1>a DEF DispPrepare, runVars, RunsStay, Live, Starting, Terminating, RunRecord
    <2>2. QuietRunning
      BY <1>6, <2>1 DEF DispPrepare, QuietRunning, jobVars
    <2> QED BY <2>2, <1>b
  <1>7. ASSUME NEW d \in Dispatcher, DispRefused(d)
         PROVE  RunningInv'
    <2>1. RunsStay
      BY <1>7, <1>a DEF DispRefused, runVars, RunsStay, Live, Starting, Terminating, RunRecord
    <2>2. QuietRunning
      BY <1>7, <2>1 DEF DispRefused, QuietRunning, jobVars
    <2> QED BY <2>2, <1>b
  <1>8. ASSUME NEW d \in Dispatcher, DispFinish(d)
         PROVE  RunningInv'
    <2>1. RunsStay
      BY <1>8, <1>a DEF DispFinish, runVars, RunsStay, Live, Starting, Terminating, RunRecord
    <2>2. QuietRunning
      BY <1>8, <2>1 DEF DispFinish, QuietRunning, jobVars
    <2> QED BY <2>2, <1>b
  <1>9. ASSUME NEW d \in Dispatcher, DispRecheck(d)
         PROVE  RunningInv'
    <2>1. RunsStay
      BY <1>9, <1>a DEF DispRecheck, runVars, RunsStay, Live, Starting, Terminating, RunRecord
    <2>2. QuietRunning
      BY <1>9, <2>1 DEF DispRecheck, QuietRunning, jobVars
    <2> QED BY <2>2, <1>b
  <1>10. ASSUME NEW r \in Run, RunBody(r)
         PROVE  RunningInv'
    <2>1. RunsStay
      BY <1>10, <1>a DEF RunBody, RunGoto, RunsStay, Live, Starting, Terminating, RunRecord
    <2>2. QuietRunning
      BY <1>10, <2>1 DEF RunBody, QuietRunning, jobVars
    <2> QED BY <2>2, <1>b
  <1>11. ASSUME NEW r \in Run, RunClear(r)
         PROVE  RunningInv'
    <2>1. RunsStay
      BY <1>11, <1>a DEF RunClear, RunGoto, RunsStay, Live, Starting, Terminating, RunRecord
    <2>2. QuietRunning
      BY <1>11, <2>1 DEF RunClear, QuietRunning, jobVars
    <2> QED BY <2>2, <1>b
  <1>12. ASSUME NEW r \in Run, RunFinish(r)
         PROVE  RunningInv'
    <2>1. RunsStay
      BY <1>12, <1>a DEF RunFinish, RunGoto, IdleRun, RunsStay, Live, Starting, Terminating, RunRecord
    <2>2. QuietRunning
      BY <1>12, <2>1 DEF RunFinish, QuietRunning, jobVars
    <2> QED BY <2>2, <1>b
  <1>13. ASSUME NEW r \in Run, RunRecheck(r)
         PROVE  RunningInv'
    <2>1. RunsStay
      BY <1>13, <1>a DEF RunRecheck, IdleRun, RunsStay, Live, Starting, Terminating, RunRecord
    <2>2. QuietRunning
      BY <1>13, <2>1 DEF RunRecheck, QuietRunning, jobVars
    <2> QED BY <2>2, <1>b
  <1>14. ASSUME NEW i \in QueueId, Submit(i)
         PROVE  RunningInv'
    <2>1. RunsStay
      BY <1>14, <1>a DEF Submit, runVars, RunsStay, Live, Starting, Terminating, RunRecord
    <2>2. QuietRunning \/ MutateRunning
      BY <1>14, <2>1, <1>a, <1>c, MutationsAndStatus DEF Submit, Acquire, Unlocked, QuietRunning, MutateRunning
    <2> QED BY <2>2, <1>b
  <1>15. ASSUME NEW k \in DOMAIN mem.queue, DeleteQueuedMessage(k)
         PROVE  RunningInv'
    <2>1. RunsStay
      BY <1>15, <1>a DEF DeleteQueuedMessage, runVars, RunsStay, Live, Starting, Terminating, RunRecord
    <2>2. QuietRunning \/ MutateRunning
      BY <1>15, <2>1, <1>a, <1>c, MutationsAndStatus DEF DeleteQueuedMessage, Acquire, Unlocked, QuietRunning, MutateRunning
    <2> QED BY <2>2, <1>b
  <1>16. ASSUME ContinueMessageQueue
         PROVE  RunningInv'
    <2>1. RunsStay
      BY <1>16, <1>a DEF ContinueMessageQueue, runVars, RunsStay, Live, Starting, Terminating, RunRecord
    <2>2. QuietRunning \/ MutateRunning
      BY <1>16, <2>1, <1>a, <1>c, MutationsAndStatus DEF ContinueMessageQueue, Acquire, Unlocked, QuietRunning, MutateRunning
    <2> QED BY <2>2, <1>b
  <1>17. ASSUME PauseMessageQueueForStop
         PROVE  RunningInv'
    <2>1. RunsStay
      BY <1>17, <1>a DEF PauseMessageQueueForStop, runVars, RunsStay, Live, Starting, Terminating, RunRecord
    <2>2. QuietRunning \/ MutateRunning
      BY <1>17, <2>1, <1>a, <1>c, MutationsAndStatus DEF PauseMessageQueueForStop, Acquire, Unlocked, QuietRunning, MutateRunning
    <2> QED BY <2>2, <1>b
  <1>18. ASSUME NEW d \in Dispatcher, DispBlock(d)
         PROVE  RunningInv'
    <2>1. RunsStay
      BY <1>18, <1>a DEF DispBlock, runVars, RunsStay, Live, Starting, Terminating, RunRecord
    <2>2. QuietRunning \/ MutateRunning
      BY <1>18, <2>1, <1>a, <1>c, MutationsAndStatus DEF DispBlock, Acquire, Unlocked, QuietRunning, MutateRunning
    <2> QED BY <2>2, <1>b
  <1>19. ASSUME NEW r \in Run, RunComplete(r)
         PROVE  RunningInv'
    <2>1. RunsStay
      BY <1>19, <1>a DEF RunComplete, RunGoto, RunsStay, Live, Starting, Terminating, RunRecord
    <2>2. QuietRunning \/ MutateRunning
      BY <1>19, <2>1, <1>a, <1>c, MutationsAndStatus DEF RunComplete, Acquire, Unlocked, QuietRunning, MutateRunning
    <2> QED BY <2>2, <1>b
  <1>20. ASSUME NEW r \in Run, RunClearPause(r)
         PROVE  RunningInv'
    <2>1. RunsStay
      BY <1>20, <1>a DEF RunClearPause, RunGoto, RunsStay, Live, Starting, Terminating, RunRecord
    <2>2. QuietRunning \/ MutateRunning
      BY <1>20, <2>1, <1>a, <1>c, MutationsAndStatus DEF RunClearPause, Acquire, Unlocked, QuietRunning, MutateRunning
    <2> QED BY <2>2, <1>b
  <1>21. ASSUME SubmitSaved
         PROVE  RunningInv'
    <2>1. RunsStay
      BY <1>21, <1>a DEF SubmitSaved, runVars, RunsStay, Live, Starting, Terminating, RunRecord
    <2>2. SettleRunning \/ UndoRunning
      BY <1>21, <2>1, <1>d DEF SubmitSaved, Commit, Rollback, SettleRunning, UndoRunning
    <2> QED BY <2>2, <1>b
  <1>22. ASSUME DeleteSaved
         PROVE  RunningInv'
    <2>1. RunsStay
      BY <1>22, <1>a DEF DeleteSaved, runVars, RunsStay, Live, Starting, Terminating, RunRecord
    <2>2. SettleRunning \/ UndoRunning
      BY <1>22, <2>1, <1>d DEF DeleteSaved, Commit, Rollback, SettleRunning, UndoRunning
    <2> QED BY <2>2, <1>b
  <1>23. ASSUME ContinueSaved
         PROVE  RunningInv'
    <2>1. RunsStay
      BY <1>23, <1>a DEF ContinueSaved, runVars, RunsStay, Live, Starting, Terminating, RunRecord
    <2>2. SettleRunning \/ UndoRunning
      BY <1>23, <2>1, <1>d DEF ContinueSaved, Commit, Rollback, SettleRunning, UndoRunning
    <2> QED BY <2>2, <1>b
  <1>24. ASSUME PauseSaved
         PROVE  RunningInv'
    <2>1. RunsStay
      BY <1>24, <1>a DEF PauseSaved, runVars, RunsStay, Live, Starting, Terminating, RunRecord
    <2>2. SettleRunning \/ UndoRunning
      BY <1>24, <2>1, <1>d DEF PauseSaved, Commit, Rollback, SettleRunning, UndoRunning
    <2> QED BY <2>2, <1>b
  <1>25. ASSUME NEW d \in Dispatcher, DispBlockSaved(d)
         PROVE  RunningInv'
    <2>1. RunsStay
      BY <1>25, <1>a DEF DispBlockSaved, runVars, RunsStay, Live, Starting, Terminating, RunRecord
    <2>2. SettleRunning \/ UndoRunning
      BY <1>25, <2>1, <1>d DEF DispBlockSaved, Commit, Rollback, SettleRunning, UndoRunning
    <2> QED BY <2>2, <1>b
  <1>26. ASSUME NEW r \in Run, RunCompleteSaved(r)
         PROVE  RunningInv'
    <2>1. RunsStay
      BY <1>26, <1>a DEF RunCompleteSaved, RunGoto, RunsStay, Live, Starting, Terminating, RunRecord
    <2>2. SettleRunning \/ UndoRunning
      BY <1>26, <2>1, <1>d DEF RunCompleteSaved, Commit, Rollback, SettleRunning, UndoRunning
    <2> QED BY <2>2, <1>b
  <1>27. ASSUME NEW r \in Run, RunClearPauseSaved(r)
         PROVE  RunningInv'
    <2>1. RunsStay
      BY <1>27, <1>a DEF RunClearPauseSaved, RunGoto, RunsStay, Live, Starting, Terminating, RunRecord
    <2>2. SettleRunning \/ UndoRunning
      BY <1>27, <2>1, <1>d DEF RunClearPauseSaved, Commit, Rollback, SettleRunning, UndoRunning
    <2> QED BY <2>2, <1>b
  <1>28. ASSUME NEW i \in DirectId, NEW r \in Run, SendDirect(i, r)
         PROVE  RunningInv'
    BY <1>28, <1>a, BeginStartRunning DEF SendDirect
  <1>29. ASSUME NEW d \in Dispatcher, NEW r \in Run, DispSend(d, r)
         PROVE  RunningInv'
    BY <1>29, <1>a, <1>e, BeginStartRunning DEF DispSend
  <1>30. ASSUME NEW r \in Run, DirectSaved(r)
         PROVE  RunningInv'
    BY <1>30, <1>a, StartCommittedRunning, StartAbortedRunning DEF DirectSaved
  <1>31. ASSUME NEW d \in Dispatcher, NEW r \in Run, DispSendSaved(d, r)
         PROVE  RunningInv'
    BY <1>31, <1>a, StartCommittedRunning, StartAbortedRunning DEF DispSendSaved
  <1>32. ASSUME NEW r \in Run, RunExit(r)
         PROVE  RunningInv'
    <2>1. CASE mem.status = "running"
      <3>1. RunsStay
        BY <1>32, <2>1, <1>a DEF RunExit, RunsStay, Live, Starting, Terminating, RunRecord
      <3>2. QuietRunning
        BY <1>32, <3>1 DEF RunExit, QuietRunning, jobVars
      <3> QED BY <3>2, <1>b
    <2>2. CASE mem.status # "running"
      <3>1. \A s \in Run : (Starting(s)' <=> Starting(s)) /\ (Terminating(s)' <=> Terminating(s))
        BY <1>32, <2>2, <1>a DEF RunExit, RunGoto, Starting, Terminating, RunRecord
      <3>2. UNCHANGED <<mem, saved, boot>>
        BY <1>32 DEF RunExit, jobVars
      <3> QED BY <2>2, <3>1, <3>2 DEF RunningInv, AtRest
    <2> QED BY <2>1, <2>2
  <1>33. ASSUME NEW r \in Run, RunTerm(r)
         PROVE  RunningInv'
    <2>1. /\ lock.op = "free" /\ saved' = mem /\ UNCHANGED boot
          /\ mem'.life = mem.life /\ mem'.status # "running"
      <3>1. run[r].outcome \in Outcome
        BY <1>a DEF RunRecord
      <3> QED BY <1>33, <1>a, <3>1, MutationsAndStatus DEF RunTerm, Acquire, Unlocked
    <2>2. /\ Terminating(r)'
          /\ \A s \in Run : ~Starting(s)'
      BY <1>33, <1>a, <1>c, <2>1 DEF RunTerm, RunGoto, Starting, Terminating, RunRecord
    <2>3. boot = "up"
      BY <1>33, <1>e DEF RunTerm
    <2> QED BY <2>1, <2>2, <2>3 DEF RunningInv, AtRest
  <1>34. ASSUME NEW r \in Run, RunTermSaved(r)
         PROVE  RunningInv'
    <2>1. saved' = mem /\ UNCHANGED <<mem, boot>>
      BY <1>34 DEF RunTermSaved, Commit, KeepUnsaved
    <2>2. Terminating(r) /\ mem.status # "running"
      BY <1>34 DEF RunTermSaved, RunningInv, Terminating
    <2>3. \A s \in Run : ~Starting(s)'
      BY <1>34, <1>a, <1>d, <2>2 DEF RunTermSaved, RunGoto, Starting, RunRecord
    <2>4. boot = "up"
      BY <1>34, <1>e DEF RunTermSaved
    <2> QED BY <2>1, <2>2, <2>3, <2>4 DEF RunningInv, AtRest
  <1>35. ASSUME MarkDeleted
         PROVE  RunningInv'
    <2>1. /\ mem'.status = mem.status /\ mem'.life = "deleted" /\ mem.life = "live"
          /\ saved' = mem' /\ UNCHANGED <<boot, run>> /\ boot = "up" /\ lock.op = "free"
      BY <1>35, <1>a DEF MarkDeleted, Unlocked, Job, runVars
    <2>2. RunsStay /\ \A s \in Run : ~Starting(s) /\ ~Terminating(s)
      BY <2>1, <1>c DEF RunsStay, Live, Starting, Terminating
    <2> QED BY <2>1, <2>2 DEF RunningInv, AtRest, RunsStay
  <1>36. ASSUME RemoveJob
         PROVE  RunningInv'
    <2>1. /\ mem'.life = "removed" /\ mem'.status = mem.status
          /\ saved' = mem' /\ UNCHANGED <<boot, run>> /\ boot = "up" /\ lock.op = "free"
      BY <1>36, <1>a DEF RemoveJob, Unlocked, Job, runVars
    <2>2. \A s \in Run : ~Starting(s)' /\ ~Terminating(s)'
      BY <2>1, <1>c DEF Starting, Terminating
    <2> QED BY <2>1, <2>2 DEF RunningInv, AtRest
  <1>37. ASSUME Crash
         PROVE  RunningInv'
    <2>1. mem' = saved' /\ boot' = "down" /\ \A s \in Run : run'[s].pc = "idle"
      BY <1>37 DEF Crash, IdleRun
    <2> QED BY <2>1 DEF RunningInv, Starting, Terminating
  <1>38. ASSUME Load
         PROVE  RunningInv'
    <2>1. AtRest(mem') /\ saved' = mem' /\ boot' = "loaded" /\ UNCHANGED run
      BY <1>38, <1>a, MutationsAndStatus DEF Load, AtRest, Job, runVars
    <2>2. \A s \in Run : run[s].pc = "idle"
      BY <1>38, <1>e DEF Load
    <2> QED BY <2>1, <2>2 DEF RunningInv, AtRest, Starting, Terminating
  <1>39. ASSUME SetMessageQueueDispatcher
         PROVE  RunningInv'
    <2>1. /\ mem'.life = mem.life /\ mem'.status = mem.status
          /\ saved' = mem' /\ boot = "loaded" /\ boot' = "up" /\ UNCHANGED run
      BY <1>39, <1>a, MutationsAndStatus DEF SetMessageQueueDispatcher, runVars
    <2>2. AtRest(mem) /\ \A s \in Run : run[s].pc = "idle"
      BY <2>1, <1>e DEF RunningInv
    <2> QED BY <2>1, <2>2 DEF RunningInv, AtRest, Starting, Terminating
  <1>40. CASE UNCHANGED vars
    <2>1. QuietRunning
      BY <1>40 DEF QuietRunning, RunsStay, Live, Starting, Terminating, vars, jobVars, runVars,
         dispVars, userVars, history
    <2> QED BY <2>1, <1>b
  <1> QED
    BY <1>1, <1>2, <1>3, <1>4, <1>5, <1>6, <1>7, <1>8, <1>9, <1>10, <1>11,
       <1>12, <1>13, <1>14, <1>15, <1>16, <1>17, <1>18, <1>19, <1>20, <1>21,
       <1>22, <1>23, <1>24, <1>25, <1>26, <1>27, <1>28, <1>29, <1>30, <1>31,
       <1>32, <1>33, <1>34, <1>35, <1>36, <1>37, <1>38, <1>39, <1>40 DEF Next,
       UserStep, HandlerStep, DispatcherStep, RunStep, BootStep

\* A running job has a goroutine that will still apply its terminal status.
THEOREM RunningIsTended == Spec => []RunningHasRun
PROOF
  <1>1. Init => RunningInv
    BY DEF Init, RunningInv, AtRest, NewJob, Starting, Terminating, IdleRun
  <1>2. IInv /\ RunningInv /\ [Next]_vars => RunningInv'
    BY RunningStep
  <1>3. RunningInv => RunningHasRun
    BY DEF RunningInv, AtRest, Live, RunningHasRun
  <1> QED BY <1>1, <1>2, <1>3, Inductive, PTL DEF Spec

(***************************************************************************)
(* JobQueue implements MessageService.                                     *)
(*                                                                         *)
(* The abstract line is read off job.json, behind the claimed items.  A    *)
(* writer changes the copy in memory first and saves it later, so the      *)
(* invariant says what the holder of the persist shard has changed of the  *)
(* line and not saved yet: a submission appends its message, a deletion    *)
(* removes its own, a start takes the head or a message that was never     *)
(* queued, everything else leaves the line as it was.  The save is the     *)
(* abstract step.                                                          *)
(***************************************************************************)

(***************************************************************************)
(* The line of a queue.                                                    *)
(***************************************************************************)
\* The claimed items are the first n of queue q.
ClaimedUpTo(q, n) ==
  /\ n \in 0 .. Len(q)
  /\ \A k \in DOMAIN q : q[k].state = "processing" <=> k <= n

ClaimedFirst(q) == \E n : ClaimedUpTo(q, n)

\* Behind them is the line.
LEMMA LineBehind ==
  ASSUME NEW q \in Seq(Item), NEW n, ClaimedUpTo(q, n)
  PROVE  /\ Line(q) \in Seq(QueueId) /\ Len(Line(q)) = Len(q) - n
         /\ DOMAIN Line(q) = 1 .. Len(q) - n
         /\ \A k \in 1 .. Len(q) - n : Line(q)[k] = q[n + k].id
PROOF
  <1>1. /\ DOMAIN q = 1 .. Len(q) /\ Len(q) \in Nat
        /\ \A k \in 1 .. Len(q) : q[k].id \in QueueId
    <2>1. \A k \in 1 .. Len(q) : q[k] \in Item
      BY LenProperties
    <2> QED BY <2>1, LenProperties DEF Item
  <1>2. \A m \in 0 .. Len(q) : ClaimedUpTo(q, m) => m = n
    <2> SUFFICES ASSUME NEW m \in 0 .. Len(q), ClaimedUpTo(q, m), m # n
                 PROVE  FALSE
      OBVIOUS
    <2>1. (m + 1 \in DOMAIN q /\ m + 1 <= n) \/ (n + 1 \in DOMAIN q /\ n + 1 <= m)
      BY <1>1 DEF ClaimedUpTo
    <2> QED BY <1>1, <2>1 DEF ClaimedUpTo
  <1>3. Claims(q) = n
    BY <1>2 DEF Claims, ClaimedUpTo
  <1>4. Line(q) = [k \in 1 .. Len(q) - n |-> q[n + k].id]
    BY <1>3 DEF Line
  <1>5. Len(q) - n \in Nat /\ \A k \in 1 .. Len(q) - n : q[n + k].id \in QueueId
    BY <1>1 DEF ClaimedUpTo
  <1>6. Line(q) \in [1 .. Len(q) - n -> QueueId]
    BY <1>4, <1>5
  <1> QED BY <1>4, <1>5, <1>6, SeqDef, LenProperties

\* Two lines are the same if they are as long and have the same messages.
LEMMA SameLine ==
  ASSUME NEW s \in Seq(QueueId), NEW t \in Seq(QueueId), Len(s) = Len(t),
         \A k \in 1 .. Len(s) : s[k] = t[k]
  PROVE  s = t
PROOF BY SeqEqual

\* SubmitMessage appends to the line.
LEMMA LineAppended ==
  ASSUME NEW q \in Seq(Item), NEW i \in QueueId, ClaimedFirst(q)
  PROVE  LET p == Append(q, [id |-> i, state |-> "queued"])
         IN  ClaimedFirst(p) /\ Line(p) = Append(Line(q), i)
PROOF
  <1> DEFINE p == Append(q, [id |-> i, state |-> "queued"])
  <1>1. PICK n : ClaimedUpTo(q, n)
    BY DEF ClaimedFirst
  <1>2. [id |-> i, state |-> "queued"] \in Item
    BY DEF Item, ItemState
  <1>3. /\ p \in Seq(Item) /\ Len(p) = Len(q) + 1 /\ DOMAIN p = 1 .. Len(q) + 1
        /\ DOMAIN q = 1 .. Len(q) /\ Len(q) \in Nat
        /\ \A k \in 1 .. Len(q) : p[k] = q[k]
        /\ p[Len(q) + 1].id = i /\ p[Len(q) + 1].state = "queued"
    BY <1>2, AppendProperties, LenProperties
  <1> HIDE DEF p
  <1>4. ClaimedUpTo(p, n) /\ n \in 0 .. Len(q)
    BY <1>1, <1>3 DEF ClaimedUpTo
  <1>5. /\ Line(q) \in Seq(QueueId) /\ Len(Line(q)) = Len(q) - n
        /\ \A k \in 1 .. Len(q) - n : Line(q)[k] = q[n + k].id
    BY <1>1, LineBehind
  <1>6. /\ Line(p) \in Seq(QueueId) /\ Len(Line(p)) = Len(q) + 1 - n
        /\ \A k \in 1 .. Len(q) + 1 - n : Line(p)[k] = p[n + k].id
    <2>1. /\ Line(p) \in Seq(QueueId) /\ Len(Line(p)) = Len(p) - n
          /\ \A k \in 1 .. Len(p) - n : Line(p)[k] = p[n + k].id
      BY <1>3, <1>4, LineBehind
    <2> QED BY <1>3, <1>4, <2>1
  <1>7. /\ Append(Line(q), i) \in Seq(QueueId) /\ Len(Append(Line(q), i)) = Len(q) - n + 1
        /\ \A k \in 1 .. Len(q) - n : Append(Line(q), i)[k] = Line(q)[k]
        /\ Append(Line(q), i)[Len(q) - n + 1] = i
    BY <1>5, AppendProperties
  <1>8. ASSUME NEW k \in 1 .. Len(q) + 1 - n
        PROVE  Line(p)[k] = Append(Line(q), i)[k]
    <2>1. CASE k = Len(q) + 1 - n
      <3>1. n + k = Len(q) + 1 /\ k = Len(q) - n + 1
        BY <1>3, <1>4, <2>1
      <3> QED BY <1>3, <1>6, <1>7, <3>1
    <2>2. CASE k # Len(q) + 1 - n
      <3>1. k \in 1 .. Len(q) - n /\ n + k \in 1 .. Len(q)
        BY <1>3, <1>4, <2>2
      <3> QED BY <1>3, <1>5, <1>6, <1>7, <3>1
    <2> QED BY <2>1, <2>2
  <1>9. Len(q) + 1 - n = Len(q) - n + 1
    BY <1>3, <1>4
  <1>10. Line(p) = Append(Line(q), i)
    BY <1>6, <1>7, <1>8, <1>9, SameLine
  <1> QED BY <1>4, <1>10 DEF p, ClaimedFirst

\* DeleteQueuedMessage takes one out of the line.
LEMMA LineWithdrawn ==
  ASSUME NEW q \in Seq(Item), NEW k \in DOMAIN q, ClaimedFirst(q),
         q[k].state # "processing"
  PROVE  LET p == RemoveAt(q, k)
         IN  /\ ClaimedFirst(p)
             /\ \E l \in DOMAIN Line(q) : Line(q)[l] = q[k].id /\ Line(p) = RemoveAt(Line(q), l)
PROOF
  <1> DEFINE p == RemoveAt(q, k)
  <1>1. PICK n : ClaimedUpTo(q, n)
    BY DEF ClaimedFirst
  <1>2. DOMAIN q = 1 .. Len(q) /\ Len(q) \in Nat /\ n \in 0 .. Len(q) /\ n < k
    BY <1>1, LenProperties DEF ClaimedUpTo
  <1>3. /\ p \in Seq(Item) /\ Len(p) = Len(q) - 1 /\ DOMAIN p = 1 .. Len(q) - 1
        /\ \A m \in 1 .. Len(q) - 1 : p[m] = IF m < k THEN q[m] ELSE q[m + 1]
    BY RemoveAtProperties
  <1> HIDE DEF p
  <1>4. ClaimedUpTo(p, n)
    <2> SUFFICES ASSUME NEW m \in 1 .. Len(q) - 1
                 PROVE  p[m].state = "processing" <=> m <= n
      BY <1>2, <1>3 DEF ClaimedUpTo
    <2>1. \A j \in DOMAIN q : q[j].state = "processing" <=> j <= n
      BY <1>1 DEF ClaimedUpTo
    <2>2. CASE m < k
      <3>1. p[m] = q[m] /\ m \in DOMAIN q
        BY <1>2, <1>3, <2>2
      <3> QED BY <2>1, <3>1
    <2>3. CASE ~(m < k)
      <3>1. p[m] = q[m + 1] /\ m + 1 \in DOMAIN q
        BY <1>2, <1>3, <2>3
      <3>2. ~(m <= n) /\ ~(m + 1 <= n)
        BY <1>2, <2>3
      <3> QED BY <2>1, <3>1, <3>2
    <2> QED BY <2>2, <2>3
  <1> DEFINE l == k - n
  <1>5. /\ Line(q) \in Seq(QueueId) /\ Len(Line(q)) = Len(q) - n
        /\ DOMAIN Line(q) = 1 .. Len(q) - n
        /\ \A m \in 1 .. Len(q) - n : Line(q)[m] = q[n + m].id
    BY <1>1, LineBehind
  <1>6. /\ Line(p) \in Seq(QueueId) /\ Len(Line(p)) = Len(q) - 1 - n
        /\ \A m \in 1 .. Len(q) - 1 - n : Line(p)[m] = p[n + m].id
    <2>1. /\ Line(p) \in Seq(QueueId) /\ Len(Line(p)) = Len(p) - n
          /\ \A m \in 1 .. Len(p) - n : Line(p)[m] = p[n + m].id
      BY <1>3, <1>4, LineBehind
    <2> QED BY <1>3, <2>1
  <1>7. l \in DOMAIN Line(q) /\ n + l = k
    BY <1>2, <1>5
  <1>8. Line(q)[l] = q[k].id
    BY <1>5, <1>7
  <1> HIDE DEF l
  <1>9. /\ RemoveAt(Line(q), l) \in Seq(QueueId)
        /\ Len(RemoveAt(Line(q), l)) = Len(q) - n - 1
        /\ \A m \in 1 .. Len(q) - n - 1 :
             RemoveAt(Line(q), l)[m] = IF m < l THEN Line(q)[m] ELSE Line(q)[m + 1]
    BY <1>5, <1>7, RemoveAtProperties
  <1>10. ASSUME NEW m \in 1 .. Len(q) - 1 - n
         PROVE  Line(p)[m] = RemoveAt(Line(q), l)[m]
    <2>1. /\ m \in 1 .. Len(q) - n - 1 /\ m \in 1 .. Len(q) - n /\ m + 1 \in 1 .. Len(q) - n
          /\ n + m \in 1 .. Len(q) - 1 /\ n + (m + 1) = n + m + 1 /\ l \in Int
          /\ (m < l <=> n + m < k)
      BY <1>2, <1>5, <1>7
    <2>2. CASE m < l
      BY <1>3, <1>5, <1>6, <1>9, <2>1, <2>2
    <2>3. CASE ~(m < l)
      <3>1. RemoveAt(Line(q), l)[m] = q[n + m + 1].id
        BY <1>5, <1>9, <2>1, <2>3
      <3>2. Line(p)[m] = q[n + m + 1].id
        BY <1>3, <1>6, <2>1, <2>3
      <3> QED BY <3>1, <3>2
    <2> QED BY <2>2, <2>3
  <1>11. Len(q) - n - 1 = Len(q) - 1 - n
    BY <1>2
  <1>12. Line(p) = RemoveAt(Line(q), l)
    BY <1>6, <1>9, <1>10, <1>11, SameLine
  <1> QED BY <1>4, <1>7, <1>8, <1>12 DEF p, ClaimedFirst

\* A claimed item leaves without touching the line.
LEMMA LineCompleted ==
  ASSUME NEW q \in Seq(Item), NEW k \in DOMAIN q, ClaimedFirst(q),
         q[k].state = "processing"
  PROVE  ClaimedFirst(RemoveAt(q, k)) /\ Line(RemoveAt(q, k)) = Line(q)
PROOF
  <1> DEFINE p == RemoveAt(q, k)
  <1>1. PICK n : ClaimedUpTo(q, n)
    BY DEF ClaimedFirst
  <1>2. DOMAIN q = 1 .. Len(q) /\ Len(q) \in Nat /\ n \in 0 .. Len(q) /\ k <= n /\ k \in Nat
    BY <1>1, LenProperties DEF ClaimedUpTo
  <1>3. /\ p \in Seq(Item) /\ Len(p) = Len(q) - 1 /\ DOMAIN p = 1 .. Len(q) - 1
        /\ \A m \in 1 .. Len(q) - 1 : p[m] = IF m < k THEN q[m] ELSE q[m + 1]
    BY RemoveAtProperties
  <1> HIDE DEF p
  <1>4. ClaimedUpTo(p, n - 1)
    <2> SUFFICES ASSUME NEW m \in 1 .. Len(q) - 1
                 PROVE  p[m].state = "processing" <=> m <= n - 1
      BY <1>2, <1>3 DEF ClaimedUpTo
    <2>1. CASE m < k
      BY <1>1, <1>2, <1>3, <2>1 DEF ClaimedUpTo
    <2>2. CASE ~(m < k)
      BY <1>1, <1>2, <1>3, <2>2 DEF ClaimedUpTo
    <2> QED BY <2>1, <2>2
  <1>5. /\ Line(q) \in Seq(QueueId) /\ Len(Line(q)) = Len(q) - n
        /\ \A m \in 1 .. Len(q) - n : Line(q)[m] = q[n + m].id
    BY <1>1, LineBehind
  <1>6. /\ Line(p) \in Seq(QueueId) /\ Len(Line(p)) = Len(q) - 1 - (n - 1)
        /\ \A m \in 1 .. Len(q) - 1 - (n - 1) : Line(p)[m] = p[n - 1 + m].id
    BY <1>3, <1>4, LineBehind
  <1>7. Len(q) - 1 - (n - 1) = Len(q) - n
    BY <1>2
  <1>8. ASSUME NEW m \in 1 .. Len(q) - n
        PROVE  Line(p)[m] = Line(q)[m]
    <2>1. n - 1 + m \in 1 .. Len(q) - 1 /\ ~(n - 1 + m < k) /\ n - 1 + m + 1 = n + m
      BY <1>2
    <2> QED BY <1>3, <1>5, <1>6, <1>7, <2>1
  <1>9. Line(p) = Line(q)
    BY <1>5, <1>6, <1>7, <1>8, SameLine
  <1> QED BY <1>4, <1>9 DEF p, ClaimedFirst

\* SendMessage claims the head of the line.
LEMMA LineClaimed ==
  ASSUME NEW q \in Seq(Item), NEW i, ClaimedFirst(q), HeadIs(q, i)
  PROVE  LET p == SetFirstWaiting(q, "processing")
         IN  /\ ClaimedFirst(p)
             /\ Line(q) \in Seq(QueueId)
             /\ Line(q) # <<>> /\ Head(Line(q)) = i /\ Line(p) = Tail(Line(q))
PROOF
  <1> DEFINE p == SetFirstWaiting(q, "processing")
  <1>1. PICK n : ClaimedUpTo(q, n)
    BY DEF ClaimedFirst
  <1>2. DOMAIN q = 1 .. Len(q) /\ Len(q) \in Nat /\ n \in 0 .. Len(q)
    BY <1>1, LenProperties DEF ClaimedUpTo
  <1>3. PICK k \in DOMAIN q : IsFirstWaiting(q, k) /\ q[k].id = i
    BY DEF HeadIs
  <1>4. k = n + 1
    <2>1. ~(k <= n)
      BY <1>1, <1>3 DEF IsFirstWaiting, ClaimedUpTo
    <2>2. ~(n + 1 < k)
      BY <1>1, <1>2, <1>3 DEF IsFirstWaiting, ClaimedUpTo
    <2> QED BY <1>2, <2>1, <2>2
  <1>5. \A m \in DOMAIN q : IsFirstWaiting(q, m) <=> m = k
    BY <1>3, FirstWaitingUnique
  <1>6. /\ p \in Seq(Item) /\ DOMAIN p = DOMAIN q
        /\ \A m \in DOMAIN q :
             /\ p[m].id = q[m].id
             /\ p[m].state = IF m = k THEN "processing" ELSE q[m].state
    BY <1>5, SetFirstWaitingProperties DEF ItemState
  <1> HIDE DEF p
  <1>7. Len(p) = Len(q)
    BY <1>2, <1>6, LenProperties
  <1>8. ClaimedUpTo(p, n + 1)
    <2> SUFFICES ASSUME NEW m \in DOMAIN q
                 PROVE  p[m].state = "processing" <=> m <= n + 1
      BY <1>2, <1>3, <1>4, <1>6, <1>7 DEF ClaimedUpTo
    <2>1. CASE m = k
      BY <1>2, <1>4, <1>6, <2>1
    <2>2. CASE m # k
      BY <1>1, <1>2, <1>4, <1>6, <2>2 DEF ClaimedUpTo
    <2> QED BY <2>1, <2>2
  <1>9. /\ Line(q) \in Seq(QueueId) /\ Len(Line(q)) = Len(q) - n
        /\ \A m \in 1 .. Len(q) - n : Line(q)[m] = q[n + m].id
    BY <1>1, LineBehind
  <1>10. /\ Line(p) \in Seq(QueueId) /\ Len(Line(p)) = Len(q) - (n + 1)
         /\ \A m \in 1 .. Len(q) - (n + 1) : Line(p)[m] = p[n + 1 + m].id
    BY <1>6, <1>7, <1>8, LineBehind
  <1>11. Len(q) - n >= 1
    BY <1>2, <1>3, <1>4
  <1>12. Line(q) # <<>>
    BY <1>9, <1>11, EmptySeq
  <1>13. Head(Line(q)) = i
    <2>1. Head(Line(q)) = Line(q)[1]
      BY <1>9, <1>12, HeadTailProperties
    <2> QED BY <1>2, <1>3, <1>4, <1>9, <1>11, <2>1
  <1>14. /\ Tail(Line(q)) \in Seq(QueueId) /\ Len(Tail(Line(q))) = Len(q) - n - 1
         /\ \A m \in 1 .. Len(q) - n - 1 : Tail(Line(q))[m] = Line(q)[m + 1]
    BY <1>9, <1>12, HeadTailProperties
  <1>15. Len(q) - (n + 1) = Len(q) - n - 1
    BY <1>2
  <1>16. ASSUME NEW m \in 1 .. Len(q) - n - 1
         PROVE  Line(p)[m] = Tail(Line(q))[m]
    <2>1. n + 1 + m \in DOMAIN q /\ n + 1 + m = n + (m + 1) /\ m + 1 \in 1 .. Len(q) - n
      BY <1>2
    <2> QED BY <1>6, <1>9, <1>10, <1>14, <1>15, <2>1
  <1>17. Line(p) = Tail(Line(q))
    BY <1>10, <1>14, <1>15, <1>16, SameLine
  <1> QED BY <1>8, <1>9, <1>12, <1>13, <1>17 DEF p, ClaimedFirst

\* blockMessageQueueHead marks the head and leaves it where it is.
LEMMA LineBlocked ==
  ASSUME NEW q \in Seq(Item), ClaimedFirst(q)
  PROVE  LET p == SetFirstWaiting(q, "blocked")
         IN  ClaimedFirst(p) /\ Line(p) = Line(q)
PROOF
  <1> DEFINE p == SetFirstWaiting(q, "blocked")
  <1>1. PICK n : ClaimedUpTo(q, n)
    BY DEF ClaimedFirst
  <1>2. DOMAIN q = 1 .. Len(q) /\ Len(q) \in Nat /\ n \in 0 .. Len(q)
    BY <1>1, LenProperties DEF ClaimedUpTo
  <1>3. /\ p \in Seq(Item) /\ DOMAIN p = DOMAIN q
        /\ \A m \in DOMAIN q :
             /\ p[m].id = q[m].id
             /\ p[m].state = IF IsFirstWaiting(q, m) THEN "blocked" ELSE q[m].state
    BY SetFirstWaitingProperties DEF ItemState
  <1> HIDE DEF p
  <1>4. Len(p) = Len(q)
    BY <1>2, <1>3, LenProperties
  <1>5. ClaimedUpTo(p, n)
    BY <1>1, <1>2, <1>3, <1>4 DEF ClaimedUpTo, IsFirstWaiting
  <1>6. /\ Line(q) \in Seq(QueueId) /\ Len(Line(q)) = Len(q) - n
        /\ \A m \in 1 .. Len(q) - n : Line(q)[m] = q[n + m].id
    BY <1>1, LineBehind
  <1>7. /\ Line(p) \in Seq(QueueId) /\ Len(Line(p)) = Len(q) - n
        /\ \A m \in 1 .. Len(q) - n : Line(p)[m] = p[n + m].id
    BY <1>3, <1>4, <1>5, LineBehind
  <1>8. \A m \in 1 .. Len(q) - n : n + m \in DOMAIN q
    BY <1>2
  <1>9. Line(p) = Line(q)
    BY <1>3, <1>6, <1>7, <1>8, SameLine
  <1> QED BY <1>5, <1>9 DEF p, ClaimedFirst

\* The restart drops a claimed head, which is not in the line any more.
LEMMA LineRecovered ==
  ASSUME NEW q \in Seq(Item), ClaimedFirst(q), q # <<>>, q[1].state = "processing"
  PROVE  ClaimedFirst(Tail(q)) /\ Line(Tail(q)) = Line(q)
PROOF
  <1> DEFINE p == Tail(q)
  <1>1. PICK n : ClaimedUpTo(q, n)
    BY DEF ClaimedFirst
  <1>2. /\ p \in Seq(Item) /\ Len(p) = Len(q) - 1
        /\ \A m \in 1 .. Len(q) - 1 : p[m] = q[m + 1]
    BY HeadTailProperties
  <1>3. /\ DOMAIN q = 1 .. Len(q) /\ Len(q) \in Nat /\ n \in 0 .. Len(q)
        /\ DOMAIN p = 1 .. Len(q) - 1 /\ Len(q) >= 1
    BY <1>1, <1>2, LenProperties, EmptySeq DEF ClaimedUpTo
  <1> HIDE DEF p
  <1>4. n >= 1
    BY <1>1, <1>3 DEF ClaimedUpTo
  <1>5. ClaimedUpTo(p, n - 1)
    BY <1>1, <1>2, <1>3, <1>4 DEF ClaimedUpTo
  <1>6. /\ Line(q) \in Seq(QueueId) /\ Len(Line(q)) = Len(q) - n
        /\ \A m \in 1 .. Len(q) - n : Line(q)[m] = q[n + m].id
    BY <1>1, LineBehind
  <1>7. /\ Line(p) \in Seq(QueueId) /\ Len(Line(p)) = Len(q) - 1 - (n - 1)
        /\ \A m \in 1 .. Len(q) - 1 - (n - 1) : Line(p)[m] = p[n - 1 + m].id
    BY <1>2, <1>5, LineBehind
  <1>8. Len(q) - 1 - (n - 1) = Len(q) - n
    BY <1>3
  <1>9. \A m \in 1 .. Len(q) - n : n - 1 + m \in 1 .. Len(q) - 1 /\ n - 1 + m + 1 = n + m
    BY <1>3, <1>4
  <1>10. \A m \in 1 .. Len(q) - n : Line(p)[m] = Line(q)[m]
    BY <1>2, <1>6, <1>7, <1>8, <1>9
  <1>11. Line(p) = Line(q)
    BY <1>6, <1>7, <1>8, <1>10, SameLine
  <1> QED BY <1>5, <1>11 DEF p, ClaimedFirst

(***************************************************************************)
(* What the holder of the persist shard has not saved yet.                 *)
(***************************************************************************)
NoStarts == \A r \in Run : ~Starting(r)

\* A send takes the head of the line, or a message that was never queued.
Taken(i) ==
  \/ /\ Line(saved.queue) # <<>> /\ i = Head(Line(saved.queue))
     /\ Line(mem.queue) = Tail(Line(saved.queue))
  \/ /\ i \in QueueId => saved.receipt[i] = "none"
     /\ Line(mem.queue) = Line(saved.queue)

Unsaved ==
  /\ lock.op = "submit" => /\ saved.receipt[lock.id] = "none"
                           /\ Line(mem.queue) = Append(Line(saved.queue), lock.id)
  /\ lock.op = "delete" => \E k \in DOMAIN Line(saved.queue) :
                             /\ Line(saved.queue)[k] = lock.id
                             /\ Line(mem.queue) = RemoveAt(Line(saved.queue), k)
  /\ \A r \in Run : Starting(r) => Taken(run[r].id)
  /\ lock.op \notin {"submit", "delete"} /\ NoStarts => Line(mem.queue) = Line(saved.queue)

\* A save of the terminal status or a repair at startup that fails leaves job.json
\* behind memory, but never with another line.
LineInv ==
  /\ ClaimedFirst(mem.queue) /\ ClaimedFirst(disk.queue) /\ ClaimedFirst(saved.queue)
  /\ Line(saved.queue) = Line(disk.queue)
  /\ Unsaved

(***************************************************************************)
(* The forms a step takes, as far as the line is concerned.                *)
(***************************************************************************)
SameHistory == UNCHANGED <<acked, dropped, execs>>
SameStarts  == \A r \in Run : /\ Starting(r)' <=> Starting(r)
                              /\ Starting(r) => run'[r].id = run[r].id

QuietLine == SameStarts /\ SameHistory /\ UNCHANGED <<mem, disk, saved, lock>>

MutateLine ==
  /\ lock.op = "free" /\ lock'.op \notin {"submit", "delete"}
  /\ saved' = mem /\ ClaimedFirst(mem'.queue) /\ Line(mem'.queue) = Line(mem.queue)
  /\ NoStarts' /\ SameHistory /\ UNCHANGED disk

SaveLine ==
  /\ lock.op \notin {"submit", "delete"} /\ lock'.op = "free"
  /\ saved' = mem /\ disk' = mem /\ mem.life = "live"
  /\ NoStarts /\ NoStarts' /\ SameHistory /\ UNCHANGED mem

KeepLine ==
  /\ lock.op \notin {"submit", "delete"} /\ lock'.op = "free"
  /\ saved' = mem
  /\ NoStarts /\ NoStarts' /\ SameHistory /\ UNCHANGED <<mem, disk>>

UndoLine == lock'.op = "free" /\ mem' = saved /\ NoStarts' /\ SameHistory /\ UNCHANGED <<disk, saved>>

\* A step the abstract line does not see, or sees as the deletion of the Job.
Unseen ==
  /\ disk'.life = "live" => disk.life = "live"
  /\ Line(disk'.queue) = Line(disk.queue)
  /\ SameHistory

PromiseStep == [Promise!Next]_(Promise!promise)

\* Such a step is a stutter or Close.
LEMMA UnseenStep ==
  ASSUME Unseen
  PROVE  PromiseStep
PROOF
  <1>1. CASE (disk'.life = "live") = (disk.life = "live")
    BY <1>1 DEF Unseen, SameHistory, PromiseStep, Promise!promise
  <1>2. CASE (disk'.life = "live") # (disk.life = "live")
    <2>1. disk.life = "live" /\ (disk'.life = "live") = FALSE
      BY <1>2 DEF Unseen
    <2>2. Promise!Close
      BY <2>1 DEF Unseen, SameHistory, Promise!Close
    <2> QED BY <2>1, <2>2 DEF PromiseStep, Promise!Next
  <1> QED BY <1>1, <1>2

\* Each form keeps the invariant and is not seen.
LEMMA FormsKeepLine ==
  ASSUME ControlInv, LifeInv, LineInv,
         QuietLine \/ MutateLine \/ SaveLine \/ KeepLine \/ UndoLine
  PROVE  LineInv' /\ PromiseStep
PROOF
  <1>1. CASE QuietLine
    <2>1. Unsaved'
      BY <1>1 DEF LineInv, Unsaved, QuietLine, SameStarts, NoStarts, Taken
    <2>2. LineInv'
      BY <1>1, <2>1 DEF LineInv, QuietLine, ClaimedFirst, ClaimedUpTo
    <2> QED BY <1>1, <2>2, UnseenStep DEF QuietLine, Unseen
  <1>2. CASE MutateLine
    <2>1. Line(mem.queue) = Line(saved.queue)
      BY <1>2, NobodyStarting DEF MutateLine, LineInv, Unsaved, NoStarts
    <2>2. Unsaved'
      BY <1>2 DEF MutateLine, Unsaved, NoStarts
    <2>3. LineInv'
      BY <1>2, <2>1, <2>2 DEF LineInv, MutateLine
    <2> QED BY <1>2, <2>3, UnseenStep DEF MutateLine, Unseen
  <1>3. CASE SaveLine \/ KeepLine
    <2>1. Line(mem.queue) = Line(saved.queue)
      BY <1>3 DEF SaveLine, KeepLine, LineInv, Unsaved
    <2>2. Unsaved'
      BY <1>3 DEF SaveLine, KeepLine, Unsaved, NoStarts
    <2>3. LineInv'
      BY <1>3, <2>1, <2>2 DEF LineInv, SaveLine, KeepLine
    <2>4. Unseen
      BY <1>3, <2>1 DEF SaveLine, KeepLine, Unseen, LifeInv, LineInv
    <2> QED BY <2>3, <2>4, UnseenStep
  <1>4. CASE UndoLine
    <2>1. Unsaved'
      BY <1>4 DEF UndoLine, Unsaved, NoStarts
    <2>2. LineInv'
      BY <1>4, <2>1 DEF LineInv, UndoLine
    <2> QED BY <1>4, <2>2, UnseenStep DEF UndoLine, Unseen
  <1> QED BY <1>1, <1>2, <1>3, <1>4

(***************************************************************************)
(* The mutations that change the line, and the saves that follow them.     *)
(***************************************************************************)
\* Of a message in a copy of the job the history says something too.
LEMMA FreshMessage ==
  ASSUME TypeOK, DataInv, NEW i \in Id, saved.receipt[i] = "none"
  PROVE  i \notin acked /\ execs[i] = 0
PROOF
  <1>1. execs[i] \in Nat /\ ~(execs[i] > 0)
    BY DEF TypeOK, HistoryTypeOK, DataInv, Good, Claimed
  <1>2. i \notin dropped
    BY DEF DataInv, Good
  <1>3. ~Waits(saved, i)
    <2> SUFFICES ASSUME NEW k \in DOMAIN saved.queue, saved.queue[k].id = i,
                        saved.queue[k].state # "processing"
                 PROVE  FALSE
      BY DEF Waits
    <2>1. saved.receipt[i] = saved.queue[k].state
      BY DEF DataInv, Good, Coherent, ItemsMatch
    <2> QED BY <2>1, JobFields DEF TypeOK, JobTypeOK, ItemState
  <1> QED BY <1>1, <1>2, <1>3 DEF DataInv, Kept, Settled

\* SubmitMessage's mutation.
LEMMA SubmitLine ==
  ASSUME TypeOK, ControlInv, LineInv, NEW i \in QueueId, Submit(i)
  PROVE  LineInv' /\ PromiseStep
PROOF
  <1>1. /\ lock.op = "free" /\ lock' = [op |-> "submit", id |-> i]
        /\ saved' = mem /\ mem' = Submitted(mem, i) /\ MaySubmit(mem, i)
        /\ UNCHANGED <<disk, run, acked, dropped, execs>>
    BY DEF Submit, Acquire, Unlocked, runVars, history
  <1>2. NoStarts /\ NoStarts' /\ Line(mem.queue) = Line(disk.queue)
    BY <1>1, NobodyStarting DEF NoStarts, Starting, LineInv, Unsaved
  <1>3. mem \in Job /\ mem.queue \in Seq(Item)
    BY JobFields DEF TypeOK, JobTypeOK
  <1>4. mem'.queue = Append(mem.queue, [id |-> i, state |-> "queued"])
    BY <1>1, <1>3 DEF Submitted, Job
  <1>5. ClaimedFirst(mem'.queue) /\ Line(mem'.queue) = Append(Line(mem.queue), i)
    BY <1>3, <1>4, LineAppended DEF LineInv
  <1>6. Unsaved'
    BY <1>1, <1>2, <1>5 DEF Unsaved, NoStarts, MaySubmit
  <1>7. LineInv'
    BY <1>1, <1>2, <1>5, <1>6 DEF LineInv
  <1> QED BY <1>1, <1>7, UnseenStep DEF Unseen, SameHistory

\* And its save: the message is accepted.
LEMMA AcceptStep ==
  ASSUME IInv, LifeInv, LineInv, lock.op = "submit", Commit,
         acked' = acked \cup {lock.id}, UNCHANGED <<dropped, execs, run>>
  PROVE  LineInv' /\ PromiseStep
PROOF
  <1>1. lock.id \in QueueId /\ lock.id \in Id
    BY DEF IInv, ControlInv, CarryInv, Id
  <1>2. /\ mem.life = "live" /\ disk' = mem /\ saved' = mem /\ mem' = mem
        /\ lock'.op = "free"
    BY DEF Commit, MaySave, NoLock
  <1>3. NoStarts /\ NoStarts'
    BY NobodyStarting DEF IInv, NoStarts, Starting
  <1>4. Unsaved'
    BY <1>2, <1>3 DEF Unsaved, NoStarts
  <1>5. LineInv'
    BY <1>2, <1>4 DEF LineInv
  <1>6. disk.life = "live"
    BY <1>2 DEF LifeInv
  <1>7. lock.id \notin acked /\ execs[lock.id] = 0
    BY <1>1, FreshMessage DEF IInv, LineInv, Unsaved
  <1>8. Line(disk'.queue) = Append(Line(disk.queue), lock.id)
    BY <1>2 DEF LineInv, Unsaved
  <1>9. Promise!Accept(lock.id)
    BY <1>1, <1>2, <1>6, <1>7, <1>8 DEF Promise!Accept
  <1> QED BY <1>1, <1>5, <1>6, <1>9 DEF PromiseStep, Promise!Next

\* DeleteQueuedMessage's mutation.
LEMMA DeleteLine ==
  ASSUME TypeOK, ControlInv, LineInv, NEW k \in DOMAIN mem.queue, DeleteQueuedMessage(k)
  PROVE  LineInv' /\ PromiseStep
PROOF
  <1>1. /\ lock.op = "free" /\ lock' = [op |-> "delete", id |-> mem.queue[k].id]
        /\ saved' = mem /\ mem' = Deleted(mem, k) /\ MayDelete(mem, k)
        /\ UNCHANGED <<disk, run, acked, dropped, execs>>
    BY DEF DeleteQueuedMessage, Acquire, Unlocked, runVars, history
  <1>2. NoStarts /\ NoStarts' /\ Line(mem.queue) = Line(disk.queue)
    BY <1>1, NobodyStarting DEF NoStarts, Starting, LineInv, Unsaved
  <1>3. mem \in Job /\ mem.queue \in Seq(Item)
    BY JobFields DEF TypeOK, JobTypeOK
  <1>4. mem'.queue = RemoveAt(mem.queue, k)
    BY <1>1, <1>3 DEF Deleted, Job
  <1>5. /\ ClaimedFirst(mem'.queue)
        /\ \E l \in DOMAIN Line(mem.queue) :
             /\ Line(mem.queue)[l] = mem.queue[k].id
             /\ Line(mem'.queue) = RemoveAt(Line(mem.queue), l)
    BY <1>1, <1>3, <1>4, LineWithdrawn DEF LineInv, MayDelete
  <1>6. Unsaved'
    BY <1>1, <1>2, <1>5 DEF Unsaved, NoStarts
  <1>7. LineInv'
    BY <1>1, <1>2, <1>5, <1>6 DEF LineInv
  <1> QED BY <1>1, <1>7, UnseenStep DEF Unseen, SameHistory

\* And its save: the message is withdrawn.
LEMMA WithdrawStep ==
  ASSUME IInv, LifeInv, LineInv, lock.op = "delete", Commit,
         dropped' = dropped \cup {lock.id}, UNCHANGED <<acked, execs, run>>
  PROVE  LineInv' /\ PromiseStep
PROOF
  <1>1. /\ mem.life = "live" /\ disk' = mem /\ saved' = mem /\ mem' = mem
        /\ lock'.op = "free"
    BY DEF Commit, MaySave, NoLock
  <1>2. NoStarts /\ NoStarts'
    BY NobodyStarting DEF IInv, NoStarts, Starting
  <1>3. Unsaved'
    BY <1>1, <1>2 DEF Unsaved, NoStarts
  <1>4. LineInv'
    BY <1>1, <1>3 DEF LineInv
  <1>5. disk.life = "live"
    BY <1>1 DEF LifeInv
  <1>6. PICK k \in DOMAIN Line(disk.queue) :
          /\ Line(disk.queue)[k] = lock.id
          /\ Line(mem.queue) = RemoveAt(Line(disk.queue), k)
    BY DEF LineInv, Unsaved
  <1>7. Promise!Withdraw(k)
    BY <1>1, <1>5, <1>6 DEF Promise!Withdraw, Promise!RemoveAt, RemoveAt
  <1>8. Promise!Next
    BY <1>5, <1>6, <1>7 DEF Promise!Next
  <1> QED BY <1>4, <1>8 DEF PromiseStep

\* SendMessage's claim.
LEMMA BeginStartLine ==
  ASSUME TypeOK, ControlInv, LineInv, NEW op \in {"direct", "dispatch"}, NEW i \in Id,
         NEW r \in Run, BeginStart(op, i, r), SameHistory, UNCHANGED disk
  PROVE  LineInv' /\ PromiseStep
PROOF
  <1>1. /\ lock.op = "free" /\ lock'.op = op /\ saved' = mem
        /\ mem' = Started(mem, i) /\ MayStart(mem, i)
    BY DEF BeginStart, Acquire, Unlocked
  <1>2. /\ run'[r].id = i /\ \A s \in Run : s # r => run'[s] = run[s]
        /\ run'[r].pc = "starting"
    BY DEF BeginStart, TypeOK, RunTypeOK, IdleRun
  <1>3. NoStarts /\ Line(mem.queue) = Line(disk.queue)
    BY <1>1, NobodyStarting DEF NoStarts, LineInv, Unsaved
  <1>4. mem \in Job /\ mem.queue \in Seq(Item)
    BY JobFields DEF TypeOK, JobTypeOK
  <1>5. ClaimedFirst(mem'.queue) /\ Taken(i)'
    <2>1. CASE mem.receipt[i] = "queued"
      <3>1. mem'.queue = SetFirstWaiting(mem.queue, "processing") /\ HeadIs(mem.queue, i)
        BY <1>1, <1>4, <2>1 DEF Started, MayStart, Job
      <3>2. /\ ClaimedFirst(mem'.queue)
            /\ Line(mem.queue) # <<>> /\ Head(Line(mem.queue)) = i
            /\ Line(mem'.queue) = Tail(Line(mem.queue))
        BY <1>4, <3>1, LineClaimed DEF LineInv
      <3> QED BY <1>1, <3>2 DEF Taken
    <2>2. CASE mem.receipt[i] # "queued"
      <3>1. mem'.queue = mem.queue /\ mem.receipt[i] = "none"
        BY <1>1, <1>4, <2>2 DEF Started, MayStart, Job
      <3> QED BY <1>1, <3>1 DEF Taken, LineInv
    <2> QED BY <2>1, <2>2
  <1>6. \A s \in Run : Starting(s)' => s = r
    BY <1>2, <1>3 DEF NoStarts, Starting
  <1>7. Unsaved'
    BY <1>1, <1>2, <1>5, <1>6 DEF Unsaved, NoStarts, Starting
  <1>8. LineInv'
    BY <1>1, <1>3, <1>5, <1>7 DEF LineInv
  <1> QED BY <1>1, <1>8, UnseenStep DEF Unseen, SameHistory

\* And its save: a queued message is served from the head of the line, one whose
\* submission was never accepted is served for the first time, and a message of the
\* IM gateway is not in the line.
LEMMA ServeStep ==
  ASSUME IInv, LifeInv, LineInv, NEW r \in Run, StartCommitted(r), UNCHANGED <<acked, dropped>>
  PROVE  LineInv' /\ PromiseStep
PROOF
  <1> DEFINE i == run[r].id
  <1>1. Starting(r) /\ i \in Id /\ \A s \in Run : Starting(s) => s = r
    BY DEF StartCommitted, Starting, IInv, ControlInv, LockInv, CarryInv
  <1>2. /\ mem.life = "live" /\ disk' = mem /\ saved' = mem /\ mem' = mem
        /\ lock'.op = "free" /\ execs' = [execs EXCEPT ![i] = @ + 1]
    BY DEF StartCommitted, Commit, MaySave, NoLock
  <1>3. NoStarts'
    BY <1>1 DEF StartCommitted, Starting, NoStarts, IInv, TypeOK, RunTypeOK, RunRecord
  <1>4. Unsaved'
    BY <1>2, <1>3 DEF Unsaved, NoStarts
  <1>5. LineInv'
    BY <1>2, <1>4 DEF LineInv
  <1>6. disk.life = "live"
    BY <1>2 DEF LifeInv
  <1>7. Taken(i) /\ Line(saved.queue) = Line(disk.queue) /\ execs \in [Id -> Nat]
    BY <1>1 DEF LineInv, Unsaved, IInv, TypeOK, HistoryTypeOK
  <1>8. saved.queue \in Seq(Item)
    BY JobFields DEF IInv, TypeOK, JobTypeOK
  <1> HIDE DEF i
  <1>9. CASE i \notin QueueId
    <2>1. Line(mem.queue) = Line(disk.queue)
      <3>1. Line(saved.queue) \in Seq(QueueId)
        BY <1>8, LineBehind DEF LineInv, ClaimedFirst
      <3>2. Line(saved.queue) # <<>> => Head(Line(saved.queue)) \in QueueId
        BY <3>1, HeadTailProperties
      <3> QED BY <1>7, <1>9, <3>2 DEF Taken
    <2>2. [m \in QueueId |-> execs'[m]] = [m \in QueueId |-> execs[m]]
      BY <1>2, <1>7, <1>9 DEF Id
    <2>3. (disk'.life = "live") = (disk.life = "live")
      BY <1>2, <1>6
    <2>4. PromiseStep
      BY <1>2, <2>1, <2>2, <2>3 DEF PromiseStep, Promise!promise
    <2> QED BY <1>5, <2>4
  <1>10. CASE i \in QueueId
    <2> DEFINE served == [m \in QueueId |-> execs[m]]
    <2>1. [m \in QueueId |-> execs'[m]] = [served EXCEPT ![i] = @ + 1]
      BY <1>2, <1>7, <1>10 DEF Id
    <2>2. CASE /\ Line(saved.queue) # <<>> /\ i = Head(Line(saved.queue))
               /\ Line(mem.queue) = Tail(Line(saved.queue))
      <3>1. Promise!Serve
        BY <1>2, <1>6, <1>7, <2>1, <2>2 DEF Promise!Serve
      <3> QED BY <1>5, <1>6, <3>1 DEF PromiseStep, Promise!Next
    <2>3. CASE saved.receipt[i] = "none" /\ Line(mem.queue) = Line(saved.queue)
      <3>1. i \notin acked /\ execs[i] = 0
        BY <1>1, <2>3, FreshMessage DEF IInv, i
      <3>2. served[i] = 0
        BY <1>10, <3>1
      <3>3. served[i] + 1 = 1
        BY <3>2
      <3>4. [m \in QueueId |-> execs'[m]] = [served EXCEPT ![i] = 1]
        BY <2>1, <3>3
      <3>5. PICK m \in QueueId : m = i
        BY <1>10
      <3>6. Promise!ServeRefused(m)
        BY <1>2, <1>6, <1>7, <2>3, <3>1, <3>2, <3>4, <3>5 DEF Promise!ServeRefused
      <3>7. Promise!Next
        BY <1>6, <3>6 DEF Promise!Next
      <3> QED BY <1>5, <3>7 DEF PromiseStep
    <2> QED BY <1>7, <1>10, <2>2, <2>3 DEF Taken
  <1> QED BY <1>9, <1>10

\* The other mutations leave the queue, or its line, as it was.
LEMMA MutationsKeepLine ==
  ASSUME NEW j \in Job, ClaimedFirst(j.queue)
  PROVE  /\ \A o, p : Terminated(j, o, p).queue = j.queue
         /\ Resumed(j).queue = j.queue /\ Stopped(j).queue = j.queue
         /\ Reconciled(j).queue = j.queue
         /\ \A l : [j EXCEPT !.life = l].queue = j.queue
         /\ \A i : /\ ClaimedFirst(Blocked(j, i).queue)
                   /\ Line(Blocked(j, i).queue) = Line(j.queue)
         /\ \A k \in DOMAIN j.queue :
              j.queue[k].state = "processing" =>
                /\ ClaimedFirst(WithoutItem(j, k).queue)
                /\ Line(WithoutItem(j, k).queue) = Line(j.queue)
         /\ HeadInterrupted(j) =>
              /\ ClaimedFirst(WithoutInterrupted(j).queue)
              /\ Line(WithoutInterrupted(j).queue) = Line(j.queue)
PROOF
  <1>0. j.queue \in Seq(Item)
    BY JobFields
  <1>1. /\ \A o, p : Terminated(j, o, p).queue = j.queue
        /\ Resumed(j).queue = j.queue /\ Stopped(j).queue = j.queue
        /\ Reconciled(j).queue = j.queue
        /\ \A l : [j EXCEPT !.life = l].queue = j.queue
    BY DEF Terminated, Resumed, Stopped, Reconciled, Job
  <1>2. \A i : Blocked(j, i).queue = SetFirstWaiting(j.queue, "blocked")
    BY DEF Blocked, Job
  <1>3. \A k : WithoutItem(j, k).queue = RemoveAt(j.queue, k)
    BY DEF WithoutItem, Job
  <1>4. WithoutInterrupted(j).queue = Tail(j.queue)
    BY DEF WithoutInterrupted, Job
  <1>5. \A i : /\ ClaimedFirst(Blocked(j, i).queue)
               /\ Line(Blocked(j, i).queue) = Line(j.queue)
    BY <1>0, <1>2, LineBlocked
  <1>6. ASSUME NEW k \in DOMAIN j.queue, j.queue[k].state = "processing"
        PROVE  /\ ClaimedFirst(WithoutItem(j, k).queue)
               /\ Line(WithoutItem(j, k).queue) = Line(j.queue)
    BY <1>0, <1>3, <1>6, LineCompleted
  <1>7. ASSUME HeadInterrupted(j)
        PROVE  /\ ClaimedFirst(WithoutInterrupted(j).queue)
               /\ Line(WithoutInterrupted(j).queue) = Line(j.queue)
    BY <1>0, <1>4, <1>7, LineRecovered DEF HeadInterrupted
  <1> QED BY <1>1, <1>5, <1>6, <1>7

\* Every step keeps the invariant, and is one step of the abstract line or none.
LEMMA LineStep ==
  ASSUME IInv, LifeInv, LineInv, [Next]_vars
  PROVE  LineInv' /\ PromiseStep
PROOF
  <1> DEFINE Goal == LineInv' /\ PromiseStep
  <1>0. TypeOK /\ ControlInv
    BY DEF IInv
  <1>a. /\ mem \in Job /\ disk \in Job /\ saved \in Job
        /\ run \in [Run -> RunRecord] /\ \A r \in Run : run[r] \in RunRecord
        /\ ClaimedFirst(mem.queue) /\ ClaimedFirst(disk.queue)
    BY <1>0 DEF TypeOK, JobTypeOK, RunTypeOK, LineInv
  <1>b. QuietLine \/ MutateLine \/ SaveLine \/ KeepLine \/ UndoLine => Goal
    BY <1>0, FormsKeepLine
  <1>c. lock.op \notin {"direct", "dispatch"} => NoStarts
    BY <1>0, NobodyStarting DEF NoStarts
  <1>d. /\ \A r \in Run : Saving(r) => lock.op = "run"
        /\ \A d \in Dispatcher : disp[d].pc = "blockSave" => lock.op = "dispatch" /\ NoStarts
    BY <1>0 DEF ControlInv, LockInv, Holding, NoStarts
  <1>e. boot # "up" => /\ lock.op = "free" /\ NoStarts
    BY <1>0 DEF ControlInv, BootInv, NoLock, NoStarts, Starting
  <1>1. ASSUME Kick
         PROVE  Goal
    <2>1. SameStarts
      BY <1>1, <1>a DEF Kick, runVars, SameStarts, Starting, RunRecord
    <2>2. QuietLine
      BY <1>1, <2>1 DEF Kick, QuietLine, SameHistory, jobVars, history
    <2> QED BY <2>2, <1>b
  <1>2. ASSUME JobStop
         PROVE  Goal
    <2>1. SameStarts
      BY <1>2, <1>a DEF JobStop, CancelRegistered, SameStarts, Starting, RunRecord
    <2>2. QuietLine
      BY <1>2, <2>1 DEF JobStop, QuietLine, SameHistory, jobVars, history
    <2> QED BY <2>2, <1>b
  <1>3. ASSUME StopDeleted
         PROVE  Goal
    <2>1. SameStarts
      BY <1>3, <1>a DEF StopDeleted, CancelRegistered, SameStarts, Starting, RunRecord
    <2>2. QuietLine
      BY <1>3, <2>1 DEF StopDeleted, QuietLine, SameHistory, jobVars, history
    <2> QED BY <2>2, <1>b
  <1>4. ASSUME NEW d \in Dispatcher, DispCheck(d)
         PROVE  Goal
    <2>1. SameStarts
      BY <1>4, <1>a DEF DispCheck, runVars, SameStarts, Starting, RunRecord
    <2>2. QuietLine
      BY <1>4, <2>1 DEF DispCheck, QuietLine, SameHistory, jobVars, history
    <2> QED BY <2>2, <1>b
  <1>5. ASSUME NEW d \in Dispatcher, DispDones(d)
         PROVE  Goal
    <2>1. SameStarts
      BY <1>5, <1>a DEF DispDones, runVars, SameStarts, Starting, RunRecord
    <2>2. QuietLine
      BY <1>5, <2>1 DEF DispDones, QuietLine, SameHistory, jobVars, history
    <2> QED BY <2>2, <1>b
  <1>6. ASSUME NEW d \in Dispatcher, DispPrepare(d)
         PROVE  Goal
    <2>1. SameStarts
      BY <1>6, <1>a DEF DispPrepare, runVars, SameStarts, Starting, RunRecord
    <2>2. QuietLine
      BY <1>6, <2>1 DEF DispPrepare, QuietLine, SameHistory, jobVars, history
    <2> QED BY <2>2, <1>b
  <1>7. ASSUME NEW d \in Dispatcher, DispRefused(d)
         PROVE  Goal
    <2>1. SameStarts
      BY <1>7, <1>a DEF DispRefused, runVars, SameStarts, Starting, RunRecord
    <2>2. QuietLine
      BY <1>7, <2>1 DEF DispRefused, QuietLine, SameHistory, jobVars, history
    <2> QED BY <2>2, <1>b
  <1>8. ASSUME NEW d \in Dispatcher, DispFinish(d)
         PROVE  Goal
    <2>1. SameStarts
      BY <1>8, <1>a DEF DispFinish, runVars, SameStarts, Starting, RunRecord
    <2>2. QuietLine
      BY <1>8, <2>1 DEF DispFinish, QuietLine, SameHistory, jobVars, history
    <2> QED BY <2>2, <1>b
  <1>9. ASSUME NEW d \in Dispatcher, DispRecheck(d)
         PROVE  Goal
    <2>1. SameStarts
      BY <1>9, <1>a DEF DispRecheck, runVars, SameStarts, Starting, RunRecord
    <2>2. QuietLine
      BY <1>9, <2>1 DEF DispRecheck, QuietLine, SameHistory, jobVars, history
    <2> QED BY <2>2, <1>b
  <1>10. ASSUME NEW r \in Run, RunBody(r)
         PROVE  Goal
    <2>1. SameStarts
      BY <1>10, <1>a DEF RunBody, RunGoto, SameStarts, Starting, RunRecord
    <2>2. QuietLine
      BY <1>10, <2>1 DEF RunBody, QuietLine, SameHistory, jobVars, history
    <2> QED BY <2>2, <1>b
  <1>11. ASSUME NEW r \in Run, RunExit(r)
         PROVE  Goal
    <2>1. SameStarts
      BY <1>11, <1>a DEF RunExit, RunGoto, SameStarts, Starting, RunRecord
    <2>2. QuietLine
      BY <1>11, <2>1 DEF RunExit, QuietLine, SameHistory, jobVars, history
    <2> QED BY <2>2, <1>b
  <1>12. ASSUME NEW r \in Run, RunClear(r)
         PROVE  Goal
    <2>1. SameStarts
      BY <1>12, <1>a DEF RunClear, RunGoto, SameStarts, Starting, RunRecord
    <2>2. QuietLine
      BY <1>12, <2>1 DEF RunClear, QuietLine, SameHistory, jobVars, history
    <2> QED BY <2>2, <1>b
  <1>13. ASSUME NEW r \in Run, RunFinish(r)
         PROVE  Goal
    <2>1. SameStarts
      BY <1>13, <1>a DEF RunFinish, RunGoto, IdleRun, SameStarts, Starting, RunRecord
    <2>2. QuietLine
      BY <1>13, <2>1 DEF RunFinish, QuietLine, SameHistory, jobVars, history
    <2> QED BY <2>2, <1>b
  <1>14. ASSUME NEW r \in Run, RunRecheck(r)
         PROVE  Goal
    <2>1. SameStarts
      BY <1>14, <1>a DEF RunRecheck, IdleRun, SameStarts, Starting, RunRecord
    <2>2. QuietLine
      BY <1>14, <2>1 DEF RunRecheck, QuietLine, SameHistory, jobVars, history
    <2> QED BY <2>2, <1>b
  <1>15. ASSUME NEW i \in QueueId, Submit(i)
         PROVE  Goal
    BY <1>15, <1>0, SubmitLine
  <1>16. ASSUME NEW k \in DOMAIN mem.queue, DeleteQueuedMessage(k)
         PROVE  Goal
    BY <1>16, <1>0, DeleteLine
  <1>17. ASSUME ContinueMessageQueue
         PROVE  Goal
    <2>1. SameStarts /\ UNCHANGED run
      BY <1>17 DEF ContinueMessageQueue, runVars, SameStarts, Starting
    <2>2. QuietLine \/ MutateLine
      BY <1>17, <2>1, <1>a, <1>c, MutationsKeepLine DEF ContinueMessageQueue, Acquire, Unlocked,
         QuietLine, MutateLine, SameHistory, NoStarts, Starting, history
    <2> QED BY <2>2, <1>b
  <1>18. ASSUME PauseMessageQueueForStop
         PROVE  Goal
    <2>1. SameStarts /\ UNCHANGED run
      BY <1>18 DEF PauseMessageQueueForStop, runVars, SameStarts, Starting
    <2>2. QuietLine \/ MutateLine
      BY <1>18, <2>1, <1>a, <1>c, MutationsKeepLine DEF PauseMessageQueueForStop, Acquire, Unlocked,
         QuietLine, MutateLine, SameHistory, NoStarts, Starting, history
    <2> QED BY <2>2, <1>b
  <1>19. ASSUME NEW d \in Dispatcher, DispBlock(d)
         PROVE  Goal
    <2>1. SameStarts /\ UNCHANGED run
      BY <1>19 DEF DispBlock, runVars, SameStarts, Starting
    <2>2. QuietLine \/ MutateLine
      BY <1>19, <2>1, <1>a, <1>c, MutationsKeepLine DEF DispBlock, Acquire, Unlocked,
         QuietLine, MutateLine, SameHistory, NoStarts, Starting, history
    <2> QED BY <2>2, <1>b
  <1>20. ASSUME NEW r \in Run, RunTerm(r)
         PROVE  Goal
    <2>1. NoStarts'
      BY <1>20, <1>a, <1>c DEF RunTerm, RunGoto, Acquire, Unlocked, NoStarts, Starting, RunRecord
    <2>2. MutateLine
      BY <1>20, <2>1, <1>a, MutationsKeepLine DEF RunTerm, Acquire, Unlocked, MutateLine,
         SameHistory
    <2> QED BY <2>2, <1>b
  <1>21. ASSUME NEW r \in Run, RunComplete(r)
         PROVE  Goal
    <2>1. SameStarts /\ (lock.op = "free" => NoStarts')
      BY <1>21, <1>a, <1>c DEF RunComplete, RunGoto, NoStarts, SameStarts, Starting, RunRecord
    <2>2. QuietLine \/ MutateLine
      BY <1>21, <2>1, <1>a, MutationsKeepLine DEF RunComplete, Acquire, Unlocked,
         QuietLine, MutateLine, SameHistory, history
    <2> QED BY <2>2, <1>b
  <1>22. ASSUME NEW r \in Run, RunClearPause(r)
         PROVE  Goal
    <2>1. SameStarts /\ (lock.op = "free" => NoStarts')
      BY <1>22, <1>a, <1>c DEF RunClearPause, RunGoto, NoStarts, SameStarts, Starting, RunRecord
    <2>2. QuietLine \/ MutateLine
      BY <1>22, <2>1, <1>a, MutationsKeepLine DEF RunClearPause, Acquire, Unlocked,
         QuietLine, MutateLine, SameHistory, history
    <2> QED BY <2>2, <1>b
  <1>23. ASSUME SubmitSaved
         PROVE  Goal
    <2>1. lock.op = "submit" /\ UNCHANGED <<run, dropped, execs>>
      BY <1>23 DEF SubmitSaved, runVars
    <2>2. NoStarts'
      BY <2>1, <1>c DEF NoStarts, Starting
    <2>3. CASE Rollback("submit") /\ UNCHANGED acked
      <3>1. UndoLine
        BY <2>1, <2>2, <2>3 DEF UndoLine, Rollback, NoLock, SameHistory
      <3> QED BY <3>1, <1>b
    <2>4. CASE Commit /\ acked' = acked \cup {lock.id}
      BY <2>1, <2>4, AcceptStep
    <2> QED BY <1>23, <2>3, <2>4 DEF SubmitSaved
  <1>24. ASSUME DeleteSaved
         PROVE  Goal
    <2>1. lock.op = "delete" /\ UNCHANGED <<run, acked, execs>>
      BY <1>24 DEF DeleteSaved, runVars
    <2>2. NoStarts'
      BY <2>1, <1>c DEF NoStarts, Starting
    <2>3. CASE Rollback("delete") /\ UNCHANGED dropped
      <3>1. UndoLine
        BY <2>1, <2>2, <2>3 DEF UndoLine, Rollback, NoLock, SameHistory
      <3> QED BY <3>1, <1>b
    <2>4. CASE Commit /\ dropped' = dropped \cup {lock.id}
      BY <2>1, <2>4, WithdrawStep
    <2> QED BY <1>24, <2>3, <2>4 DEF DeleteSaved
  <1>25. ASSUME ContinueSaved
         PROVE  Goal
    <2>1. NoStarts /\ NoStarts'
      BY <1>25, <1>c DEF ContinueSaved, runVars, NoStarts, Starting
    <2>2. SaveLine \/ UndoLine
      BY <1>25, <2>1 DEF ContinueSaved, Commit, MaySave, Rollback, NoLock, SaveLine, UndoLine,
         SameHistory
    <2> QED BY <2>2, <1>b
  <1>26. ASSUME PauseSaved
         PROVE  Goal
    <2>1. NoStarts /\ NoStarts'
      BY <1>26, <1>c DEF PauseSaved, runVars, NoStarts, Starting
    <2>2. SaveLine \/ UndoLine
      BY <1>26, <2>1 DEF PauseSaved, Commit, MaySave, Rollback, NoLock, SaveLine, UndoLine,
         SameHistory
    <2> QED BY <2>2, <1>b
  <1>27. ASSUME NEW d \in Dispatcher, DispBlockSaved(d)
         PROVE  Goal
    <2>1. NoStarts /\ NoStarts' /\ lock.op = "dispatch"
      BY <1>27, <1>d DEF DispBlockSaved, runVars, NoStarts, Starting
    <2>2. SaveLine \/ UndoLine
      BY <1>27, <2>1 DEF DispBlockSaved, Commit, MaySave, Rollback, NoLock, SaveLine, UndoLine,
         SameHistory, history
    <2> QED BY <2>2, <1>b
  <1>28. ASSUME NEW r \in Run, RunTermSaved(r)
         PROVE  Goal
    <2>1. lock.op = "run"
      BY <1>28, <1>d DEF RunTermSaved, Saving
    <2>2. NoStarts /\ NoStarts'
      BY <1>28, <2>1, <1>a, <1>c DEF RunTermSaved, RunGoto, NoStarts, Starting, RunRecord
    <2>3. SaveLine \/ KeepLine
      BY <1>28, <2>1, <2>2 DEF RunTermSaved, Commit, MaySave, KeepUnsaved, NoLock, SaveLine, KeepLine,
         SameHistory, history
    <2> QED BY <2>3, <1>b
  <1>29. ASSUME NEW r \in Run, RunCompleteSaved(r)
         PROVE  Goal
    <2>1. lock.op = "run"
      BY <1>29, <1>d DEF RunCompleteSaved, Saving
    <2>2. NoStarts /\ NoStarts'
      BY <1>29, <2>1, <1>a, <1>c DEF RunCompleteSaved, RunGoto, NoStarts, Starting, RunRecord
    <2>3. SaveLine \/ UndoLine
      BY <1>29, <2>1, <2>2 DEF RunCompleteSaved, Commit, MaySave, Rollback, NoLock, SaveLine, UndoLine,
         SameHistory, history
    <2> QED BY <2>3, <1>b
  <1>30. ASSUME NEW r \in Run, RunClearPauseSaved(r)
         PROVE  Goal
    <2>1. lock.op = "run"
      BY <1>30, <1>d DEF RunClearPauseSaved, Saving
    <2>2. NoStarts /\ NoStarts'
      BY <1>30, <2>1, <1>a, <1>c DEF RunClearPauseSaved, RunGoto, NoStarts, Starting, RunRecord
    <2>3. SaveLine \/ UndoLine
      BY <1>30, <2>1, <2>2 DEF RunClearPauseSaved, Commit, MaySave, Rollback, NoLock, SaveLine, UndoLine,
         SameHistory, history
    <2> QED BY <2>3, <1>b
  <1>31. ASSUME NEW i \in DirectId, NEW r \in Run, SendDirect(i, r)
         PROVE  Goal
    <2>1. i \in Id
      BY DEF Id
    <2> QED BY <1>31, <2>1, <1>0, BeginStartLine DEF SendDirect, history, SameHistory
  <1>32. ASSUME NEW d \in Dispatcher, NEW r \in Run, DispSend(d, r)
         PROVE  Goal
    <2>1. disp[d].item \in Id
      BY <1>32, <1>0 DEF DispSend, ControlInv, CarryInv, Id
    <2> QED BY <1>32, <2>1, <1>0, BeginStartLine DEF DispSend, history, SameHistory
  <1>33. ASSUME NEW r \in Run, StartAborted(r), UNCHANGED <<acked, dropped>>
         PROVE  Goal
    <2>1. NoStarts'
      BY <1>33, <1>0, <1>a DEF StartAborted, ControlInv, LockInv, NoStarts, Starting, IdleRun
    <2>2. UndoLine
      BY <1>33, <2>1 DEF StartAborted, Rollback, NoLock, UndoLine, SameHistory
    <2> QED BY <2>2, <1>b
  <1>34. ASSUME NEW r \in Run, DirectSaved(r)
         PROVE  Goal
    BY <1>34, <1>33, ServeStep DEF DirectSaved
  <1>35. ASSUME NEW d \in Dispatcher, NEW r \in Run, DispSendSaved(d, r)
         PROVE  Goal
    BY <1>35, <1>33, ServeStep DEF DispSendSaved
  <1>36. ASSUME MarkDeleted
         PROVE  Goal
    <2>1. /\ lock.op = "free" /\ UNCHANGED <<lock, run>> /\ SameHistory
          /\ mem' = [mem EXCEPT !.life = "deleted"] /\ saved' = mem'
          /\ disk' = [mem EXCEPT !.life = "deleted"]
      BY <1>36 DEF MarkDeleted, Unlocked, runVars, history, SameHistory
    <2>2. NoStarts /\ NoStarts' /\ Line(mem.queue) = Line(disk.queue)
      BY <2>1, <1>c DEF NoStarts, Starting, LineInv, Unsaved
    <2>3. mem'.queue = mem.queue /\ disk'.queue = mem.queue /\ disk'.life = "deleted"
      BY <2>1, <1>a DEF Job
    <2>4. LineInv'
      BY <2>1, <2>2, <2>3, <1>a DEF LineInv, Unsaved, NoStarts
    <2> QED BY <2>1, <2>2, <2>3, <2>4, UnseenStep DEF Unseen
  <1>37. ASSUME RemoveJob
         PROVE  Goal
    <2>1. /\ lock.op = "free" /\ UNCHANGED <<lock, run>> /\ SameHistory
          /\ mem' = [mem EXCEPT !.life = "removed"] /\ saved' = mem'
          /\ disk' = [disk EXCEPT !.life = "removed"]
      BY <1>37 DEF RemoveJob, Unlocked, runVars, history, SameHistory
    <2>2. NoStarts /\ NoStarts' /\ Line(mem.queue) = Line(disk.queue)
      BY <2>1, <1>c DEF NoStarts, Starting, LineInv, Unsaved
    <2>3. mem'.queue = mem.queue /\ disk'.queue = disk.queue /\ disk'.life = "removed"
      BY <2>1, <1>a DEF Job
    <2>4. LineInv'
      BY <2>1, <2>2, <2>3, <1>a DEF LineInv, Unsaved, NoStarts
    <2> QED BY <2>1, <2>2, <2>3, <2>4, UnseenStep DEF Unseen
  <1>38. ASSUME Crash
         PROVE  Goal
    <2>1. /\ mem' = disk /\ saved' = disk /\ disk' = disk /\ lock'.op = "free"
          /\ NoStarts' /\ SameHistory
      BY <1>38 DEF Crash, NoLock, IdleRun, NoStarts, Starting, SameHistory
    <2>2. LineInv'
      BY <2>1, <1>a DEF LineInv, Unsaved, NoStarts
    <2> QED BY <2>1, <2>2, UnseenStep DEF Unseen
  <1>39. ASSUME Load
         PROVE  Goal
    <2>1. /\ lock'.op = "free" /\ NoStarts' /\ SameHistory /\ saved' = mem'
      BY <1>39, <1>e DEF Load, runVars, history, NoStarts, Starting, SameHistory
    <2>2. mem'.queue = disk.queue /\ disk'.queue = disk.queue
      <3>1. /\ mem' = Reconciled(disk) \/ mem' = [disk EXCEPT !.life = "removed"]
            /\ disk' = disk \/ disk' = mem'
        BY <1>39 DEF Load
      <3>2. mem'.queue = disk.queue
        BY <3>1, <1>a DEF Reconciled, Job
      <3> QED BY <3>1, <3>2
    <2>3. disk'.life = "live" => disk.life = "live"
      BY <1>39, <1>a DEF Load, Job
    <2>4. LineInv'
      BY <2>1, <2>2, <1>a DEF LineInv, Unsaved, NoStarts
    <2> QED BY <2>1, <2>2, <2>3, <2>4, UnseenStep DEF Unseen
  <1>40. ASSUME SetMessageQueueDispatcher
         PROVE  Goal
    <2>1. /\ lock.op = "free" /\ lock'.op = "free" /\ NoStarts /\ NoStarts'
          /\ SameHistory /\ saved' = mem'
      BY <1>40, <1>e DEF SetMessageQueueDispatcher, runVars, history, NoStarts, Starting,
         SameHistory
    <2>2. Line(mem.queue) = Line(disk.queue)
      BY <2>1 DEF LineInv, Unsaved
    <2>3. /\ ClaimedFirst(mem'.queue) /\ Line(mem'.queue) = Line(mem.queue)
          /\ ClaimedFirst(disk'.queue) /\ Line(disk'.queue) = Line(disk.queue)
      BY <1>40, <2>2, <1>a, MutationsKeepLine DEF SetMessageQueueDispatcher
    <2>4. disk'.life = "live" => disk.life = "live"
      BY <1>40 DEF SetMessageQueueDispatcher, LifeInv
    <2>5. LineInv'
      BY <2>1, <2>2, <2>3 DEF LineInv, Unsaved, NoStarts
    <2> QED BY <2>1, <2>3, <2>4, <2>5, UnseenStep DEF Unseen
  <1>41. CASE UNCHANGED vars
    <2>1. QuietLine
      BY <1>41 DEF QuietLine, SameStarts, SameHistory, Starting, vars, jobVars, runVars,
         dispVars, userVars, history
    <2> QED BY <2>1, <1>b
  <1> QED
    BY <1>1, <1>2, <1>3, <1>4, <1>5, <1>6, <1>7, <1>8, <1>9, <1>10, <1>11,
       <1>12, <1>13, <1>14, <1>15, <1>16, <1>17, <1>18, <1>19, <1>20, <1>21, <1>22,
       <1>23, <1>24, <1>25, <1>26, <1>27, <1>28, <1>29, <1>30, <1>31, <1>32, <1>33,
       <1>34, <1>35, <1>36, <1>37, <1>38, <1>39, <1>40, <1>41 DEF Next,
       UserStep, HandlerStep, DispatcherStep, RunStep, BootStep

\* JobQueue implements MessageService: whatever saves fail and whenever the process
\* crashes, acceptance, withdrawal and service take effect with the save of job.json,
\* at once, in the order of the line, and never on a deleted Job.
THEOREM MessageServiceImplemented == Spec => ImplementsMessageService
PROOF
  <1>1. ASSUME Init
        PROVE  LineInv /\ LifeInv /\ Promise!Init
    <2>1. ClaimedUpTo(<<>>, 0) /\ <<>> \in Seq(Item)
      BY EmptySeq DEF ClaimedUpTo
    <2>2. ClaimedFirst(<<>>) /\ Line(<<>>) = <<>>
      <3>1. PICK q \in Seq(Item) : q = <<>> /\ ClaimedUpTo(q, 0)
        BY <2>1
      <3>2. Line(q) \in Seq(QueueId) /\ Len(Line(q)) = Len(q) - 0
        BY <3>1, LineBehind
      <3>3. Len(q) - 0 = 0
        BY <3>1, EmptySeq
      <3> QED BY <3>1, <3>2, <3>3, EmptySeq DEF ClaimedFirst
    <2>3. /\ mem.queue = <<>> /\ disk.queue = <<>> /\ saved.queue = <<>>
          /\ disk.life = "live" /\ lock.op = "free" /\ NoStarts
      BY <1>1 DEF Init, NewJob, NoLock, NoStarts, Starting, IdleRun
    <2>4. LineInv
      BY <2>2, <2>3 DEF LineInv, Unsaved, NoStarts
    <2>5. [m \in QueueId |-> execs[m]] = [m \in QueueId |-> 0]
      BY <1>1 DEF Init, Id
    <2>6. Promise!Init
      BY <1>1, <2>2, <2>3, <2>5 DEF Init, Promise!Init
    <2> QED BY <2>3, <2>4, <2>6 DEF LifeInv
  <1>2. ASSUME IInv, LifeInv, LineInv, [Next]_vars
        PROVE  LineInv' /\ LifeInv' /\ [Promise!Next]_(Promise!promise)
    BY <1>2, LineStep, LifeStep DEF IInv, PromiseStep
  <1> QED BY <1>1, <1>2, Inductive, PTL DEF Spec, ImplementsMessageService, Promise!Spec
=============================================================================
