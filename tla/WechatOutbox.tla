---------------------------- MODULE WechatOutbox ----------------------------
(* The WeChat outbox (services/wechatoutbox, repository/wechat_outbox.go):   *)
(* requests save one task per recipient, and a single worker sends the tasks *)
(* in the order of their creation, chunk after chunk, ten seconds apart,     *)
(* saving its progress after every chunk.  Saves and sends fail, a send that *)
(* fails may have been delivered, and the process restarts at any step.      *)
EXTENDS Naturals, Sequences, FiniteSets, SequencesExt

CONSTANTS
    Recipients,     \* of a request that a client repeats under one key
    Chunks,         \* of a message
    MaxRequests,    \* bound: requests, the repeated ones included
    MaxFaults       \* bound: failing saves and sends, and crashes

VARIABLES
    tasks,          \* the saved tasks, in the order of their creation
    request,        \* recipients that the request under enqueueMu has still to save
    worker,
    resting,        \* nextSendAt, which the worker keeps in memory, is in the future
    obSeen          \* history, see below

obVars == <<tasks, request, worker, resting, obSeen>>

(* obSeen counts requests and faults, and records the chunks that reached    *)
(* their recipient, whether the last one that was sent did so less than ten  *)
(* seconds ago, and whether a crash took the only record of that.            *)

Idle == [pc |-> "idle", at |-> 0, task |-> 0]

Init ==
    /\ tasks = <<>>
    /\ request = {}
    /\ worker = Idle
    /\ resting = FALSE
    /\ obSeen = [requests |-> 0, faults |-> 0, got |-> <<>>, fresh |-> FALSE, lost |-> FALSE]

Fault == obSeen.faults < MaxFaults /\ obSeen' = [obSeen EXCEPT !.faults = @ + 1]

-----------------------------------------------------------------------------
(* Enqueue.  A task that is there already, from an earlier request under the *)
(* same key, is left alone; a save that fails ends the request half way.     *)

Enqueue(rs) ==
    /\ request = {} /\ rs # {}
    /\ obSeen.requests < MaxRequests
    /\ obSeen' = [obSeen EXCEPT !.requests = @ + 1]
    /\ request' = rs
    /\ UNCHANGED <<tasks, worker, resting>>

NewTask(r) == [to |-> r, status |-> "queued", next |-> 1, wait |-> FALSE, fresh |-> FALSE]

Known(r) == \E i \in DOMAIN tasks : tasks[i].to = r

EnqueueNext(r) ==
    /\ r \in request
    /\ \/ /\ tasks' = IF Known(r) THEN tasks ELSE Append(tasks, NewTask(r))
          /\ request' = request \ {r}
          /\ UNCHANGED obSeen
       \/ /\ Fault
          /\ request' = {}
          /\ UNCHANGED tasks
    /\ UNCHANGED <<worker, resting>>

-----------------------------------------------------------------------------
(* The worker.                                                               *)

Due == {i \in DOMAIN tasks : tasks[i].status # "sent"}

Rested == ~resting /\ \A i \in DOMAIN tasks : ~tasks[i].fresh

Take(i) ==
    /\ worker' = [pc |-> "mark", at |-> i, task |-> tasks[i]]
    /\ UNCHANGED <<tasks, request, resting, obSeen>>

(* Mutant: a task that waits for its retry lets the next one pass.           *)
NextReadyTask ==
    /\ worker.pc = "idle" /\ Rested
    /\ \E i \in Due : /\ ~tasks[i].wait
                      /\ \A j \in Due : j < i => tasks[j].wait
                      /\ Take(i)

(* The oldest task that is not sent, and nothing while it is not ready.      *)
NextTask ==
    /\ worker.pc = "idle" /\ Rested
    /\ \E i \in Due : /\ \A j \in Due : i <= j
                      /\ ~tasks[i].wait
                      /\ Take(i)

MarkSending ==
    /\ worker.pc = "mark"
    /\ LET task == [worker.task EXCEPT !.status = "sending"]
       IN \/ /\ tasks' = [tasks EXCEPT ![worker.at] = task]
             /\ worker' = [worker EXCEPT !.pc = "send", !.task = task]
             /\ UNCHANGED obSeen
          \/ /\ Fault
             /\ worker' = Idle
             /\ UNCHANGED tasks
    /\ UNCHANGED <<request, resting>>

Reached(seen) == [seen EXCEPT !.got = Append(@, <<worker.at, worker.task.next>>)]

Sent ==
    /\ worker.pc = "send"
    /\ LET n == worker.task.next
       IN worker' = [worker EXCEPT !.pc = "save", !.task.next = n + 1, !.task.wait = FALSE,
                        !.task.fresh = TRUE, !.task.status = IF n = Chunks THEN "sent" ELSE "queued"]
    /\ resting' = TRUE
    /\ obSeen' = [Reached(obSeen) EXCEPT !.fresh = TRUE, !.lost = FALSE]
    /\ UNCHANGED <<tasks, request>>

SendFails ==
    /\ worker.pc = "send"
    /\ obSeen.faults < MaxFaults
    /\ \E seen \in {obSeen, Reached(obSeen)} : obSeen' = [seen EXCEPT !.faults = @ + 1]
    /\ worker' = [worker EXCEPT !.pc = "save", !.task.wait = TRUE, !.task.status = "retrying"]
    /\ UNCHANGED <<tasks, request, resting>>

(* A save that fails leaves the file behind what was sent.                   *)
Persist ==
    /\ worker.pc = "save"
    /\ \/ /\ tasks' = [tasks EXCEPT ![worker.at] = worker.task]
          /\ UNCHANGED obSeen
       \/ /\ Fault
          /\ UNCHANGED tasks
    /\ worker' = Idle
    /\ UNCHANGED <<request, resting>>

(* Ten seconds pass, or the minutes of a retry.                              *)
Pass ==
    /\ resting \/ obSeen.fresh \/ \E i \in DOMAIN tasks : tasks[i].fresh
    /\ resting' = FALSE
    /\ tasks' = [i \in DOMAIN tasks |-> [tasks[i] EXCEPT !.fresh = FALSE]]
    /\ worker' = IF worker = Idle THEN Idle ELSE [worker EXCEPT !.task.fresh = FALSE]
    /\ obSeen' = [obSeen EXCEPT !.fresh = FALSE, !.lost = FALSE]
    /\ UNCHANGED request

PassLong ==
    /\ Rested /\ ~obSeen.fresh /\ worker.pc = "idle"
    /\ \E i \in DOMAIN tasks : tasks[i].wait
    /\ tasks' = [i \in DOMAIN tasks |-> [tasks[i] EXCEPT !.wait = FALSE]]
    /\ UNCHANGED <<request, worker, resting, obSeen>>

Restart ==
    /\ obSeen.faults < MaxFaults
    /\ obSeen' = [obSeen EXCEPT !.faults = @ + 1,
                    !.lost = obSeen.fresh /\ \A i \in DOMAIN tasks : ~tasks[i].fresh]
    /\ worker' = Idle
    /\ request' = {}
    /\ resting' = FALSE
    /\ UNCHANGED tasks

Next ==
    \/ \E rs \in SUBSET Recipients : Enqueue(rs)
    \/ \E r \in Recipients : EnqueueNext(r)
    \/ NextTask \/ MarkSending \/ Sent \/ SendFails \/ Persist
    \/ Pass \/ PassLong \/ Restart

Spec == Init /\ [][Next]_obVars

-----------------------------------------------------------------------------
(* What recipients see, whatever fails: the chunks of a task in their order, *)
(* no task before every older one is through, a task reported as sent only   *)
(* when all of it has arrived; a chunk arrives again at most once for every  *)
(* failure, never because a request was repeated; and no chunk is sent less  *)
(* than ten seconds after another one unless a crash took the record of it.  *)
DeliveredInOrder ==
    /\ \A i \in DOMAIN obSeen.got : \A t \in DOMAIN tasks : \A c \in 1..Chunks :
          t < obSeen.got[i][1] \/ (t = obSeen.got[i][1] /\ c < obSeen.got[i][2])
              => \E j \in 1 .. i - 1 : obSeen.got[j] = <<t, c>>
    /\ \A t \in DOMAIN tasks : tasks[t].status = "sent" =>
          \A c \in 1..Chunks : <<t, c>> \in ToSet(obSeen.got)
    /\ Len(obSeen.got) - Cardinality(ToSet(obSeen.got)) <= obSeen.faults
    /\ worker.pc \in {"mark", "send"} /\ obSeen.fresh => obSeen.lost
=============================================================================
