----------------------------- MODULE JobPromise -----------------------------
(* JobQueue implements MessageService: job.json is the line, and the answers  *)
(* to the clients and the starts of the agent are the steps taken on it.      *)
EXTENDS JobQueue

\* How many items at the front of queue q are claimed.
Claims(q) ==
  CHOOSE n \in 0 .. Len(q) : \A k \in DOMAIN q : q[k].state = "processing" <=> k <= n

\* The messages that wait behind them, in their order.
Line(q) == [k \in 1 .. Len(q) - Claims(q) |-> q[Claims(q) + k].id]

Promise == INSTANCE MessageService WITH
  Message   <- QueueId,
  open      <- disk.life = "live",
  accepted  <- acked,
  line      <- Line(disk.queue),
  served    <- [i \in QueueId |-> execs[i]],
  withdrawn <- dropped

\* Every step of submissions, deletions, claims, failed saves, crashes and restarts
\* is one step of the abstract line or none: acceptance, withdrawal and service are
\* atomic with the save of job.json, service is in the order of acceptance, and
\* nothing happens to a deleted Job.
ImplementsMessageService == Promise!Spec
=============================================================================
