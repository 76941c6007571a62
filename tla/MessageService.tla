---------------------------- MODULE MessageService ----------------------------
(* What the message queue of a Job promises to the clients that submit to it: *)
(* an accepted message waits in one line, it is served from the head of the   *)
(* line, once, or withdrawn while it waits, and a deleted Job serves no one.  *)
(* Of a submission that was answered with an error it promises only that it   *)
(* takes effect at most once.  Saves, retries, dispatchers, runs, crashes and *)
(* restarts are not visible here; JobPromise shows that JobQueue implements   *)
(* this.                                                                      *)
EXTENDS Naturals, SequencesExt

CONSTANT Message

VARIABLES
    open,       \* the Job has not been deleted
    accepted,   \* messages whose submission was answered with success
    line,       \* those that wait, in the order of their acceptance
    served,     \* how often the agent was started on a message
    withdrawn   \* messages whose deletion was answered with success

promise == <<open, accepted, line, served, withdrawn>>

Init ==
    /\ open = TRUE
    /\ accepted = {} /\ line = <<>> /\ withdrawn = {}
    /\ served = [m \in Message |-> 0]

Accept(m) ==
    /\ m \notin accepted /\ served[m] = 0
    /\ accepted' = accepted \cup {m}
    /\ line' = Append(line, m)
    /\ UNCHANGED <<open, served, withdrawn>>

Withdraw(k) ==
    /\ line' = RemoveAt(line, k)
    /\ withdrawn' = withdrawn \cup {line[k]}
    /\ UNCHANGED <<open, accepted, served>>

Serve ==
    /\ line # <<>>
    /\ line' = Tail(line)
    /\ served' = [served EXCEPT ![Head(line)] = @ + 1]
    /\ UNCHANGED <<open, accepted, withdrawn>>

ServeRefused(m) ==
    /\ m \notin accepted /\ served[m] = 0
    /\ served' = [served EXCEPT ![m] = 1]
    /\ UNCHANGED <<open, accepted, line, withdrawn>>

Close ==
    /\ open' = FALSE
    /\ UNCHANGED <<accepted, line, served, withdrawn>>

Next ==
    /\ open
    /\ \/ Serve \/ Close
       \/ \E m \in Message : Accept(m) \/ ServeRefused(m)
       \/ \E k \in DOMAIN line : Withdraw(k)

Spec == Init /\ [][Next]_promise
=============================================================================
