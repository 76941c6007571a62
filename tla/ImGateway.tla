------------------------------ MODULE ImGateway ------------------------------
(* The IM gateway (cmd/web/handler/im_gateway.go) for one chat: the chat's   *)
(* dispatcher, which restores the order of concurrent deliveries, handles    *)
(* one message at a time and retires when idle; the chat's binding to a job; *)
(* one queue per job, drained by a goroutine that waits for the job, sends   *)
(* the message and collects the answer from the job's events.                *)
EXTENDS Naturals, Sequences, FiniteSets, FiniteSetsExt

CONSTANTS
    Chats,          \* what may happen: deliveries in the order of their times, each the message
                    \* it carries (a delivery may be repeated) and its kind; and the bounds
                    \* faults (panics, failing saves and preparations, timeouts) and web (runs
                    \* that the web interface starts in the chat's jobs)
    Workers,        \* dispatchers of the chat, one after the other: 1 .. n
    MaxDepth        \* imJobQueueMaxDepth

VARIABLES
    chat,       \* the member of Chats this behaviour is about
    disp,       \* the dispatchers
    owner,      \* chatDispatches[key]
    entering,   \* OnMessage of each delivery: the dispatcher it looked up, if it is on its way
    mapping,    \* the chat's IMJobMapping
    commands,   \* goroutines of slash commands
    queues,     \* jobQueues: jobs with a queue, and the deliveries that wait in it
    procs,      \* processJobQueue, by the delivery it was started for
    jobs,       \* the jobs the chat created, each by the message it was created for
    replies,    \* what each delivery was answered, one reply after the other
    imSeen      \* history, see below

imVars == <<chat, disp, owner, entering, mapping, commands, queues, procs, jobs, replies, imSeen>>

(* imSeen: the messages of each job in the order sent, the order in which    *)
(* deliveries were handled, dropped deliveries, and counts for the bounds.   *)

Deliveries == DOMAIN chat.in
Message(d) == chat.in[d].message
Kind(d) == chat.in[d].kind
Nobody == 0
Web == 0            \* the author of the web interface's runs
Unbound == [ws |-> FALSE, job |-> Nobody]
Fresh == [pending |-> {}, running |-> FALSE, retired |-> FALSE, pc |-> "none", item |-> Nobody,
          job |-> Nobody, read |-> Unbound]
NoProc == [pc |-> "none", task |-> Nobody, job |-> Nobody, inbox |-> <<>>]
NoJob == [status |-> "none", by |-> Web, answered |-> FALSE, receipts |-> {}]

Init ==
    /\ chat \in Chats
    /\ disp = [w \in Workers |-> Fresh] /\ owner = Nobody
    /\ entering = [d \in Deliveries |-> [pc |-> "far", at |-> Nobody]]
    /\ mapping = Unbound /\ commands = [d \in Deliveries |-> "none"]
    /\ queues = [j \in Deliveries |-> [kept |-> FALSE, tasks |-> <<>>]]
    /\ procs = [d \in Deliveries |-> NoProc]
    /\ jobs = [j \in Deliveries |-> NoJob]
    /\ replies = [d \in Deliveries |-> <<>>]
    /\ imSeen = [sent |-> [j \in Deliveries |-> <<>>], handled |-> <<>>, dropped |-> {},
                 made |-> 0, unbound |-> 0, faults |-> 0, web |-> 0]

Fault(s) == s.faults < chat.faults /\ imSeen' = [s EXCEPT !.faults = @ + 1]
Reply(d, what) == replies' = [replies EXCEPT ![d] = Append(@, what)]
Replied(d, what) == \E i \in DOMAIN replies[d] : replies[d][i] = what

-----------------------------------------------------------------------------
(* Delivery.                                                                  *)

\* enqueueChatMessage's lookup, under chatMu.
LookUp(d) ==
    /\ entering[d].pc = "far"
    /\ \E w \in Workers :
        /\ IF owner # Nobody THEN w = owner
           ELSE disp[w] = Fresh /\ \A x \in Workers : x < w => disp[x].retired
        /\ owner' = w
        /\ entering' = [entering EXCEPT ![d] = [pc |-> "near", at |-> w]]
    /\ UNCHANGED <<chat, disp, mapping, commands, queues, procs, jobs, replies, imSeen>>

\* dispatcher.enqueue, under its mu: a retired dispatcher sends the caller back.
Enqueue(d) ==
    /\ entering[d].pc = "near"
    /\ LET w == entering[d].at IN
        IF disp[w].retired
        THEN entering' = [entering EXCEPT ![d].pc = "far"] /\ UNCHANGED disp
        ELSE /\ entering' = [entering EXCEPT ![d].pc = "in"]
             /\ disp' = [disp EXCEPT ![w].pending = @ \cup {d}, ![w].running = TRUE,
                                     ![w].pc = IF disp[w].running THEN @ ELSE "wait"]
    /\ UNCHANGED <<chat, owner, mapping, commands, queues, procs, jobs, replies, imSeen>>

Go(w, from, to) == disp[w].pc = from /\ disp' = [disp EXCEPT ![w].pc = to]

\* loop: the condition variable, its idle timer and the sleep that lets stragglers in.
Wake(w) ==
    /\ disp[w].pending # {} /\ Go(w, "wait", "drain")
    /\ UNCHANGED <<chat, owner, entering, mapping, commands, queues, procs, jobs, replies, imSeen>>
Idle(w) ==
    /\ disp[w].pending = {} /\ Go(w, "wait", "idle")
    /\ UNCHANGED <<chat, owner, entering, mapping, commands, queues, procs, jobs, replies, imSeen>>

RemoveIdle(w) ==
    /\ disp[w].pc = "idle"
    /\ IF disp[w].pending # {}
       THEN Go(w, "idle", "wait") /\ UNCHANGED owner
       ELSE /\ disp' = [disp EXCEPT ![w] = [Fresh EXCEPT !.retired = TRUE]]
            /\ owner' = IF owner = w THEN Nobody ELSE owner
    /\ UNCHANGED <<chat, entering, mapping, commands, queues, procs, jobs, replies, imSeen>>

Pop(w) ==
    /\ disp[w].pc = "drain"
    /\ IF disp[w].pending = {}
       THEN Go(w, "drain", "wait") /\ UNCHANGED imSeen
       ELSE LET d == Min(disp[w].pending) IN
            /\ disp' = [disp EXCEPT ![w].pending = @ \ {d}, ![w].item = d, ![w].pc = "handle"]
            /\ imSeen' = [imSeen EXCEPT !.handled = Append(@, d)]
    /\ UNCHANGED <<chat, owner, entering, mapping, commands, queues, procs, jobs, replies>>

-----------------------------------------------------------------------------
(* HandleMessage, inside the loop: a command goes to a goroutine of its own, *)
(* anything else is bound to a job and queued before the next message.       *)

Handling(w, kind) == disp[w].pc = "handle" /\ Kind(disp[w].item) = kind
Handled(w) == disp' = [disp EXCEPT ![w].pc = "drain", ![w].item = Nobody, ![w].job = Nobody,
                                   ![w].read = Unbound]

\* dispatchMessage drops what a stranger writes; dispatchAdminCommand.
DispatchStranger(w) ==
    /\ Handling(w, "stranger") /\ Handled(w) /\ Reply(disp[w].item, "dropped")
    /\ UNCHANGED <<chat, owner, entering, mapping, commands, queues, procs, jobs, imSeen>>
DispatchCommand(w) ==
    /\ Handling(w, "new") /\ Handled(w)
    /\ commands' = [commands EXCEPT ![disp[w].item] = "begun"]
    /\ UNCHANGED <<chat, owner, entering, mapping, queues, procs, jobs, replies, imSeen>>

\* handleCommand for /new: the mapping is read, then overwritten with one that has no job.
CommandReads(d) ==
    /\ commands[d] = "begun"
    /\ IF mapping.ws
       THEN commands' = [commands EXCEPT ![d] = "read"] /\ UNCHANGED replies
       ELSE commands' = [commands EXCEPT ![d] = "done"] /\ Reply(d, "refused")
    /\ UNCHANGED <<chat, disp, owner, entering, mapping, queues, procs, jobs, imSeen>>
CommandWrites(d) ==
    /\ commands[d] = "read" /\ commands' = [commands EXCEPT ![d] = "done"]
    /\ \/ mapping' = [ws |-> TRUE, job |-> Nobody] /\ Reply(d, "done")
          /\ imSeen' = [imSeen EXCEPT !.unbound = @ + 1]
       \/ Fault(imSeen) /\ Reply(d, "error") /\ UNCHANGED mapping
    /\ UNCHANGED <<chat, disp, owner, entering, queues, procs, jobs>>

\* buildQueuedJobTask and resolveJob: the bound job, or one created for this message.  A repeated
\* delivery finds the job of the first (CreateIdempotent).
Resolve(w) ==
    /\ Handling(w, "text")
    /\ LET d == disp[w].item
           bound == mapping.job # Nobody
           j == IF bound THEN mapping.job ELSE Message(d)
       IN /\ disp' = [disp EXCEPT ![w].pc = "bind", ![w].job = j, ![w].read = mapping]
          /\ jobs' = IF jobs[j].status = "none" THEN [jobs EXCEPT ![j].status = "idle"] ELSE jobs
          /\ imSeen' = [imSeen EXCEPT !.made = @ + (IF jobs[j].status = "none" THEN 1 ELSE 0)]
    /\ UNCHANGED <<chat, owner, entering, mapping, commands, queues, procs, replies>>
ResolveFails(w) ==
    /\ Handling(w, "text") /\ Handled(w) /\ Fault(imSeen) /\ Reply(disp[w].item, "error")
    /\ UNCHANGED <<chat, owner, entering, mapping, commands, queues, procs, jobs>>

\* saveJobMapping compares with the mapping that was read; a failure is logged only.
Bind(w) ==
    /\ Go(w, "bind", "queue")
    /\ LET new == [ws |-> TRUE, job |-> disp[w].job] IN
        \/ mapping' = (IF disp[w].read = new THEN mapping ELSE new) /\ UNCHANGED imSeen
        \/ /\ disp[w].read # new /\ UNCHANGED mapping
           /\ Fault([imSeen EXCEPT !.unbound = @ + 1])
    /\ UNCHANGED <<chat, owner, entering, commands, queues, procs, jobs, replies>>

\* enqueueRouteToJob: behind the job's queue, or the first of a new one.
Queue(w) ==
    /\ disp[w].pc = "queue" /\ Handled(w)
    /\ LET d == disp[w].item   j == disp[w].job   q == queues[j] IN
        \/ /\ q.kept /\ Len(q.tasks) < MaxDepth
           /\ queues' = [queues EXCEPT ![j].tasks = Append(@, d)]
           /\ UNCHANGED <<procs, replies>>
        \/ /\ q.kept /\ Len(q.tasks) >= MaxDepth
           /\ Reply(d, "error") /\ UNCHANGED <<queues, procs>>
        \/ /\ ~ q.kept
           /\ queues' = [queues EXCEPT ![j].kept = TRUE]
           /\ procs' = [procs EXCEPT ![d] = [pc |-> "wait", task |-> d, job |-> j, inbox |-> <<>>]]
           /\ UNCHANGED replies
    /\ UNCHANGED <<chat, owner, entering, mapping, commands, jobs, imSeen>>

\* A panic of the loop: the sender is told, and the next delivery starts the loop again.
DispatcherPanics(w) ==
    /\ disp[w].pc \in {"handle", "bind", "queue"}
    /\ Fault([imSeen EXCEPT !.unbound = @ + (IF disp[w].pc = "bind" THEN 1 ELSE 0)])
    /\ disp' = [disp EXCEPT ![w] = [Fresh EXCEPT !.pending = disp[w].pending]]
    /\ Reply(disp[w].item, "error")
    /\ UNCHANGED <<chat, owner, entering, mapping, commands, queues, procs, jobs>>

-----------------------------------------------------------------------------
(* processJobQueue.                                                           *)

Proc(p, from, to) == procs[p].pc = from /\ procs' = [procs EXCEPT ![p].pc = to]

\* waitForJobAvailable.
Available(p) ==
    /\ Proc(p, "wait", "prepare") /\ jobs[procs[p].job].status # "running"
    /\ UNCHANGED <<chat, disp, owner, entering, mapping, commands, queues, jobs, replies, imSeen>>

\* sendQueuedJobMessage subscribes at the tail, then sends.
Subscribe(p) ==
    /\ Proc(p, "prepare", "send")
    /\ UNCHANGED <<chat, disp, owner, entering, mapping, commands, queues, jobs, replies, imSeen>>

\* SendMessage holds the job's persist lock, which a settling run has until its last event is out.
Send(p) ==
    /\ procs[p].pc = "send" /\ jobs[procs[p].job].status # "settling"
    /\ LET j == procs[p].job   d == procs[p].task   id == Message(d) IN
        \/ /\ id \in jobs[j].receipts
           /\ procs' = [procs EXCEPT ![p].pc = "next", ![p].inbox = <<>>]
           /\ UNCHANGED <<jobs, imSeen>>
        \/ /\ id \notin jobs[j].receipts /\ jobs[j].status = "running"
           /\ procs' = [procs EXCEPT ![p].pc = "wait", ![p].inbox = <<>>]
           /\ UNCHANGED <<jobs, imSeen>>
        \/ /\ id \notin jobs[j].receipts /\ jobs[j].status = "idle"
           /\ procs' = [procs EXCEPT ![p].pc = "collect"]
           /\ jobs' = [jobs EXCEPT ![j] = [status |-> "running", by |-> d, answered |-> FALSE,
                                           receipts |-> @.receipts \cup {id}]]
           /\ imSeen' = [imSeen EXCEPT !.sent[j] = Append(@, d)]
    /\ UNCHANGED <<chat, disp, owner, entering, mapping, commands, queues, replies>>

\* Mutant of Collect: a message whose run gave no answer gets no reply.
CollectSilent(p) ==
    /\ procs[p].pc = "collect" /\ procs[p].inbox # <<>>
    /\ LET d == procs[p].task   e == Head(procs[p].inbox) IN
        IF e.answer THEN Reply(d, IF e.by = d THEN "answer" ELSE "foreign") ELSE UNCHANGED replies
    /\ procs' = [procs EXCEPT ![p].pc = "next", ![p].inbox = <<>>]
    /\ UNCHANGED <<chat, disp, owner, entering, mapping, commands, queues, jobs, imSeen>>
\* collectReply takes the answer, or nothing, from the first event that ends a run.
Collect(p) ==
    /\ procs[p].pc = "collect" /\ procs[p].inbox # <<>>
    /\ LET d == procs[p].task   e == Head(procs[p].inbox) IN
        Reply(d, IF ~ e.answer THEN "empty" ELSE IF e.by = d THEN "answer" ELSE "foreign")
    /\ procs' = [procs EXCEPT ![p].pc = "next", ![p].inbox = <<>>]
    /\ UNCHANGED <<chat, disp, owner, entering, mapping, commands, queues, jobs, imSeen>>

\* A wait, a preparation or an answer that takes too long or fails: the task is given up.
GivesUp(p) ==
    /\ procs[p].pc \in {"wait", "prepare", "collect"} /\ Fault(imSeen)
    /\ Reply(procs[p].task, "error")
    /\ procs' = [procs EXCEPT ![p].pc = "next", ![p].inbox = <<>>]
    /\ UNCHANGED <<chat, disp, owner, entering, mapping, commands, queues, jobs>>

\* dequeueNextJobTask.
Dequeue(p) ==
    /\ procs[p].pc = "next"
    /\ LET j == procs[p].job   q == queues[j].tasks IN
        IF q = <<>>
        THEN procs' = [procs EXCEPT ![p] = NoProc] /\ queues' = [queues EXCEPT ![j].kept = FALSE]
        ELSE /\ procs' = [procs EXCEPT ![p].pc = "wait", ![p].task = Head(q)]
             /\ queues' = [queues EXCEPT ![j].tasks = Tail(q)]
    /\ UNCHANGED <<chat, disp, owner, entering, mapping, commands, jobs, replies, imSeen>>

\* The deferred recover drops the marker, and with it the deliveries that wait.
ProcessorPanics(p) ==
    /\ procs[p].pc \in {"wait", "prepare", "send", "collect"}
    /\ LET j == procs[p].job   q == queues[j].tasks IN
        /\ queues' = [queues EXCEPT ![j] = [kept |-> FALSE, tasks |-> <<>>]]
        /\ Fault([imSeen EXCEPT !.dropped = @ \cup {procs[p].task} \cup {q[i] : i \in 1 .. Len(q)}])
    /\ procs' = [procs EXCEPT ![p] = NoProc]
    /\ UNCHANGED <<chat, disp, owner, entering, mapping, commands, jobs, replies>>

-----------------------------------------------------------------------------
(* The job's runs: the answer, the status, and the event that says it ended. *)

Publish(j, answer) ==
    procs' = [p \in Deliveries |->
                IF procs[p].pc \in {"send", "collect"} /\ procs[p].job = j
                THEN [procs[p] EXCEPT !.inbox =
                        Append(@, [answer |-> answer, by |-> jobs[j].by])]
                ELSE procs[p]]

WebSends(j) ==
    /\ jobs[j].status = "idle" /\ imSeen.web < chat.web
    /\ jobs' = [jobs EXCEPT ![j].status = "running", ![j].by = Web, ![j].answered = FALSE]
    /\ imSeen' = [imSeen EXCEPT !.web = @ + 1]
    /\ UNCHANGED <<chat, disp, owner, entering, mapping, commands, queues, procs, replies>>
RunAnswers(j) ==
    /\ jobs[j].status = "running" /\ ~ jobs[j].answered
    /\ jobs' = [jobs EXCEPT ![j].answered = TRUE] /\ Publish(j, TRUE)
    /\ UNCHANGED <<chat, disp, owner, entering, mapping, commands, queues, replies, imSeen>>
RunSettles(j) ==
    /\ jobs[j].status = "running" /\ jobs' = [jobs EXCEPT ![j].status = "settling"]
    /\ UNCHANGED <<chat, disp, owner, entering, mapping, commands, queues, procs, replies, imSeen>>
RunEnds(j) ==
    /\ jobs[j].status = "settling" /\ jobs' = [jobs EXCEPT ![j].status = "idle"]
    /\ Publish(j, FALSE)
    /\ UNCHANGED <<chat, disp, owner, entering, mapping, commands, queues, replies, imSeen>>

Next ==
    \/ \E d \in Deliveries : LookUp(d) \/ Enqueue(d) \/ CommandReads(d) \/ CommandWrites(d)
    \/ \E w \in Workers :
        \/ Wake(w) \/ Idle(w) \/ RemoveIdle(w) \/ Pop(w)
        \/ DispatchStranger(w) \/ DispatchCommand(w)
        \/ Resolve(w) \/ ResolveFails(w) \/ Bind(w) \/ Queue(w) \/ DispatcherPanics(w)
    \/ \E p \in Deliveries :
        \/ Available(p) \/ Subscribe(p) \/ Send(p) \/ Collect(p) \/ GivesUp(p)
        \/ Dequeue(p) \/ ProcessorPanics(p)
    \/ \E j \in Deliveries : WebSends(j) \/ RunAnswers(j) \/ RunSettles(j) \/ RunEnds(j)

Spec == Init /\ [][Next]_imVars

-----------------------------------------------------------------------------
Sent == UNION {{imSeen.sent[j][a] : a \in DOMAIN imSeen.sent[j]} : j \in Deliveries}
Active == {p \in Deliveries : procs[p].pc # "none"}

\* A chat has one dispatcher at work, although an idle one retires while deliveries that
\* looked it up are still on their way (retired, im_gateway.go:94).
OneWorker ==
    /\ Cardinality({w \in Workers : disp[w].running}) <= 1
    /\ \A w \in Workers : disp[w].running => owner = w

\* Every job with a queue marker has exactly one goroutine that drains it, and every delivery
\* that was handled is answered, waits in such a queue or is in the hands of its goroutine,
\* was dropped by a panic, or repeats a message that another delivery has sent to the job.  One
\* that was sent itself is answered, in hand or dropped.
TasksTended ==
    /\ \A j \in Deliveries :
        Cardinality({p \in Active : procs[p].job = j}) = (IF queues[j].kept THEN 1 ELSE 0)
    /\ \A i \in DOMAIN imSeen.handled :
        LET d == imSeen.handled[i] IN
        \/ replies[d] # <<>> \/ d \in imSeen.dropped \/ commands[d] \in {"begun", "read"}
        \/ \E w \in Workers : disp[w].item = d
        \/ \E p \in Active : procs[p].task = d
        \/ \E j \in Deliveries : \E k \in DOMAIN queues[j].tasks : queues[j].tasks[k] = d
        \/ \E e \in Sent \ {d} : Message(e) = Message(d)

\* No delivery is answered twice, although every step of its way may fail and answer for it;
\* and none gets the answer of another run, unless the web interface has used the chat's job.
AnsweredOnce ==
    \A d \in Deliveries :
        /\ Len(replies[d]) <= 1
        /\ Replied(d, "foreign") => imSeen.web > 0

\* A job gets a chat's messages in the order in which the dispatcher handled them.
SentInOrder ==
    \A j \in Deliveries : \A a, b \in DOMAIN imSeen.sent[j] : a < b =>
        \E x, y \in DOMAIN imSeen.handled :
            x < y /\ imSeen.handled[x] = imSeen.sent[j][a] /\ imSeen.handled[y] = imSeen.sent[j][b]

\* Messages of a new chat do not race into several jobs: one job is created, and another only
\* after /new or a binding that was not saved ("two Jobs", im_gateway.go:541).
OneJob == imSeen.made <= 1 + imSeen.unbound

\* A message that is delivered twice is executed once, unless the chat's binding came loose in
\* between: receipts are kept by job.
RunOnce ==
    imSeen.unbound = 0 =>
        \A d, e \in Deliveries : \A j, k \in Deliveries :
            \A a \in DOMAIN imSeen.sent[j], b \in DOMAIN imSeen.sent[k] :
                Message(imSeen.sent[j][a]) = Message(imSeen.sent[k][b]) => j = k /\ a = b

\* Whose answer a reply carries is left to ReplyIsOwn, which does not hold.
ChatKept == OneWorker /\ TasksTended /\ AnsweredOnce /\ SentInOrder /\ OneJob /\ RunOnce

\* A reply tells of the message's own run.  It does not hold: the terminal event of the run
\* before, or a whole run of the web interface, can fall between the subscription and
\* SendMessage, although the job "is non-Running here, so nothing is publishing"
\* (im_gateway.go:899).  A message is then told that there is no answer, or given another's.
ReplyIsOwn ==
    \A d \in Deliveries :
        /\ ~ Replied(d, "foreign")
        /\ Replied(d, "empty") =>
            \E p \in Deliveries : jobs[p].by = d /\ ~ jobs[p].answered

\* What follows /new goes to another job: it does not hold, the command is executed beside the
\* messages that come after it (dispatchAdminCommand).
NewTakesEffect ==
    \A c, d \in Deliveries :
        Kind(c) = "new" /\ Replied(c, "done") =>
            \A j \in Deliveries : \A a \in DOMAIN imSeen.sent[j] :
                (/\ imSeen.sent[j][a] > c
                 /\ \E x, y \in DOMAIN imSeen.handled :
                        x < y /\ imSeen.handled[x] = c /\ imSeen.handled[y] = imSeen.sent[j][a])
                => \A b \in DOMAIN imSeen.sent[j] : imSeen.sent[j][b] > c

=============================================================================
