------------------------------- MODULE NodeRun -------------------------------
(* The execution of one node of a graph run (services/graph/runtime.go,      *)
(* retry.go; cmd/web/handler/job_runner.go): the session it runs in and the  *)
(* Agent it is bound to, the attempts and their retries, what each attempt   *)
(* leaves in the transcript, the usage of the turn; then the stop, and the   *)
(* resumption, which continues an interrupted turn in its own session.       *)
EXTENDS Naturals, Sequences, FiniteSets

CONSTANTS
    Nodes,          \* records: type, inherit (the session strategy), prompt (is there one?),
                    \* bound (the versions of the workflow with a snapshot of the node's Agent)
    MaxTransient, MaxRate,          \* graphTransientRetries, graphRateLimitRetries
    MaxRuns, MaxAttempts, MaxFaults \* bounds: executions, attempts in all, and failing calls

VARIABLES
    node,       \* the member of Nodes this behaviour is about
    run,        \* the graph run: its status, and the current version of the workflow
    inst,       \* the node's instance
    past,       \* what run keeps of reset instances: ArchivedInstances, RetryInstanceVersions
    work,       \* the worker that executes the node
    sess,       \* the sessions: who opened them, transcripts, and whether the job lists them
    notes,      \* sessionCh
    usage,      \* the turns that were recorded
    nrSeen      \* history, see below

nrVars == <<node, run, inst, past, work, sess, notes, usage, nrSeen>>

(* nrSeen: of each execution whether it continued a session, whether the     *)
(* recording of its prompt failed, whether an Agent ran without having been  *)
(* given the prompt, and its attempts by the source of their usage; faults.  *)

None == 0
Upstream == 1       \* the session that flows in; the node's own come after it
Sessions == 1 .. MaxRuns + 1
Unopened == [open |-> FALSE, version |-> None, text |-> <<>>, listed |-> FALSE]
NoUsage == [reported |-> 0, estimated |-> 0]
NoWork == [pc |-> "none", version |-> None, session |-> None, text |-> "prompt", tagged |-> FALSE,
           end |-> "none", stage |-> 0, retries |-> 0, usage |-> NoUsage,
           ran |-> FALSE]
NoInst == [status |-> "none", version |-> None, display |-> None]
IsAgent == node.type \in {"prompt", "clarify"}

Init ==
    /\ node \in Nodes
    /\ run = [status |-> "running", version |-> 1]
    /\ inst = NoInst
    /\ past = [status |-> "none", display |-> None, version |-> None]
    /\ work = NoWork
    /\ \E end \in {<<>>, <<"orphan">>} :
        /\ end # <<>> => node.inherit
        /\ sess = [s \in Sessions |->
                     IF s = Upstream THEN [Unopened EXCEPT !.open = TRUE, !.text = end, !.listed = TRUE]
                     ELSE Unopened]
    /\ notes = {} /\ usage = <<>>
    /\ nrSeen = [runs |-> <<>>, attempts |-> 0, faults |-> 0]

Fault(s) == s.faults < MaxFaults /\ nrSeen' = [s EXCEPT !.faults = @ + 1]
Now == Len(nrSeen.runs)
Noted(field, value) == [nrSeen EXCEPT !.runs[Now][field] = value]

-----------------------------------------------------------------------------
(* The scheduler queues the node: the execution's version is that of the     *)
(* first one; the worker gets a copy of the run.                             *)

\* Mutant of ExecutionVersion.
LatestVersion == run.version
ExecutionVersion == IF past.version # None THEN past.version ELSE run.version

Enqueue ==
    /\ run.status = "running" /\ inst.status = "none" /\ Now < MaxRuns
    /\ inst' = [status |-> "running", version |-> ExecutionVersion, display |-> None]
    /\ work' = [NoWork EXCEPT !.pc = "open", !.version = ExecutionVersion]
    /\ nrSeen' = [nrSeen EXCEPT !.runs = Append(@, [carried |-> FALSE, unrecorded |-> FALSE,
                        deaf |-> FALSE, reported |-> 0, estimated |-> 0])]
    /\ UNCHANGED <<node, run, past, sess, notes, usage>>

\* resumeCarrySession: an interrupted Prompt node goes on in its own session.
Carried ==
    IF node.type = "prompt" /\ past.status = "interrupted" THEN past.display ELSE None

Result(w, end) == work' = [w EXCEPT !.pc = "result", !.end = end]

\* A Shell node has no session to open.
OpenShell ==
    /\ work.pc = "open" /\ node.type = "shell"
    /\ work' = [work EXCEPT !.pc = "attempt"]
    /\ UNCHANGED <<node, run, inst, past, sess, notes, usage, nrSeen>>

\* openNodeSession: carried, inherited or new; a new one is bound to the Agent of its version.
OpenCarried ==
    /\ work.pc = "open" /\ IsAgent /\ Carried # None
    /\ work' = [work EXCEPT !.pc = "record", !.session = Carried, !.text = "continue"]
    /\ nrSeen' = Noted("carried", TRUE)
    /\ UNCHANGED <<node, run, inst, past, sess, notes, usage>>
OpenInherited ==
    /\ work.pc = "open" /\ IsAgent /\ Carried = None /\ node.inherit
    /\ work' = [work EXCEPT !.pc = "record", !.session = Upstream]
    /\ UNCHANGED <<node, run, inst, past, sess, notes, usage, nrSeen>>
OpenNew ==
    /\ work.pc = "open" /\ IsAgent /\ Carried = None /\ ~ node.inherit
    /\ LET s == CHOOSE x \in Sessions : ~ sess[x].open /\ \A y \in Sessions : y < x => sess[y].open
           v == IF work.version \in node.bound THEN work.version ELSE None
       IN /\ sess' = [sess EXCEPT ![s].open = TRUE, ![s].version = v]
          /\ work' = [work EXCEPT !.pc = "record", !.session = s]
    /\ UNCHANGED <<node, run, inst, past, notes, usage, nrSeen>>
\* InitSession fails, or the Agent of an old run cannot be resolved any more.
OpenFails ==
    /\ work.pc = "open" /\ IsAgent /\ Carried = None /\ ~ node.inherit
    /\ Result(work, "failed") /\ Fault(nrSeen)
    /\ UNCHANGED <<node, run, inst, past, sess, notes, usage>>

\* Mutant of Recorded.
RecordedAlways == TRUE
\* Only a new session gets its prompt before the Agent starts: what is written to a session with
\* an end that is cut off at the start of the turn would be cut off with it.
Recorded == work.text = "prompt" /\ ~ node.inherit

\* RecordPromptUserMessage; notify, which drops the note when the channel is full; a Clarify node
\* without a prompt has opened its session, that is all.
Announce(kept) == notes' = IF kept THEN notes \cup {work.session} ELSE notes
Record(kept) ==
    /\ work.pc = "record" /\ node.prompt /\ Announce(kept)
    /\ IF Recorded
       THEN \/ /\ sess' = [sess EXCEPT ![work.session].text = Append(@, work.text)]
               /\ work' = [work EXCEPT !.pc = "attempt", !.tagged = TRUE] /\ UNCHANGED nrSeen
            \/ /\ Fault(Noted("unrecorded", TRUE))
               /\ work' = [work EXCEPT !.pc = "attempt"] /\ UNCHANGED sess
       ELSE work' = [work EXCEPT !.pc = "attempt"] /\ UNCHANGED <<sess, nrSeen>>
    /\ UNCHANGED <<node, run, inst, past, usage>>
RecordNothing(kept) ==
    /\ work.pc = "record" /\ ~ node.prompt /\ Announce(kept) /\ Result(work, "done")
    /\ UNCHANGED <<node, run, inst, past, sess, usage, nrSeen>>

-----------------------------------------------------------------------------
(* Attempts.                                                                  *)

\* BeginRun cuts the history at the first call without a result, and appends what the caller has
\* not written itself.
CutOff(text) ==
    IF \E i \in DOMAIN text : text[i] = "orphan"
    THEN SubSeq(text, 1, (CHOOSE i \in DOMAIN text :
                            text[i] = "orphan" /\ \A j \in 1 .. i - 1 : text[j] # "orphan") - 1)
    ELSE text

AttemptBegins ==
    /\ work.pc \in {"attempt", "wait"} /\ nrSeen.attempts < MaxAttempts
    /\ work' = [work EXCEPT !.pc = "agent", !.ran = TRUE]
    /\ IF IsAgent
       THEN LET text == CutOff(sess[work.session].text)
                        \o (IF work.tagged THEN <<>> ELSE <<work.text>>)
            IN /\ sess' = [sess EXCEPT ![work.session].text = text]
               /\ nrSeen' = [nrSeen EXCEPT !.attempts = @ + 1, !.runs[Now].deaf =
                                @ \/ \A i \in DOMAIN text : text[i] # "prompt"]
       ELSE nrSeen' = [nrSeen EXCEPT !.attempts = @ + 1] /\ UNCHANGED sess
    /\ UNCHANGED <<node, run, inst, past, notes, usage>>

\* finalizeUsageEstimate and Merge: an attempt has the provider's report or an estimate.
Source(reported) == IF reported THEN "reported" ELSE "estimated"
Spent(u, reported) == [u EXCEPT ![Source(reported)] = @ + 1]
SpentHere(reported) == IF IsAgent THEN Spent(work.usage, reported) ELSE work.usage
SpentSeen(reported) ==
    IF IsAgent THEN Noted(Source(reported), nrSeen.runs[Now][Source(reported)] + 1) ELSE nrSeen
Said(messages) ==
    sess' = IF IsAgent THEN [sess EXCEPT ![work.session].text = @ \o messages] ELSE sess

\* The Agent cannot be leased or started: the turn ends before it wrote anything.
AttemptStillborn ==
    /\ work.pc \in {"attempt", "wait"} /\ IsAgent /\ nrSeen.attempts < MaxAttempts
    /\ Result([work EXCEPT !.usage = SpentHere(FALSE), !.ran = TRUE], "failed")
    /\ LET seen == [SpentSeen(FALSE) EXCEPT !.attempts = @ + 1] IN
        IF run.status = "running" THEN Fault(seen) ELSE nrSeen' = seen
    /\ UNCHANGED <<node, run, inst, past, sess, notes, usage>>

AttemptSucceeds(reported) ==
    /\ work.pc = "agent" /\ Said(<<"answer">>)
    /\ Result([work EXCEPT !.usage = SpentHere(reported)], "done")
    /\ nrSeen' = SpentSeen(reported)
    /\ UNCHANGED <<node, run, inst, past, notes, usage>>

\* An answer that misses a declared output fails a Prompt or a Shell; a Clarify does not mind.
AttemptMisses(reported) ==
    /\ work.pc = "agent" /\ node.type # "clarify" /\ Said(<<"answer">>)
    /\ Result([work EXCEPT !.usage = SpentHere(reported)], "failed")
    /\ nrSeen' = SpentSeen(reported)
    /\ UNCHANGED <<node, run, inst, past, notes, usage>>

\* The run was cancelled, or the node's own time is up.
AttemptInterrupted(reported) ==
    /\ work.pc = "agent" /\ Said(<<>>)
    /\ Result([work EXCEPT !.usage = SpentHere(reported)], "failed")
    /\ nrSeen' = SpentSeen(reported)
    /\ UNCHANGED <<node, run, inst, past, notes, usage>>

\* runWithRetries: transient errors first, then rate limits, and never back.
StageOf(class, stage, retries) ==
    IF "transient" \in class /\ (stage = 0 \/ (stage = 1 /\ retries < MaxTransient)) THEN 1
    ELSE IF "rate" \in class /\ (stage < 2 \/ retries < MaxRate) THEN 2
    ELSE 0
\* An error; it may look transient, like a rate limit, or both.  A call may stay unanswered when
\* the Agent died and its last messages could not be written.
AttemptFails(class, reported) ==
    /\ work.pc = "agent"
    /\ LET to == StageOf(class, work.stage, work.retries)
           w == [work EXCEPT !.usage = SpentHere(reported)]
       IN IF to = 0 THEN Result(w, "failed")
          ELSE work' = [w EXCEPT !.pc = "wait", !.stage = to,
                                 !.retries = IF to = work.stage THEN @ + 1 ELSE 1]
    /\ \/ Said(<<>>) /\ nrSeen' = SpentSeen(reported)
       \/ IsAgent /\ Said(<<"orphan">>) /\ Fault(SpentSeen(reported))
    /\ UNCHANGED <<node, run, inst, past, notes, usage>>

\* waitForGraphRetry: the time is up, and AttemptBegins; or the run was stopped.
WaitInterrupted ==
    /\ work.pc = "wait" /\ run.status # "running" /\ Result(work, "failed")
    /\ UNCHANGED <<node, run, inst, past, sess, notes, usage, nrSeen>>

-----------------------------------------------------------------------------
(* The scheduler takes the note and the result.                               *)

\* NormalizeTurnCoverage: one turn, estimated if any attempt was.
Turn(u) == [reported |-> IF u.estimated = 0 THEN 1 ELSE 0,
            estimated |-> IF u.estimated = 0 THEN 0 ELSE 1]
\* recordUsageSnapshot, under an id made of the instance and the start of the execution.
Recording ==
    usage' = IF IsAgent /\ work.ran
             THEN Append(usage, [run |-> Now, turn |-> Turn(work.usage), spent |-> work.usage])
             ELSE usage
Listed(s) == [sess EXCEPT ![s].listed = TRUE]

\* handleSessionOpened.
SessionOpened ==
    /\ run.status # "ended"
    /\ \E s \in notes :
        /\ notes' = notes \ {s} /\ sess' = Listed(s)
        /\ inst' = IF inst.status = "running" /\ inst.display = None
                   THEN [inst EXCEPT !.display = s] ELSE inst
    /\ UNCHANGED <<node, run, past, work, usage, nrSeen>>

Ended(w) == w.end = "done"
HandleResult ==
    /\ work.pc = "result" /\ run.status = "running"
    /\ LET status == IF ~ Ended(work) THEN "failed"
                     ELSE IF node.type = "clarify" THEN "awaiting" ELSE "succeeded" IN
        /\ inst' = [inst EXCEPT !.status = status, !.display = work.session]
        /\ run' = [run EXCEPT !.status = "closing"]
    /\ sess' = IF work.session # None THEN Listed(work.session) ELSE sess
    /\ Recording /\ work' = NoWork
    /\ UNCHANGED <<node, past, notes, nrSeen>>

\* drain takes it after a stop.
Drain ==
    /\ work.pc = "result" /\ run.status \in {"stopping", "expiring"}
    /\ sess' = IF work.session # None THEN Listed(work.session) ELSE sess
    /\ Recording /\ work' = NoWork
    /\ UNCHANGED <<node, run, inst, past, notes, nrSeen>>

Interrupted == IF inst.status = "running" THEN [inst EXCEPT !.status = "interrupted"] ELSE inst

\* A hard stop interrupts the instance first and drains after; when the run's time is up, the
\* drain comes first.
HardStop ==
    /\ run.status = "running" /\ inst.status = "running"
    /\ run' = [run EXCEPT !.status = "stopping"] /\ inst' = Interrupted
    /\ UNCHANGED <<node, past, work, sess, notes, usage, nrSeen>>
TimeOut ==
    /\ run.status = "running" /\ inst.status = "running"
    /\ run' = [run EXCEPT !.status = "expiring"]
    /\ UNCHANGED <<node, inst, past, work, sess, notes, usage, nrSeen>>
End ==
    /\ run.status \in {"closing", "stopping", "expiring"} /\ work.pc = "none" /\ notes = {}
    /\ run' = [run EXCEPT !.status = "ended"] /\ inst' = Interrupted
    /\ UNCHANGED <<node, past, work, sess, notes, usage, nrSeen>>

\* The workflow is edited; resetResettable, and what ResumeRun keeps of what it reset.
Edit ==
    /\ run.version = 1 /\ run' = [run EXCEPT !.version = 2]
    /\ UNCHANGED <<node, inst, past, work, sess, notes, usage, nrSeen>>
Resume ==
    /\ run.status = "ended" /\ inst.status \in {"failed", "interrupted"} /\ Now < MaxRuns
    /\ run' = [run EXCEPT !.status = "running"] /\ inst' = NoInst
    /\ past' = [version |-> inst.version,
                status |-> IF inst.display # None THEN inst.status ELSE past.status,
                display |-> IF inst.display # None THEN inst.display ELSE past.display]
    /\ UNCHANGED <<node, work, sess, notes, usage, nrSeen>>

Classes == SUBSET {"transient", "rate"}

Next ==
    \/ Enqueue \/ OpenShell \/ OpenCarried \/ OpenInherited \/ OpenNew \/ OpenFails
    \/ \E b \in BOOLEAN :
        \/ Record(b) \/ RecordNothing(b)
        \/ AttemptSucceeds(b) \/ AttemptMisses(b) \/ AttemptInterrupted(b)
        \/ \E c \in Classes : AttemptFails(c, b)
    \/ AttemptBegins \/ AttemptStillborn \/ WaitInterrupted
    \/ SessionOpened \/ HandleResult \/ Drain \/ HardStop \/ TimeOut \/ End \/ Edit \/ Resume

Spec == Init /\ [][Next]_nrVars

-----------------------------------------------------------------------------
Runs == DOMAIN nrSeen.runs

\* An Agent does not run without having been given the node's prompt, whatever end of its
\* history is cut off at the start of the turn and however often it is retried.  What is left out
\* is a turn that was stopped before its prompt was written and goes on with "继续" alone: with an
\* inherited session, or when the recording failed (resumeCarrySession, runtime.go:637).
PromptHeard ==
    \A r \in Runs : nrSeen.runs[r].deaf =>
        /\ nrSeen.runs[r].carried
        /\ node.inherit \/ \E q \in 1 .. r : nrSeen.runs[q].unrecorded

\* Every attempt is charged to one recorded turn, whether its result was handled or drained, and
\* a turn counts once, as estimated if any of its attempts was (NormalizeTurnCoverage).
TurnsCounted ==
    /\ \A a, b \in DOMAIN usage : usage[a].run = usage[b].run => a = b
    /\ \A a \in DOMAIN usage : LET r == nrSeen.runs[usage[a].run]   t == usage[a].turn IN
        /\ usage[a].spent = [reported |-> r.reported, estimated |-> r.estimated]
        /\ t.reported + t.estimated = 1 /\ (t.reported = 1 <=> r.estimated = 0)
    /\ \A r \in Runs : nrSeen.runs[r].reported + nrSeen.runs[r].estimated > 0 =>
        \/ r = Now /\ work.pc # "none"
        \/ \E a \in DOMAIN usage : usage[a].run = r

\* A session that a stopped or ended run opened can be found in the job, although its note may
\* have been dropped, or have come when nobody was waiting for it.
SessionsListed == run.status = "ended" => \A s \in Sessions : sess[s].open => sess[s].listed

\* All sessions of the instance are bound to the Agent of the version that it began with, however
\* often it is retried and the workflow edited.
BindingKept ==
    \A s, t \in Sessions :
        s # Upstream /\ t # Upstream /\ sess[s].open /\ sess[t].open =>
            sess[s].version = sess[t].version

NodeKept == PromptHeard /\ TurnsCounted /\ SessionsListed /\ BindingKept

\* A turn that was stopped goes on with its prompt known: it does not hold, see PromptHeard.
ContinueKnowsPrompt == \A r \in Runs : nrSeen.runs[r].deaf => nrSeen.runs[r].unrecorded

=============================================================================
