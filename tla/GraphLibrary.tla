------------------------------ MODULE GraphLibrary ------------------------------
(* The library of graph workflows and the launching of a run from it: edits and *)
(* deletions checked against the version the client saw, the migration of Agent *)
(* references by readers, and a launch request that may be repeated             *)
(* (services/graph/service.go, repository/graph_workflow.go, StartGraphRun in   *)
(* cmd/web/handler/graph.go). One workflow, and one client message id.          *)
EXTENDS Naturals

CONSTANTS
    Clients,
    Payloads,       \* hashes of what launch requests ask for, from 1
    MaxVersions,    \* edits of the workflow
    MaxStarts,      \* launch requests
    MaxFaults       \* failing launches and crashes

VARIABLES
    wf,         \* the workflow's file: UpdatedAt (0: none), Agent references, Deleted
    client,     \* each client: its request's progress, the version it saw, the copy it read
    job,        \* the Job of the client message id
    start,      \* who holds the launch lock; the requests, runs and faults so far
    glSeen      \* what went wrong

vars == <<wf, client, job, start, glSeen>>

None == "none"
NoFile == [at |-> 0, refs |-> "ids", del |-> FALSE]
Idle == [pc |-> "idle", saw |-> 0, copy |-> NoFile, payload |-> 0]
NoJob == [payload |-> 0, run |-> 0, del |-> FALSE]

Init ==
    /\ wf \in {NoFile, [at |-> 1, refs |-> "legacy", del |-> FALSE]}
    /\ client = [c \in Clients |-> Idle]
    /\ job = NoJob
    /\ start = [lock |-> None, asked |-> 0, runs |-> 0, faults |-> 0]
    /\ glSeen = {}

Goes(c, rec) == client' = [client EXCEPT ![c] = rec]
Answered(c, saw) == Goes(c, [Idle EXCEPT !.saw = saw])
Loads(c, pc) == Goes(c, [client[c] EXCEPT !.pc = pc, !.copy = wf])
Present == wf.at # 0 /\ ~wf.del

----------------------------------------------------------------------------
\* The repository: a write under the lock of the file, if it is still what the writer expects.

UnchangedOrDeleted(expected) == wf.at = expected
Unchanged(expected) == Present /\ wf.at = expected

CreateWorkflow(c) ==
    /\ client[c].pc = "idle" /\ wf.at = 0
    /\ wf' = [NoFile EXCEPT !.at = 1]
    /\ Answered(c, 1)
    /\ UNCHANGED <<job, start, glSeen>>

\* GetWorkflow, and ListWorkflows for each: legacy references are replaced in the file, which
\* keeps its UpdatedAt.
GetWorkflow(c) ==
    /\ client[c].pc = "idle"
    /\ IF ~Present THEN Answered(c, 0)
       ELSE \/ Answered(c, wf.at)               \* nothing to migrate, or nothing resolves
            \/ wf.refs = "legacy" /\ Loads(c, "migrate")
    /\ UNCHANGED <<wf, job, start, glSeen>>
\* On a conflict the newer value is migrated instead, once.
normalizeLoadedWorkflow(c) ==
    LET me == client[c] IN
    /\ me.pc \in {"migrate", "migrate again"}
    /\ IF Unchanged(me.copy.at)
       THEN wf' = [me.copy EXCEPT !.refs = "ids"] /\ Answered(c, me.copy.at)
       ELSE /\ UNCHANGED wf
            /\ IF ~Present THEN Answered(c, 0)
               ELSE IF me.pc = "migrate" /\ wf.refs = "legacy" THEN Loads(c, "migrate again")
               ELSE Answered(c, wf.at)
    /\ UNCHANGED <<job, start, glSeen>>

UpdateWorkflow(c) ==
    /\ client[c].pc = "idle" /\ client[c].saw # 0 /\ wf.at < MaxVersions
    /\ IF Unchanged(client[c].saw) THEN Loads(c, "update") ELSE Answered(c, 0)
    /\ UNCHANGED <<wf, job, start, glSeen>>
\* An edit with a new configuration has its references resolved; one without keeps the copy's.
UpdateIfUnchanged(c) ==
    LET me == client[c] IN
    /\ me.pc = "update"
    /\ IF Unchanged(me.saw)
       THEN /\ \E refs \in {"ids", me.copy.refs} :
                   wf' = [at |-> wf.at + 1, refs |-> refs, del |-> FALSE]
            /\ Answered(c, wf'.at)
            /\ glSeen' = glSeen \cup (IF wf.at # me.copy.at THEN {"edit lost"} ELSE {})
                                \cup (IF wf.del THEN {"revived"} ELSE {})
       ELSE Answered(c, 0) /\ UNCHANGED <<wf, glSeen>>
    /\ UNCHANGED <<job, start>>

DeleteWorkflow(c) ==
    /\ client[c].pc = "idle" /\ client[c].saw # 0
    /\ IF Present THEN Loads(c, "delete") ELSE Answered(c, 0)
    /\ UNCHANGED <<wf, job, start, glSeen>>
\* The mark does not change UpdatedAt.
SoftDelete(c) ==
    LET me == client[c] IN
    /\ me.pc = "delete"
    /\ wf' = IF Unchanged(me.saw) THEN [wf EXCEPT !.del = TRUE] ELSE wf
    /\ Answered(c, 0)
    /\ UNCHANGED <<job, start, glSeen>>

----------------------------------------------------------------------------
\* Launching a run.

\* Requests with one client message id are served one by one.
AlwaysFree == TRUE
LockFree == start.lock = None
lockGraphStart(c) ==
    /\ client[c].pc = "idle" /\ start.asked < MaxStarts /\ LockFree
    /\ \E p \in Payloads : Goes(c, [client[c] EXCEPT !.pc = "launch", !.payload = p])
    /\ start' = [start EXCEPT !.lock = c, !.asked = @ + 1]
    /\ UNCHANGED <<wf, job, glSeen>>
Unlocked == [start EXCEPT !.lock = None]
Replied(c) == Answered(c, client[c].saw)

\* The workflow is still the one the client saw.
resolveStartConfig(c) == Unchanged(client[c].saw)

\* Its id is made of the client message id, so that a Job made before a crash is found again.
Made(c) == [NoJob EXCEPT !.payload = client[c].payload]

\* A new Job needs a workspace and a directory inside of it.
WorkspaceMayRefuse == job.payload = 0

\* The Job of the id is found, though it be a tombstone, with the same payload or another, or it
\* is made, unless the workflow or the workspace's directory forbids it.
CreateRunJob(c) ==
    LET me == client[c] IN
    /\ me.pc = "launch"
    /\ \/ /\ job.payload # 0
          /\ IF job.payload = me.payload /\ job.run = 0
             THEN Goes(c, [me EXCEPT !.pc = "bind"]) /\ UNCHANGED start
             ELSE Replied(c) /\ start' = Unlocked       \* refused, or the run there is
          /\ UNCHANGED job
       \/ /\ job.payload = 0 /\ resolveStartConfig(c)
          /\ job' = Made(c)
          /\ Goes(c, [me EXCEPT !.pc = "bind"]) /\ UNCHANGED start
       \/ WorkspaceMayRefuse /\ Replied(c) /\ start' = Unlocked /\ UNCHANGED job
    /\ UNCHANGED <<wf, glSeen>>

\* StartRun binds a run to a Job that is no tombstone.
Bindable(c) == ~job.del /\ resolveStartConfig(c)
StartGraphRun(c) ==
    /\ client[c].pc = "bind" /\ job.payload # 0 /\ Bindable(c)
    /\ start' = [Unlocked EXCEPT !.runs = @ + 1]
    /\ job' = [job EXCEPT !.run = start.runs + 1]
    /\ glSeen' = IF job.run # 0 THEN glSeen \cup {"started twice"} ELSE glSeen
    /\ Replied(c)
    /\ UNCHANGED wf

\* Or it fails, and the Job goes with it; what of its deletion fails leaves the Job without a run,
\* or its tombstone, to the next request.
RollBack(c) ==
    /\ client[c].pc = "bind" /\ job.payload # 0
    /\ IF Bindable(c)
       THEN start.faults < MaxFaults /\ start' = [Unlocked EXCEPT !.faults = @ + 1]
       ELSE start' = Unlocked
    /\ job' \in {NoJob, [job EXCEPT !.del = TRUE], job}
    /\ glSeen' = IF job.run # 0 /\ job' # job THEN glSeen \cup {"run dropped"} ELSE glSeen
    /\ Replied(c)
    /\ UNCHANGED wf
JobGone(c) ==
    /\ client[c].pc = "bind" /\ job.payload = 0
    /\ start' = Unlocked /\ Replied(c)
    /\ UNCHANGED <<wf, job, glSeen>>

\* The user deletes the Job: the tombstone, then the directory.
DeleteJob ==
    /\ job.payload # 0
    /\ job' = IF job.del THEN NoJob ELSE [job EXCEPT !.del = TRUE]
    /\ UNCHANGED <<wf, client, start, glSeen>>

Crash ==
    /\ start.faults < MaxFaults
    /\ start' = [Unlocked EXCEPT !.faults = @ + 1]
    /\ client' = [c \in Clients |-> [Idle EXCEPT !.saw = client[c].saw]]
    /\ UNCHANGED <<wf, job, glSeen>>

----------------------------------------------------------------------------
Next ==
    \/ DeleteJob \/ Crash
    \/ \E c \in Clients :
           \/ CreateWorkflow(c) \/ GetWorkflow(c) \/ normalizeLoadedWorkflow(c)
           \/ UpdateWorkflow(c) \/ UpdateIfUnchanged(c) \/ DeleteWorkflow(c) \/ SoftDelete(c)
           \/ lockGraphStart(c) \/ CreateRunJob(c) \/ StartGraphRun(c) \/ RollBack(c) \/ JobGone(c)

Spec == Init /\ [][Next]_vars

----------------------------------------------------------------------------
\* No edit is written over one its author did not see, and none brings a deleted workflow back.
EditsMerge == glSeen \cap {"edit lost", "revived"} = {}

\* A repeated launch request starts one run, and its failure takes no run's Job away.
StartedOnce == glSeen \cap {"started twice", "run dropped"} = {}

GraphLibraryKept == EditsMerge /\ StartedOnce

\* Not ensured (see the README): a rename that read the file before a migration writes the legacy
\* references back.
MigrationSticks == [][wf.refs = "ids" => wf'.refs = "ids"]_wf
=============================================================================
