------------------------------- MODULE JobFields -------------------------------
(* The record of one Job under its targeted mutators: a user renames it,      *)
(* shares it, withdraws the link and deletes it while its graph run attaches  *)
(* a session, reports a state and is unlinked. Each of them holds the persist *)
(* shard of the Job from its snapshot to its mirror, a share shows in memory  *)
(* before it is on disk, and lists are read without the shard, by version.    *)
EXTENDS Naturals, FiniteSets

CONSTANTS
    Writers,        \* goroutines that change the Job
    MaxOps,         \* bound: changes asked for
    MaxFaults       \* bound: saves that fail, and crashes

VARIABLES
    disk, mem,      \* job.json and the live Job
    shard,          \* {} or the writer that holds the persist shard
    op,             \* per writer: what it does, how far it is, and the record it saves
    list,           \* the list version, and what a client read of the list at which version
    jfSeen          \* tokens given by a share that saved, or early by one that found them in memory;
                    \* tokens minted, the tombstone on disk, and what is spent

vars == <<disk, mem, shard, op, list, jfSeen>>

NewJob == [title |-> 0, token |-> 0, show |-> FALSE, sessions |-> {}, run |-> 1,
           status |-> "running", del |-> FALSE]
Rest == [pc |-> "rest", kind |-> "none", arg |-> 0, cp |-> NewJob, old |-> NewJob]

Requests ==
    {<<"title", 1>>, <<"session", 1>>, <<"state", "completed">>, <<"unlink", 1>>, <<"fail", 0>>,
     <<"share", TRUE>>, <<"share", FALSE>>, <<"unshare", FALSE>>, <<"delete", 0>>}

Init ==
    /\ disk = NewJob /\ mem = NewJob /\ shard = {}
    /\ op = [w \in Writers |-> Rest]
    /\ list = [version |-> 0, pc |-> "rest", at |-> 0, title |-> 0, token |-> 0, new |-> 0]
    /\ jfSeen = [given |-> {}, early |-> {}, minted |-> 0, tomb |-> NewJob, crashed |-> FALSE,
                  ops |-> 0, faults |-> 0]

Terminal(s) == s \in {"completed", "failed"}

ShareTokenAnew == jfSeen.minted + 1
\* The token of a share: the one there is, or a new one; generated under the shard, so that two
\* shares do not each make one.
ShareToken == IF mem.token = 0 THEN jfSeen.minted + 1 ELSE mem.token

\* A Job after a request: one field of it.
Changed(kind, arg, j) ==
    CASE kind = "title"   -> [j EXCEPT !.title = arg]
      [] kind = "session" -> [j EXCEPT !.sessions = @ \cup {arg}]
      [] kind = "state"   -> [j EXCEPT !.status = arg]
      [] kind = "unlink"  -> [j EXCEPT !.run = 0]
      [] kind = "fail"    -> [j EXCEPT !.status = "failed"]
      [] kind = "share"   -> [j EXCEPT !.token = ShareToken, !.show = arg]
      [] kind = "unshare" -> [j EXCEPT !.token = 0, !.show = FALSE]
      [] kind = "delete"  -> [j EXCEPT !.del = TRUE]

\* The idempotent paths: there is nothing to save.
NothingToDo(kind, arg) ==
    \/ kind = "session" /\ arg \in mem.sessions
    \/ kind = "unlink" /\ mem.run # arg
    \/ kind = "delete" /\ mem.del
    \/ kind = "unshare" /\ mem.token = 0 /\ ~mem.show
SharedAlready(kind, arg) == kind = "share" /\ mem.token # 0 /\ mem.show = arg

Asks(w, kind, arg) ==
    /\ op[w].pc = "rest" /\ jfSeen.ops < MaxOps
    /\ jfSeen' = [jfSeen EXCEPT !.ops = @ + 1]
    /\ op' = [op EXCEPT ![w] = [Rest EXCEPT !.pc = "shard", !.kind = kind, !.arg = arg]]

\* A share, its withdrawal and a failed launch look at the live Job before they wait for the shard,
\* and may leave it at that.
LeaveEarly(w) ==
    /\ op[w].pc = "shard"
    /\ \/ mem.del /\ op[w].kind \in {"share", "unshare", "fail"}
       \/ SharedAlready(op[w].kind, op[w].arg)
       \/ op[w].kind = "unshare" /\ NothingToDo(op[w].kind, op[w].arg)
       \/ op[w].kind = "fail" /\ Terminal(mem.status)
    /\ op' = [op EXCEPT ![w] = Rest]
    /\ jfSeen' = [jfSeen EXCEPT !.early = IF ~mem.del /\ op[w].kind = "share" THEN @ \cup {mem.token} ELSE @]
    /\ UNCHANGED <<disk, mem, shard, list>>

\* FailGraphJob passes its check of the status, which it does not repeat under the shard.
CheckFails(w) ==
    /\ op[w].pc = "shard" /\ op[w].kind = "fail" /\ ~mem.del /\ ~Terminal(mem.status)
    /\ op' = [op EXCEPT ![w].pc = "checked"]
    /\ UNCHANGED <<disk, mem, shard, list, jfSeen>>

EntersAtOnce(w) == TRUE
\* A writer may take the shard.
Enters(w) == shard = {}

\* A tombstone takes no durable change; what its graph run still reports stays in memory.
Late(kind, arg, j) ==
    CASE kind \in {"session", "fail"} -> Changed(kind, arg, j)
      [] kind = "state" /\ j.run = 1 -> Changed(kind, arg, j)
      [] OTHER -> j

Ready(w) == op[w].pc = IF op[w].kind = "fail" THEN "checked" ELSE "shard"

Refused(w) ==
    /\ Ready(w) /\ Enters(w)
    /\ mem.del \/ NothingToDo(op[w].kind, op[w].arg)
    /\ mem' = IF mem.del THEN Late(op[w].kind, op[w].arg, mem) ELSE mem
    /\ op' = [op EXCEPT ![w] = Rest]
    /\ UNCHANGED <<disk, shard, list, jfSeen>>

\* What shows in memory at once: a share, its withdrawal and a failure; the rest is mirrored later.
Shown(kind) == kind \in {"share", "unshare", "fail"}

\* The snapshot: a deep copy with the change applied to it.
Snapshot(w) ==
    /\ Ready(w) /\ Enters(w)
    /\ ~mem.del /\ ~NothingToDo(op[w].kind, op[w].arg)
    /\ shard' = shard \cup {w}
    /\ LET cp == Changed(op[w].kind, op[w].arg, mem)
       IN /\ op' = [op EXCEPT ![w].pc = "save", ![w].cp = cp, ![w].old = mem]
          /\ mem' = IF Shown(op[w].kind) THEN cp ELSE mem
          /\ jfSeen' = [jfSeen EXCEPT !.minted = IF cp.token > @ THEN cp.token ELSE @]
    /\ UNCHANGED <<disk, list>>

Save(w) ==
    /\ op[w].pc = "save"
    /\ disk' = op[w].cp
    /\ op' = [op EXCEPT ![w].pc = "mirror"]
    /\ jfSeen' = CASE op[w].kind = "delete" -> [jfSeen EXCEPT !.tomb = op[w].cp]
                    [] op[w].kind = "unshare" -> [jfSeen EXCEPT !.given = {}, !.early = {}]
                    [] OTHER -> jfSeen
    /\ UNCHANGED <<mem, shard, list>>

RolledBackNever(w) == mem
\* A failed save takes a share back, if it is still the one in memory; a failed end stays.
RolledBack(w) ==
    IF /\ op[w].kind \in {"share", "unshare"} /\ mem.token = op[w].cp.token
       /\ op[w].kind = "share" => mem.show = op[w].cp.show
    THEN [mem EXCEPT !.token = op[w].old.token, !.show = op[w].old.show] ELSE mem

SaveFails(w) ==
    /\ op[w].pc = "save" /\ jfSeen.faults < MaxFaults
    /\ jfSeen' = [jfSeen EXCEPT !.faults = @ + 1]
    /\ mem' = RolledBack(w)
    /\ shard' = shard \ {w} /\ op' = [op EXCEPT ![w] = Rest]
    /\ UNCHANGED <<disk, list>>

Mirror(w) ==
    /\ op[w].pc = "mirror"
    /\ mem' = IF Shown(op[w].kind) THEN mem ELSE Changed(op[w].kind, op[w].arg, mem)
    /\ op' = [op EXCEPT ![w].pc = "bump"]
    /\ UNCHANGED <<disk, shard, list, jfSeen>>

\* The list version moves after the change is in memory, and the caller has its answer.
Bump(w) ==
    /\ op[w].pc = "bump"
    /\ list' = [list EXCEPT !.version = @ + 1]
    /\ shard' = shard \ {w} /\ op' = [op EXCEPT ![w] = Rest]
    /\ jfSeen' = [jfSeen EXCEPT !.given = IF op[w].kind = "share" THEN @ \cup {op[w].cp.token} ELSE @]
    /\ UNCHANGED <<disk, mem>>

\* A list: the version first, the summaries after it. A client that has the version is told that
\* nothing changed.
ListVersion ==
    /\ list.pc = "rest" /\ list.at # list.version
    /\ list' = [list EXCEPT !.pc = "read", !.new = list.version]
    /\ UNCHANGED <<disk, mem, shard, op, jfSeen>>
ListSummaries ==
    /\ list.pc = "read" /\ ~mem.del
    /\ list' = [list EXCEPT !.pc = "rest", !.at = list.new, !.title = mem.title, !.token = mem.token]
    /\ UNCHANGED <<disk, mem, shard, op, jfSeen>>

\* The process is started again: the live Job is what is on disk, the list version begins at zero,
\* and the client keeps what it has read.
Crash ==
    /\ jfSeen.faults < MaxFaults
    /\ jfSeen' = [jfSeen EXCEPT !.faults = @ + 1, !.crashed = TRUE]
    /\ mem' = disk /\ shard' = {} /\ op' = [w \in Writers |-> Rest]
    /\ list' = [list EXCEPT !.pc = "rest", !.version = 0]
    /\ UNCHANGED disk

Next ==
    \/ \E w \in Writers :
        \/ \E r \in Requests : Asks(w, r[1], r[2]) /\ UNCHANGED <<disk, mem, shard, list>>
        \/ LeaveEarly(w) \/ CheckFails(w) \/ Refused(w) \/ Snapshot(w)
        \/ Save(w) \/ SaveFails(w) \/ Mirror(w) \/ Bump(w)
    \/ ListVersion \/ ListSummaries \/ Crash

Spec == Init /\ [][Next]_vars

AtRest == shard = {}

\* Two changes of one Job do not undo each other: with nobody in the shard, memory is what is on
\* disk, the status aside, which a failed save of an end leaves behind (updateJobField, ConfigureShare).
MemoryIsDisk ==
    AtRest /\ ~mem.del => \A f \in {"title", "token", "show", "sessions", "run"} : mem[f] = disk[f]

\* A tombstone is not written again, whatever its graph run reports late.
TombstoneStays == disk.del => disk = jfSeen.tomb /\ (AtRest => mem.del)

\* Every link that a caller was given by a share that saved it, and that nobody withdrew, opens the
\* Job: there is one, it is the one in memory and on disk.
GivenTokenOpens == AtRest /\ ~mem.del => \A t \in jfSeen.given : mem.token = t /\ disk.token = t

\* A client that is told its list is current has the title the Job has (WorkspaceListVersion).
ListIsCurrent ==
    AtRest /\ ~jfSeen.crashed /\ ~mem.del /\ list.pc = "rest" /\ list.at = list.version => list.title = mem.title

JobFieldsKept == MemoryIsDisk /\ TombstoneStays /\ GivenTokenOpens /\ ListIsCurrent

\* So does one that a share found in memory; but for a failed save of the share that made it.
EarlyTokenOpens == AtRest /\ ~mem.del => \A t \in jfSeen.early : mem.token = t /\ disk.token = t

\* The list version begins at zero with the process: a client of the one before may be told that
\* its list is current when it is not.
ListOutlivesRestart ==
    AtRest /\ ~mem.del /\ list.pc = "rest" /\ list.at = list.version => list.title = mem.title

\* Holds but for a failed save: the list of a client that is told it is current shows the token.
ListedTokenIsReal ==
    AtRest /\ ~mem.del /\ list.pc = "rest" /\ list.at = list.version => list.token = mem.token
=============================================================================
