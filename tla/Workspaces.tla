------------------------------ MODULE Workspaces ------------------------------
(* The workspaces (services/workspace) with a file for each and a copy in       *)
(* memory, their deletion in two phases around the Jobs they hold, the default  *)
(* Agent they may name while that Agent is deleted, and the message presets     *)
(* (services/messagepreset) that outlive a workspace until they are rebound.    *)
EXTENDS Naturals, Sequences, FiniteSets, FiniteSetsExt, TLC

CONSTANTS
    Clients, Spaces,
    Cases       \* the workspaces there are at first, what is asked, how often, and the faults

VARIABLES
    disk, mem,  \* by workspace, its meta.json and its entry in the service
    op,         \* by actor, the operation it is in: a client's, or the cleanup of the Agent
    agent,      \* the deletion of the Agent, and the workspaces it still has to look at
    jobs,       \* the Jobs of the workspaces
    presets,    \* by workspace, its preset file
    view,       \* what a client has on its screen
    wsSeen      \* what was answered, and how often something was asked and failed

wsVars == <<disk, mem, op, agent, jobs, presets, view, wsSeen>>

-----------------------------------------------------------------------------
None == <<>>
Actors == Clients \cup {"agent"}
Fresh == [title |-> 0, agent |-> "", fav |-> FALSE, color |-> FALSE, order |-> 0,
          ver |-> 1, deleted |-> FALSE]

\* Get and List do not see a workspace that is marked.
Live(w) == mem[w] # None /\ ~mem[w].deleted
Active == {w \in Spaces : Live(w)}

Init ==
    /\ \E c \in Cases :
          /\ wsSeen = [case |-> c, n |-> 0, faults |-> 0, used |-> c.first,
                        gone |-> {}, back |-> {}, kept |-> {}]
          /\ mem = [w \in Spaces |->
                      IF w \in c.first THEN [Fresh EXCEPT !.order = w, !.agent = c.agent] ELSE None]
    /\ disk = mem
    /\ op = [a \in Actors |-> None]
    /\ agent = [at |-> "active", todo |-> {}]
    /\ jobs = {}
    /\ presets = [w \in Spaces |-> 0]
    /\ view = [c \in Clients |-> None]

MayFail == wsSeen.faults < wsSeen.case.faults
Faulty == [wsSeen EXCEPT !.faults = @ + 1]

\* One of a bounded number of requests.
Asked == [wsSeen EXCEPT !.n = @ + 1]
Offers(c, what) == what \in wsSeen.case.asks /\ op[c] = None /\ wsSeen.n < wsSeen.case.n
Asks(c, what) == Offers(c, what) /\ wsSeen' = Asked
Does(a, r) == op' = [op EXCEPT ![a] = r]
Ends(a) == Does(a, None)

(* lockFor: a writer has the lock of a workspace from its first look at the    *)
(* entry to its update of the entry.                                           *)
Locked(w) == \E a \in Actors : op[a] # None /\ w \in op[a].holds

-----------------------------------------------------------------------------
(* A client reads a workspace and its presets.                                 *)
Read(c, w) ==
    /\ op[c] = None /\ Live(w)
    /\ view' = [view EXCEPT ![c] = [w |-> w, ws |-> mem[w], presets |-> presets[w]]]
    /\ UNCHANGED <<disk, mem, op, agent, jobs, presets, wsSeen>>

(* Every change of one workspace is saved first; an error leaves all as it was. *)
Saves(c, w, new) ==
    \/ /\ disk' = [disk EXCEPT ![w] = new]
       /\ Does(c, [at |-> "apply", holds |-> {w}, new |-> w :> new])
       /\ wsSeen' = [Asked EXCEPT !.used = @ \cup {w}]
    \/ MayFail /\ wsSeen' = [Asked EXCEPT !.faults = @ + 1] /\ UNCHANGED <<disk, op>>

Bumped(w) == [mem[w] EXCEPT !.ver = @ + 1]

\* A default Agent is written under a lease on it, so that it is not being deleted.
Leased(a) == op[a] # None /\ op[a].at = "apply" /\ \E w \in op[a].holds : op[a].new[w].agent = "x"

\* The default Agent has to be in the catalog and active.
ValidDefault(name) == name = "x" => agent.at = "active"

Patch(c, w, new) ==
    /\ Offers(c, "patch") /\ Live(w) /\ ~Locked(w)
    /\ view[c] # None /\ view[c].w = w /\ view[c].ws.ver = mem[w].ver
    /\ ValidDefault(new.agent)
    /\ Saves(c, w, [Bumped(w) EXCEPT !.title = c, !.agent = new.agent])
    /\ UNCHANGED <<mem, agent, jobs, presets, view>>

SetFavorite(c, w) ==
    /\ Offers(c, "favorite") /\ Live(w) /\ ~Locked(w)
    /\ Saves(c, w, [Bumped(w) EXCEPT !.fav = ~@])
    /\ UNCHANGED <<mem, agent, jobs, presets, view>>

\* A new workspace has a new id and comes last in the list.
New(c, name) ==
    [Fresh EXCEPT !.title = c, !.agent = name,
                  !.order = 1 + Max({mem[v].order : v \in Active} \cup {0})]

Create(c, w, name) ==
    /\ Offers(c, "create") /\ w \notin wsSeen.used /\ ValidDefault(name)
    /\ Saves(c, w, New(c, name))
    /\ UNCHANGED <<mem, agent, jobs, presets, view>>

(* The entry in memory takes over what was saved.                              *)
Apply(a) ==
    /\ op[a] # None /\ op[a].at = "apply"
    /\ mem' = [w \in Spaces |-> IF w \in op[a].holds THEN op[a].new[w] ELSE mem[w]]
    /\ Ends(a)
    /\ UNCHANGED <<disk, agent, jobs, presets, view, wsSeen>>

-----------------------------------------------------------------------------
(* RegenerateAllColors goes through the workspaces it found, one lock at a     *)
(* time; a save that fails ends it, and what it did stays.                     *)
RegenerateAllColors(c) ==
    /\ Asks(c, "colors") /\ Does(c, [at |-> "colors", holds |-> {}, todo |-> Active])
    /\ UNCHANGED <<disk, mem, agent, jobs, presets, view>>

NextColor(c, w) ==
    LET new == [Bumped(w) EXCEPT !.color = ~@] todo == op[c].todo \ {w} IN
    /\ op[c] # None /\ op[c].at = "colors" /\ w \in op[c].todo /\ ~Locked(w)
    /\ \/ /\ ~Live(w)
          /\ Does(c, [op[c] EXCEPT !.todo = todo]) /\ UNCHANGED <<disk, wsSeen>>
       \/ /\ Live(w)
          /\ disk' = [disk EXCEPT ![w] = new] /\ wsSeen' = wsSeen
          /\ Does(c, [at |-> "colored", holds |-> {w}, todo |-> todo, w |-> w, new |-> w :> new])
       \/ Live(w) /\ MayFail /\ wsSeen' = Faulty /\ Ends(c) /\ disk' = disk
    /\ UNCHANGED <<mem, agent, jobs, presets, view>>

Colored(c) ==
    /\ op[c] # None /\ op[c].at = "colored"
    /\ mem' = [mem EXCEPT ![op[c].w] = op[c].new[op[c].w]]
    /\ Does(c, [at |-> "colors", holds |-> {}, todo |-> op[c].todo])
    /\ UNCHANGED <<disk, agent, jobs, presets, view, wsSeen>>

ColorsEnd(c) ==
    /\ op[c] # None /\ op[c].at = "colors" /\ op[c].todo = {} /\ Ends(c)
    /\ UNCHANGED <<disk, mem, agent, jobs, presets, view, wsSeen>>

-----------------------------------------------------------------------------
(* Reorder holds the locks of all it moves, saves them in turn, and takes back *)
(* what it saved when one of the saves fails.                                  *)
Orders == {s \in [1 .. Cardinality(Active) -> Active] : \A i, j \in DOMAIN s : s[i] = s[j] => i = j}

Reorder(c, ids) ==
    /\ Asks(c, "reorder") /\ \A i \in DOMAIN ids : ~Locked(ids[i])
    /\ Does(c, [at |-> "reorder", holds |-> Active, todo |-> ids, done |-> <<>>,
                new |-> [w \in Active |-> [Bumped(w) EXCEPT
                            !.order = CHOOSE i \in DOMAIN ids : ids[i] = w]]])
    /\ UNCHANGED <<disk, mem, agent, jobs, presets, view>>

ReorderSave(c) ==
    LET w == Head(op[c].todo) IN
    /\ op[c] # None /\ op[c].at = "reorder"
    /\ \/ /\ disk' = [disk EXCEPT ![w] = op[c].new[w]] /\ wsSeen' = wsSeen
          /\ Does(c, IF Len(op[c].todo) = 1
                     THEN [at |-> "apply", holds |-> op[c].holds, new |-> op[c].new]
                     ELSE [op[c] EXCEPT !.todo = Tail(@), !.done = Append(@, w)])
       \/ /\ MayFail /\ wsSeen' = Faulty /\ disk' = disk
          /\ IF op[c].done = <<>> THEN Ends(c) ELSE Does(c, [op[c] EXCEPT !.at = "undo"])
    /\ UNCHANGED <<mem, agent, jobs, presets, view>>

ReorderUndo(c) ==
    LET w == Head(op[c].done) IN
    /\ op[c] # None /\ op[c].at = "undo"
    /\ \/ disk' = [disk EXCEPT ![w] = mem[w]] /\ wsSeen' = wsSeen
       \/ MayFail /\ wsSeen' = Faulty /\ disk' = disk
    /\ IF Len(op[c].done) = 1 THEN Ends(c) ELSE Does(c, [op[c] EXCEPT !.done = Tail(@)])
    /\ UNCHANGED <<mem, agent, jobs, presets, view>>

-----------------------------------------------------------------------------
(* WorkspaceDelete: marked, then its Jobs, then its directory.                 *)
Delete(c, w) ==
    /\ Asks(c, "delete") /\ Live(w)
    /\ Does(c, [at |-> "mark", holds |-> {}, w |-> w])
    /\ UNCHANGED <<disk, mem, agent, jobs, presets, view>>

MarkDeleted(c) ==
    LET w == op[c].w new == [Bumped(w) EXCEPT !.deleted = TRUE] IN
    /\ op[c] # None /\ op[c].at = "mark" /\ ~Locked(w)
    /\ \/ /\ Live(w)
          /\ disk' = [disk EXCEPT ![w] = new]
          /\ Does(c, [at |-> "marked", holds |-> {w}, w |-> w, new |-> new])
          /\ wsSeen' = wsSeen
       \/ /\ mem[w] # None /\ mem[w].deleted
          /\ Does(c, [at |-> "jobs", holds |-> {}, w |-> w]) /\ UNCHANGED <<disk, wsSeen>>
       \/ mem[w] = None /\ Ends(c) /\ UNCHANGED <<disk, wsSeen>>
       \/ Live(w) /\ MayFail /\ wsSeen' = Faulty /\ Ends(c) /\ disk' = disk
    /\ UNCHANGED <<mem, agent, jobs, presets, view>>

\* From here on nobody resolves the workspace; who has done so still creates its Job.
Marked(c) ==
    /\ op[c] # None /\ op[c].at = "marked"
    /\ mem' = [mem EXCEPT ![op[c].w] = op[c].new]
    /\ op' = [a \in Actors |->
                IF a = c THEN [at |-> "jobs", holds |-> {}, w |-> op[c].w]
                ELSE IF op[a] # None /\ op[a].at = "job" /\ op[a].w = op[c].w
                THEN [op[a] EXCEPT !.late = TRUE] ELSE op[a]]
    /\ UNCHANGED <<disk, agent, jobs, presets, view, wsSeen>>

\* An error among the Jobs ends the request: the workspace stays marked.
DeleteJobs(c) ==
    LET w == op[c].w IN
    /\ op[c] # None /\ op[c].at = "jobs"
    /\ \/ /\ jobs' = {j \in jobs : j.w # w}
          /\ Does(c, [at |-> "remove", holds |-> {}, w |-> w]) /\ wsSeen' = wsSeen
       \/ MayFail /\ wsSeen' = Faulty /\ Ends(c) /\ jobs' = jobs
    /\ UNCHANGED <<disk, mem, agent, presets, view>>

(* RemoveDir fails: the mark is taken back, in memory even if it stays on disk. *)
RemoveDir(c) ==
    LET w == op[c].w IN
    /\ op[c] # None /\ op[c].at = "remove" /\ ~Locked(w)
    /\ \/ /\ mem[w] = None /\ Ends(c) /\ UNCHANGED <<disk, wsSeen>>
       \/ /\ mem[w] # None
          /\ disk' = [disk EXCEPT ![w] = None]
          /\ Does(c, [at |-> "removed", holds |-> {w}, w |-> w, new |-> None]) /\ wsSeen' = wsSeen
       \/ /\ MayFail /\ mem[w] # None
          /\ disk' \in {disk, [disk EXCEPT ![w] = None]}
          /\ Does(c, IF mem[w].deleted
                     THEN [at |-> "rollback", holds |-> {w}, w |-> w,
                           new |-> [mem[w] EXCEPT !.deleted = FALSE]]
                     ELSE None)
          /\ wsSeen' = Faulty
    /\ UNCHANGED <<mem, agent, jobs, presets, view>>

Rollback(c) ==
    LET w == op[c].w IN
    /\ op[c] # None /\ op[c].at = "rollback"
    /\ Does(c, [op[c] EXCEPT !.at = "removed"])
    /\ \/ disk' = [disk EXCEPT ![w] = op[c].new] /\ wsSeen' = [wsSeen EXCEPT !.back = @ \cup {w}]
       \/ /\ MayFail /\ disk' = disk
          /\ wsSeen' = [Faulty EXCEPT !.back = @ \cup {w}]
    /\ UNCHANGED <<mem, agent, jobs, presets, view>>

Removed(c) ==
    LET w == op[c].w IN
    /\ op[c] # None /\ op[c].at = "removed"
    /\ mem' = [mem EXCEPT ![w] = op[c].new]
    /\ wsSeen' = IF op[c].new = None THEN [wsSeen EXCEPT !.gone = @ \cup {w}] ELSE wsSeen
    /\ Ends(c)
    /\ UNCHANGED <<disk, agent, jobs, presets, view>>

(* buildJob resolves the workspace, and the Job is created a moment later.     *)
ResolveForJob(c, w) ==
    /\ Asks(c, "job") /\ Live(w)
    /\ Does(c, [at |-> "job", holds |-> {}, w |-> w, late |-> FALSE])
    /\ UNCHANGED <<disk, mem, agent, jobs, presets, view>>

CreateJob(c) ==
    /\ op[c] # None /\ op[c].at = "job"
    /\ jobs' = jobs \cup {[w |-> op[c].w, late |-> op[c].late]}
    /\ Ends(c)
    /\ UNCHANGED <<disk, mem, agent, presets, view, wsSeen>>

-----------------------------------------------------------------------------
(* The deletion of the Agent waits for the leases, then clears the defaults of *)
(* every workspace in a list it took at the start, or takes again.             *)
DeleteAgent ==
    /\ "agent" \in wsSeen.case.asks /\ agent.at = "active"
    /\ agent' = [agent EXCEPT !.at = "waits"]
    /\ UNCHANGED <<disk, mem, op, jobs, presets, view, wsSeen>>

ClearBegins ==
    /\ agent.at = "waits" /\ \A c \in Clients : ~Leased(c)
    /\ agent' = [at |-> "clears", todo |-> {w \in Active : mem[w].agent = "x"}]
    /\ UNCHANGED <<disk, mem, op, jobs, presets, view, wsSeen>>

ClearAgentDefaults(w) ==
    /\ agent.at = "clears" /\ w \in agent.todo /\ op["agent"] = None /\ ~Locked(w)
    /\ \/ /\ agent' = [agent EXCEPT !.todo = @ \ {w}] /\ wsSeen' = wsSeen
          /\ IF Live(w) /\ mem[w].agent = "x"
             THEN LET new == [Bumped(w) EXCEPT !.agent = ""] IN
                  /\ disk' = [disk EXCEPT ![w] = new]
                  /\ Does("agent", [at |-> "apply", holds |-> {w}, new |-> w :> new])
             ELSE UNCHANGED <<disk, op>>
       \* The deletion fails and is asked for once more.
       \/ /\ MayFail /\ wsSeen' = Faulty
          /\ agent' = [agent EXCEPT !.at = "waits"] /\ UNCHANGED <<disk, op>>
    /\ UNCHANGED <<mem, jobs, presets, view>>

ClearEnds ==
    /\ agent.at = "clears" /\ agent.todo = {} /\ op["agent"] = None
    /\ agent' = [agent EXCEPT !.at = "gone"]
    /\ UNCHANGED <<disk, mem, op, jobs, presets, view, wsSeen>>

-----------------------------------------------------------------------------
(* The repository of the presets has one lock; a revision is the hash of a file. *)
RepoFree == \A a \in Actors : op[a] # None => op[a].at # "rebound"

SavePresets(c) ==
    /\ view[c] # None /\ Live(view[c].w)
    /\ Asks(c, "presets")
    /\ Does(c, [at |-> "presets", holds |-> {}, w |-> view[c].w, id |-> wsSeen.n + 1])
    /\ UNCHANGED <<disk, mem, agent, jobs, presets, view>>

PresetsSaved(c) ==
    LET w == op[c].w IN
    /\ op[c] # None /\ op[c].at = "presets" /\ RepoFree
    /\ Ends(c)
    /\ IF view[c].presets = presets[w]
       THEN /\ presets' = [presets EXCEPT ![w] = op[c].id]
            /\ wsSeen' = [wsSeen EXCEPT !.kept = (@ \ {view[c].presets}) \cup {op[c].id}]
       ELSE UNCHANGED <<presets, wsSeen>>
    /\ UNCHANGED <<disk, mem, agent, jobs, view>>

(* ListOrphans, and what is done with one: it goes, or to another workspace.   *)
ReadOrphan(c, w) ==
    /\ op[c] = None /\ ~Live(w) /\ presets[w] # 0
    /\ view' = [view EXCEPT ![c] = [w |-> w, ws |-> None, presets |-> presets[w]]]
    /\ UNCHANGED <<disk, mem, op, agent, jobs, presets, wsSeen>>

DeleteOrphan(c) ==
    /\ view[c] # None /\ view[c].ws = None /\ ~Live(view[c].w) /\ Asks(c, "orphan")
    /\ Does(c, [at |-> "orphan", holds |-> {}])
    /\ UNCHANGED <<disk, mem, agent, jobs, presets, view>>

OrphanDeleted(c) ==
    LET w == view[c].w IN
    /\ op[c] # None /\ op[c].at = "orphan" /\ RepoFree
    /\ Ends(c)
    /\ IF presets[w] = view[c].presets
       THEN /\ presets' = [presets EXCEPT ![w] = 0]
            /\ wsSeen' = [wsSeen EXCEPT !.kept = @ \ {view[c].presets}]
       ELSE UNCHANGED <<presets, wsSeen>>
    /\ UNCHANGED <<disk, mem, agent, jobs, view>>

RebindOrphan(c, target) ==
    LET w == view[c].w IN
    /\ view[c] # None /\ view[c].ws = None /\ ~Live(w) /\ Live(target) /\ RepoFree
    /\ presets[w] # 0
    /\ Asks(c, "rebind")
    /\ Does(c, [at |-> "rebind", holds |-> {}, w |-> w, target |-> target, config |-> presets[w]])
    /\ UNCHANGED <<disk, mem, agent, jobs, presets, view>>

RebindWorkspace(c) ==
    /\ op[c] # None /\ op[c].at = "rebind" /\ RepoFree
    /\ IF presets[op[c].w] = view[c].presets /\ presets[op[c].target] = 0
       THEN /\ presets' = [presets EXCEPT ![op[c].target] = op[c].config]
            /\ Does(c, [op[c] EXCEPT !.at = "rebound"])
       ELSE presets' = presets /\ Ends(c)
    /\ UNCHANGED <<disk, mem, agent, jobs, view, wsSeen>>

RebindRemoves(c) ==
    /\ op[c] # None /\ op[c].at = "rebound"
    /\ Ends(c)
    /\ \/ presets' = [presets EXCEPT ![op[c].w] = 0] /\ wsSeen' = wsSeen
       \/ MayFail /\ wsSeen' = Faulty /\ presets' = [presets EXCEPT ![op[c].target] = 0]
    /\ UNCHANGED <<disk, mem, agent, jobs, view>>

-----------------------------------------------------------------------------
(* LoadAll skips what is marked, and the directory of such a one is swept.     *)
Restart ==
    /\ MayFail /\ wsSeen' = Faulty
    /\ mem' = [w \in Spaces |-> IF disk[w] = None \/ disk[w].deleted THEN None ELSE disk[w]]
    /\ disk' = mem'
    /\ op' = [a \in Actors |-> None]
    /\ agent' = [agent EXCEPT !.at = IF @ = "clears" THEN "waits" ELSE IF @ = "waits" THEN "active" ELSE @]
    /\ UNCHANGED <<jobs, presets, view>>

Next ==
    \/ \E c \in Clients :
          \/ \E w \in Spaces :
                \/ Read(c, w) \/ SetFavorite(c, w) \/ Delete(c, w) \/ ResolveForJob(c, w)
                \/ ReadOrphan(c, w) \/ RebindOrphan(c, w) \/ NextColor(c, w)
                \/ \E name \in {"", "x"} : Create(c, w, name) \/ Patch(c, w, [agent |-> name])
          \/ \E ids \in Orders : Reorder(c, ids)
          \/ ReorderSave(c) \/ ReorderUndo(c)
          \/ RegenerateAllColors(c) \/ Colored(c) \/ ColorsEnd(c)
          \/ MarkDeleted(c) \/ Marked(c) \/ DeleteJobs(c) \/ RemoveDir(c) \/ Rollback(c) \/ Removed(c)
          \/ CreateJob(c) \/ SavePresets(c) \/ PresetsSaved(c)
          \/ DeleteOrphan(c) \/ OrphanDeleted(c) \/ RebindWorkspace(c) \/ RebindRemoves(c)
    \/ \E a \in Actors : Apply(a)
    \/ DeleteAgent \/ ClearBegins \/ ClearEnds \/ \E w \in Spaces : ClearAgentDefaults(w)
    \/ Restart

Spec == Init /\ [][Next]_wsVars

-----------------------------------------------------------------------------
(* A version of a workspace stands for one content: who still has the current  *)
(* version on the screen has its content too, and a patch undoes nothing unseen. *)
VersionIsContent ==
    \A c \in Clients :
       view[c] # None /\ view[c].ws # None /\ mem[view[c].w] # None
          /\ view[c].ws.ver = mem[view[c].w].ver => view[c].ws = mem[view[c].w]

(* With nothing under way and no second failure, a restart finds what is in    *)
(* memory, and nothing of a workspace whose deletion was answered.             *)
FileIsMemory ==
    \A w \in Spaces :
       /\ ~Locked(w) /\ wsSeen.faults <= 1 => disk[w] = mem[w]
       /\ w \in wsSeen.gone => mem[w] = None /\ disk[w] = None

(* A deleted Agent is nobody's default, but for a workspace that was marked    *)
(* meanwhile and came back.                                                    *)
DefaultsCleared ==
    agent.at = "gone" => \A w \in Active \ wsSeen.back : mem[w].agent # "x"

(* A deleted workspace leaves no Job, but for those that had resolved it       *)
(* before it was marked.                                                       *)
JobsGo == \A j \in jobs : j.w \in wsSeen.gone \ wsSeen.back => j.late

(* Presets that were saved are in a file, until somebody who saw them replaces *)
(* or deletes them.                                                            *)
PresetsKept == \A p \in wsSeen.kept \ {0} : \E w \in Spaces : presets[w] = p

WorkspacesKept == VersionIsContent /\ FileIsMemory /\ DefaultsCleared /\ JobsGo /\ PresetsKept
=============================================================================
