---------------------------- MODULE RoundBuilder ----------------------------
(* One ACP Agent's conversation history (services/agent/round,               *)
(* services/agent/chatctx, repository/chat_context.go): the builder turns a  *)
(* stream of updates into rounds - an assistant message and one result per   *)
(* declared tool call - and the rounds become rows of messages.jsonl.        *)
(*                                                                           *)
(* Four actors meet on the builder's mutex and on the file's: the dispatcher *)
(* of session updates, the Run with its deferred close-out, StopAndFlush, and*)
(* the process, which may die in an append.  Every step below is one critical*)
(* section, one file operation or one batch of calls on the UI handler.      *)
EXTENDS Naturals, Sequences, FiniteSets, SequencesExt

CONSTANTS
    Tools,          \* ids of tool calls
    MaxRuns,        \* Runs of the Agent, one after the other (runSem)
    MaxUpdates,     \* bound: session updates up to the end of each Run
    MaxFails,       \* bound: failed appends, rewrites and crashes
    MaxStops        \* bound: StopAndFlush calls

VARIABLES
    bld,        \* the builder
    disk,       \* messages.jsonl, a sequence of rows
    live,       \* what the handler of each Run has been told
    disp,       \* the dispatcher, between the builder's lock and its callbacks
    run,        \* the Run holding runSem
    closer,     \* the two actors that close a round: the Run and StopAndFlush
    turn,       \* the Run whose turn the subprocess still works on, or 0
    rbSeen      \* history, see below

rbVars == <<bld, disk, live, disp, run, closer, turn, rbSeen>>

(* rbSeen counts the updates, the faults and the stops, and records what the *)
(* properties compare: the results each Run's builder accepted, the Runs     *)
(* that met a persistence error or reported success, the prompts appended,   *)
(* whether an append was torn since the last BeginRun, the Runs that were    *)
(* prompted behind such an append, the turn each call belongs to, the calls  *)
(* whose terminal has been sent, and whether a stray call was taken: one that*)
(* is declared again once its round is flushed and its result not awaited, or*)
(* declared behind the last round, between CollectMessages and the removal of*)
(* the handler (agent.go:959).  Only a Run that failed or was stopped meets  *)
(* them, for no update of a turn follows its end_turn.                       *)

RunIds == 1..MaxRuns
Closers == {"run", "stop"}

-----------------------------------------------------------------------------
(* Rows and rounds                                                           *)

User(n) == [kind |-> "user", of |-> n]
Assistant(calls) == [kind |-> "assistant", calls |-> calls]
Result(id, real) == [kind |-> "tool", id |-> id, real |-> real]     \* real, or a placeholder

Pending(b) == ToSet(b.calls) \ b.results

(* The assistant message, then the results in the order of declaration; a    *)
(* call without a result gets a placeholder.                                 *)
Round(b) == <<Assistant(b.calls)>>
            \o [i \in DOMAIN b.calls |-> Result(b.calls[i], b.calls[i] \in b.results)]

NewRound(b) == IF b.text \/ b.calls # <<>> THEN Round(b) ELSE <<>>

Flushed(b) == [b EXCEPT !.text = FALSE, !.calls = <<>>, !.results = {}, !.done = @ \o NewRound(b)]

Fresh(n) == [h |-> n, flush |-> n, stitch |-> n, open |-> FALSE, text |-> FALSE,
             calls |-> <<>>, results |-> {}, done |-> <<>>, late |-> {}]

(* Mutant: only the calls of the current round count as known.               *)
DeclaredInRound(b, id) == id \in ToSet(b.calls)

Declared(b, id) == id \in ToSet(b.calls) \cup b.late

(* Tools whose result is missing after the row that declares them.           *)
Unpaired(rows, i) ==
    {id \in ToSet(rows[i].calls) :
        ~ \E j \in i + 1 .. Len(rows) : rows[j].kind = "tool" /\ rows[j].id = id}

Orphans(rows) == {i \in DOMAIN rows : rows[i].kind = "assistant" /\ Unpaired(rows, i) # {}}

(* Mutant: the cut is off by one.                                            *)
WithoutOrphanResults(rows) ==
    IF Orphans(rows) = {} THEN rows
    ELSE SubSeq(rows, 1, CHOOSE i \in Orphans(rows) : \A j \in Orphans(rows) : i <= j)

(* The history without its earliest orphan round and all that follows it.    *)
WithoutOrphans(rows) ==
    IF Orphans(rows) = {} THEN rows
    ELSE SubSeq(rows, 1, (CHOOSE i \in Orphans(rows) : \A j \in Orphans(rows) : i <= j) - 1)

(* The first placeholder of the call, rewritten with the real result.        *)
Stitch(rows, id) ==
    LET held == {i \in DOMAIN rows : rows[i] = Result(id, FALSE)}
    IN  IF held = {} THEN rows
        ELSE [rows EXCEPT ![CHOOSE i \in held : \A j \in held : i <= j] = Result(id, TRUE)]

-----------------------------------------------------------------------------
(* What the handler is told: tools change their state, the bubble of a       *)
(* message or of a thought opens or closes.                                  *)

Notice(ids, as, open) == [ids |-> ids, as |-> as, open |-> open]

Told(v, e) == [open |-> IF e.open = "same" THEN v.open ELSE e.open = "yes",
               tools |-> [id \in Tools |-> IF id \in e.ids THEN e.as ELSE v.tools[id]]]

Tell(h, e) == live' = IF h = 0 THEN live ELSE [live EXCEPT ![h] = Told(@, e)]

Closing(b) == IF b.open THEN "no" ELSE "same"

-----------------------------------------------------------------------------
Idle == [pc |-> "idle", h |-> 0, rows |-> <<>>, fn |-> 0, id |-> "", ev |-> Notice({}, "", "same")]

Init ==
    /\ bld = [Fresh(0) EXCEPT !.flush = 0]
    /\ disk = <<>>
    /\ live = [n \in RunIds |-> [open |-> FALSE, tools |-> [id \in Tools |-> "none"]]]
    /\ disp = Idle
    /\ run = [n |-> 0, pc |-> "idle", res |-> "", cancelled |-> FALSE]
    /\ closer = [a \in Closers |-> Idle]
    /\ turn = 0
    /\ rbSeen = [updates |-> 0, fails |-> 0, stops |-> 0, got |-> [n \in RunIds |-> {}],
                 errs |-> {}, ok |-> {}, prompts |-> {}, torn |-> FALSE, behind |-> {},
                 owner |-> [id \in Tools |-> 0], sent |-> {}, stray |-> FALSE]

MayFail == rbSeen.fails < MaxFails

(* One append of a batch by the persister of Run n (0: StopAndFlush's own,   *)
(* which only logs).  A failed one may leave any proper prefix.              *)
Write(rows, n) ==
    \/ /\ disk' = disk \o rows
       /\ UNCHANGED rbSeen
    \/ /\ MayFail
       /\ \E k \in 0 .. Len(rows) - 1 :
             /\ disk' = disk \o SubSeq(rows, 1, k)
             /\ rbSeen' = [rbSeen EXCEPT !.fails = @ + 1, !.torn = @ \/ k > 0,
                                         !.errs = @ \cup ({n} \ {0})]

-----------------------------------------------------------------------------
(* The dispatcher.  An update reaches the builder while the session has its  *)
(* stream handler; the builder drops it once its UI handler is gone.         *)

Accepts ==
    /\ disp.pc = "idle" /\ bld.h # 0
    /\ turn # 0 /\ turn = run.n /\ run.pc \in {"prompt", "closing"}
    /\ rbSeen.updates < MaxUpdates[run.n]

Counted == [rbSeen EXCEPT !.updates = @ + 1]

Leave(b, rows, ev) ==
    /\ bld' = b
    /\ disp' = [Idle EXCEPT !.pc = IF rows # <<>> /\ bld.flush # 0 THEN "persist" ELSE "emit",
                            !.h = bld.h, !.rows = rows, !.fn = bld.flush, !.ev = ev]
    /\ UNCHANGED <<disk, live, run, closer, turn>>

(* A chunk of text or of reasoning, the two of them kept apart by nothing but*)
(* their buffers: either one opens its bubble and ends the other's.  With    *)
(* tool calls in the round it starts the next one: the calls still open are  *)
(* flushed as superseded placeholders and remembered for a late terminal.    *)
OnMessageChunk ==
    /\ Accepts
    /\ LET eager == bld.calls # <<>>
           base == IF eager THEN [Flushed(bld) EXCEPT !.late = @ \cup Pending(bld)] ELSE bld
       IN Leave([base EXCEPT !.text = TRUE, !.open = TRUE],
                IF eager THEN Round(bld) ELSE <<>>,
                Notice(Pending(bld), "interrupted", "yes"))
    /\ rbSeen' = Counted

(* Declared behind the last round, or again once it is forgotten.            *)
Stray(id) == \/ closer["run"].pc \in {"persist", "done"}
             \/ rbSeen.owner[id] # 0 /\ id \notin ToSet(bld.calls) \cup bld.late

(* A tool call.  Adapters without updates send it again with every change of *)
(* its status: an id in the round, or placeholdered and awaiting its late    *)
(* terminal, is known already and ignored.  One whose round was flushed      *)
(* otherwise opens a round of its own.                                       *)
OnToolCall(id) ==
    /\ Accepts
    /\ rbSeen.owner[id] \in {0, turn} /\ id \notin rbSeen.sent
    /\ ~Declared(bld, id)
    /\ Leave([bld EXCEPT !.calls = Append(@, id), !.open = FALSE], <<>>,
             Notice({id}, "started", Closing(bld)))
    /\ rbSeen' = [Counted EXCEPT !.owner[id] = turn, !.stray = @ \/ Stray(id)]

(* The terminal update of a call in the round: the first one counts, and the *)
(* last call's flushes the round.                                            *)
OnToolResult(id) ==
    /\ Accepts
    /\ id \in Pending(bld)
    /\ LET b == [bld EXCEPT !.results = @ \cup {id}]
           full == Pending(b) = {}
       IN Leave(IF full THEN Flushed(b) ELSE b, IF full THEN Round(b) ELSE <<>>,
                Notice({id}, "result", "same"))
    /\ rbSeen' = [Counted EXCEPT !.sent = @ \cup {id}, !.got[bld.h] = @ \cup {id}]

(* The terminal of a call whose round was superseded: it replaces the        *)
(* placeholder in memory here and, by the stitcher, on disk.                 *)
OnLateTerminal(id) ==
    /\ Accepts
    /\ id \in bld.late \ ToSet(bld.calls)
    /\ bld' = [bld EXCEPT !.late = @ \ {id}, !.done = Stitch(@, id)]
    /\ disp' = [Idle EXCEPT !.pc = IF bld.stitch # 0 THEN "stitch" ELSE "emit",
                            !.h = bld.h, !.fn = bld.stitch, !.id = id,
                            !.ev = Notice({id}, "result", "same")]
    /\ rbSeen' = [Counted EXCEPT !.sent = @ \cup {id}, !.got[bld.h] = @ \cup {id}]
    /\ UNCHANGED <<disk, live, run, closer, turn>>

(* A terminal for a call the builder no longer knows is dropped.             *)
DropTerminal(id) ==
    /\ Accepts
    /\ rbSeen.owner[id] = turn /\ id \notin rbSeen.sent
    /\ ~Declared(bld, id)
    /\ rbSeen' = [Counted EXCEPT !.sent = @ \cup {id}]
    /\ UNCHANGED <<bld, disk, live, disp, run, closer, turn>>

(* Outside the lock: first the file, so that a panic of the handler cannot   *)
(* lose the round, then the handler.                                         *)
DispatchPersist ==
    /\ disp.pc = "persist"
    /\ Write(disp.rows, disp.fn)
    /\ disp' = [disp EXCEPT !.pc = "emit", !.rows = <<>>, !.fn = 0, !.id = ""]
    /\ UNCHANGED <<bld, live, run, closer, turn>>

DispatchStitch ==
    /\ disp.pc = "stitch"
    /\ \/ /\ disk' = Stitch(disk, disp.id)
          /\ UNCHANGED rbSeen
       \/ /\ MayFail
          /\ rbSeen' = [rbSeen EXCEPT !.fails = @ + 1, !.errs = @ \cup {disp.fn}]
          /\ UNCHANGED disk
    /\ disp' = [disp EXCEPT !.pc = "emit", !.rows = <<>>, !.fn = 0, !.id = ""]
    /\ UNCHANGED <<bld, live, run, closer, turn>>

DispatchEmit ==
    /\ disp.pc = "emit"
    /\ Tell(disp.h, disp.ev)
    /\ disp' = Idle
    /\ UNCHANGED <<bld, disk, run, closer, turn, rbSeen>>

Updates ==
    \/ OnMessageChunk
    \/ \E id \in Tools : OnToolCall(id) \/ OnToolResult(id) \/ OnLateTerminal(id) \/ DropTerminal(id)
    \/ DispatchPersist \/ DispatchStitch \/ DispatchEmit

-----------------------------------------------------------------------------
(* Closing a round: EmitPendingEnds, then CollectMessages.  A Run does it as *)
(* its deferred close-out, StopAndFlush as a safety net of its own.          *)

Step(a, pc) == closer' = [closer EXCEPT ![a].pc = pc]

EndsTaken(a) ==
    /\ closer[a].pc = "ends"
    /\ closer' = [closer EXCEPT ![a] = [@ EXCEPT !.pc = "tell", !.h = bld.h,
                        !.ev = Notice(Pending(bld), "interrupted", Closing(bld))]]
    /\ bld' = [bld EXCEPT !.open = FALSE]
    /\ UNCHANGED <<disk, live, disp, run, turn, rbSeen>>

EndsTold(a) ==
    /\ closer[a].pc = "tell"
    /\ Tell(closer[a].h, closer[a].ev)
    /\ Step(a, IF a = "run" THEN "collect" ELSE "hooked")
    /\ UNCHANGED <<bld, disk, disp, run, turn, rbSeen>>

(* HasOnFlush, which decides later whether StopAndFlush persists by itself.  *)
FlushHooked ==
    /\ closer["stop"].pc = "hooked"
    /\ closer' = [closer EXCEPT !["stop"] = [@ EXCEPT !.pc = "collect", !.id =
                        IF bld.flush # 0 THEN "hooked" ELSE "inline"]]
    /\ UNCHANGED <<bld, disk, live, disp, run, turn, rbSeen>>

(* The last round goes through onFlush; what a stop drains without one, it   *)
(* appends itself.                                                           *)
Collect(a) ==
    /\ closer[a].pc = "collect"
    /\ LET all == bld.done \o NewRound(bld)
           inline == a = "stop" /\ closer[a].id = "inline"
           rows == IF inline THEN all
                   ELSE IF bld.flush # 0 THEN NewRound(bld) ELSE <<>>
       IN closer' = [closer EXCEPT ![a] = [Idle EXCEPT
                        !.pc = IF rows # <<>> THEN "persist" ELSE "done",
                        !.rows = rows, !.fn = IF inline THEN 0 ELSE bld.flush]]
    /\ bld' = [Flushed(bld) EXCEPT !.done = <<>>]
    /\ UNCHANGED <<disk, live, disp, run, turn, rbSeen>>

ClosePersist(a) ==
    /\ closer[a].pc = "persist"
    /\ Write(closer[a].rows, closer[a].fn)
    /\ closer' = [closer EXCEPT ![a] = [Idle EXCEPT !.pc = "done"]]
    /\ UNCHANGED <<bld, live, disp, run, turn>>

CloseRound(a) == EndsTaken(a) \/ EndsTold(a) \/ Collect(a) \/ ClosePersist(a)

-----------------------------------------------------------------------------
(* A Run.                                                                    *)

RunAt(pc) == run.pc = pc
To(pc) == run' = [run EXCEPT !.pc = pc]

(* Mutant: the prompt is appended before the orphans are looked for.         *)
AppendFirstBeginRun ==
    /\ RunAt("idle") /\ run.n < MaxRuns
    /\ closer["stop"].pc = "idle"
    /\ disk' = WithoutOrphans(Append(disk, User(run.n + 1)))
    /\ run' = [run EXCEPT !.n = @ + 1, !.pc = "begun", !.res = "", !.cancelled = FALSE]
    /\ rbSeen' = [rbSeen EXCEPT !.prompts = @ \cup {run.n + 1}, !.torn = FALSE]
    /\ UNCHANGED <<bld, live, disp, closer, turn>>

(* BeginRun, under the file's lock: drop the earliest orphan round and what  *)
(* follows it, append the prompt.  A failed rewrite appends nothing.         *)
BeginRun ==
    /\ RunAt("idle") /\ run.n < MaxRuns
    /\ closer["stop"].pc = "idle"           \* a stopped Job starts no Run before its stop returns
    /\ LET n == run.n + 1
           kept == WithoutOrphans(disk)
           begun == [run EXCEPT !.n = n, !.pc = "begun", !.res = "", !.cancelled = FALSE]
           failed == [run EXCEPT !.n = n, !.res = "error", !.cancelled = FALSE]
       IN \/ /\ disk' = Append(kept, User(n))
             /\ run' = begun
             /\ rbSeen' = [rbSeen EXCEPT !.prompts = @ \cup {n}, !.torn = FALSE]
          \/ /\ MayFail
             /\ run' = failed
             /\ \E d \in {kept, disk} :
                   /\ disk' = d
                   /\ rbSeen' = [rbSeen EXCEPT !.fails = @ + 1, !.torn = @ /\ d # kept]
    /\ UNCHANGED <<bld, live, disp, closer, turn>>

(* Reset and SetStitcher, while no update can reach the builder.             *)
Reset ==
    /\ RunAt("begun")
    /\ bld' = Fresh(run.n)
    /\ To("wired")
    /\ UNCHANGED <<disk, live, disp, closer, turn, rbSeen>>

(* The prompt slot, SetStreamHandler and session/prompt; or the context ends *)
(* while the Run waits for the slot, and it never installs its close-out.    *)
Prompt ==
    /\ RunAt("wired")
    /\ \/ /\ disp.pc = "idle"
          /\ To("prompt") /\ turn' = run.n
          /\ rbSeen' = [rbSeen EXCEPT !.behind = @ \cup (IF rbSeen.torn THEN {run.n} ELSE {})]
       \/ /\ run' = [run EXCEPT !.pc = "capture", !.res = "error"]
          /\ UNCHANGED <<turn, rbSeen>>
    /\ UNCHANGED <<bld, disk, live, disp, closer>>

Finish(res) ==
    /\ run' = [run EXCEPT !.pc = "closing", !.res = res]
    /\ Step("run", "ends")
    /\ UNCHANGED <<bld, disk, live, disp, rbSeen>>

(* end_turn follows the updates of its turn.  It is a success unless a call  *)
(* of the round is unfinished or nothing was produced.                       *)
EndTurn ==
    /\ RunAt("prompt") /\ disp.pc = "idle"
    /\ turn' = 0
    /\ Finish(IF run.cancelled \/ Pending(bld) # {} \/ bld.done \o NewRound(bld) = <<>>
              THEN "error" ELSE "ok")

(* An error, or a cancelled context: the subprocess may go on for a while.   *)
PromptFails ==
    /\ RunAt("prompt")
    /\ UNCHANGED turn
    /\ Finish("error")

ClearHandler ==
    /\ RunAt("closing") /\ closer["run"].pc = "done"
    /\ bld' = [bld EXCEPT !.h = 0]
    /\ Step("run", "idle")
    /\ To("capture")
    /\ UNCHANGED <<disk, live, disp, turn, rbSeen>>

(* Mutant: what the close-out failed to write is only logged.                *)
LoggedCapture ==
    /\ RunAt("capture")
    /\ To("unwire")
    /\ rbSeen' = [rbSeen EXCEPT !.ok = @ \cup (IF run.res = "ok" THEN {run.n} ELSE {})]
    /\ UNCHANGED <<bld, disk, live, disp, closer, turn>>

(* CapturePersistErrTo: a persistence error turns success into failure.      *)
Capture ==
    /\ RunAt("capture")
    /\ To("unwire")
    /\ rbSeen' = [rbSeen EXCEPT !.ok = @ \cup
                    (IF run.res = "ok" /\ run.n \notin rbSeen.errs THEN {run.n} ELSE {})]
    /\ UNCHANGED <<bld, disk, live, disp, closer, turn>>

ClearOnFlush ==
    /\ RunAt("unwire")
    /\ bld' = [bld EXCEPT !.flush = 0, !.stitch = 0]
    /\ To("idle")
    /\ UNCHANGED <<disk, live, disp, closer, turn, rbSeen>>

RunStep ==
    \/ BeginRun \/ Reset \/ Prompt \/ EndTurn \/ PromptFails
    \/ ClearHandler \/ Capture \/ ClearOnFlush

-----------------------------------------------------------------------------
(* StopAndFlush cancels the Run, waits for it, at most 12 s, and flushes.    *)
StopAndFlush ==
    /\ closer["stop"].pc = "idle" /\ rbSeen.stops < MaxStops /\ run.n > 0
    /\ run' = [run EXCEPT !.cancelled = run.pc # "idle"]
    /\ Step("stop", "wait")
    /\ rbSeen' = [rbSeen EXCEPT !.stops = @ + 1]
    /\ UNCHANGED <<bld, disk, live, disp, turn>>

StopWaited ==
    /\ closer["stop"].pc = "wait"
    /\ \/ RunAt("idle")
       \/ run.cancelled /\ run.pc \in {"prompt", "closing"}    \* it hangs past the timeout
    /\ Step("stop", "ends")
    /\ UNCHANGED <<bld, disk, live, disp, run, turn, rbSeen>>

StopDone ==
    /\ closer["stop"].pc = "done"
    /\ Step("stop", "idle")
    /\ UNCHANGED <<bld, disk, live, disp, run, turn, rbSeen>>

(* The process dies; an append may have written a part of its rows.  The     *)
(* pages that were open reload the history.                                  *)
Crash ==
    /\ MayFail
    /\ \/ UNCHANGED disk
       \/ \E rows \in {disp.rows, closer["run"].rows, closer["stop"].rows} :
             \E k \in 1 .. Len(rows) - 1 :
                /\ \/ disp.pc = "persist" /\ rows = disp.rows
                   \/ \E a \in Closers : closer[a].pc = "persist" /\ rows = closer[a].rows
                /\ disk' = disk \o SubSeq(rows, 1, k)
    /\ bld' = [Fresh(0) EXCEPT !.flush = 0]
    /\ disp' = Idle
    /\ closer' = [a \in Closers |-> Idle]
    /\ run' = [run EXCEPT !.pc = "idle", !.res = "crashed"]
    /\ turn' = 0
    /\ rbSeen' = [rbSeen EXCEPT !.fails = @ + 1, !.torn = TRUE]
    /\ live' = [n \in RunIds |-> [open |-> FALSE, tools |-> [id \in Tools |->
                  IF \E i \in DOMAIN disk : disk[i] = Result(id, TRUE)
                  THEN "result" ELSE "none"]]]

Next ==
    \/ Updates \/ RunStep
    \/ \E a \in Closers : CloseRound(a)
    \/ FlushHooked \/ StopAndFlush \/ StopWaited \/ StopDone
    \/ Crash

Spec == Init /\ [][Next]_rbVars

-----------------------------------------------------------------------------
(* Until a stray call is taken, no call has two results on disk: one that is *)
(* declared again while it is known is ignored (builder.go:1048).            *)
OneRowPerCall ==
    \A i, j \in DOMAIN disk :
        i < j /\ disk[i].kind = "tool" /\ disk[j].kind = "tool" => disk[i].id # disk[j].id

(* Until a stray call is taken: once a Run has passed BeginRun, every        *)
(* assistant row on disk is followed by the results of its calls, one each   *)
(* and in their order, unless an append was torn since: what two writers     *)
(* interleave are whole rounds, and the residue of a crash is gone before the*)
(* next prompt.                                                              *)
HistoryPaired ==
    /\ rbSeen.stray \/ OneRowPerCall
    /\ rbSeen.stray \/ rbSeen.torn \/ \A i \in DOMAIN disk :
          disk[i].kind = "assistant" =>
              /\ Len(disk) >= i + Len(disk[i].calls)
              /\ \A j \in DOMAIN disk[i].calls :
                    disk[i + j].kind = "tool" /\ disk[i + j].id = disk[i].calls[j]

(* Until a stray call is taken, a prompt that was accepted is never cut with *)
(* an orphan round: it is on disk exactly once, after every prompt before it.*)
PromptsKept ==
    LET Prompts == {i \in DOMAIN disk : disk[i].kind = "user"} IN
    rbSeen.stray \/
        /\ {disk[i].of : i \in Prompts} = rbSeen.prompts
        /\ \A i, j \in Prompts : i < j => disk[i].of < disk[j].of

(* A Run that reports success has on disk the real result of every call      *)
(* whose terminal it accepted, the late ones included, and its live view     *)
(* agrees with that row, until a stray call is taken, and unless an append of*)
(* an earlier Run was torn before it was prompted: what it wrote behind that *)
(* round is cut with it.  Its view has nothing left open, with no exception  *)
(* but the instant in which a StopAndFlush has taken the ends over and is    *)
(* about to tell them.                                                       *)
SuccessIsSettled ==
    \A n \in rbSeen.ok :
        /\ rbSeen.stray \/ n \in rbSeen.behind \/ \A id \in rbSeen.got[n] :
              /\ \E i \in DOMAIN disk : disk[i] = Result(id, TRUE)
              /\ live[n].tools[id] = "result"
        /\ closer["stop"].pc # "tell" =>
              ~live[n].open /\ \A id \in Tools : live[n].tools[id] # "started"

(* Not so without the exceptions: a complete round behind an orphan is what  *)
(* "normal flows never produce" (manager.go:310), but one failing append does*)
(* - the dispatcher's, of a Run that is over, after the next one's BeginRun  *)
(* has looked - and what that next Run wrote is cut once it has succeeded.   *)
(* And with stray calls HistoryPaired fails: StopAndFlush writes a second    *)
(* time a round that was flushed behind the last collection, a call that was *)
(* closed with a placeholder gets a round more, and that round's result      *)
(* hides a torn one from the cut.                                            *)
ResultsStay ==
    \A n \in rbSeen.ok : \A id \in rbSeen.got[n] :
        \E i \in DOMAIN disk : disk[i] = Result(id, TRUE)

=============================================================================
