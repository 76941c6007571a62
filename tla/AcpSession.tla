------------------------------ MODULE AcpSession ------------------------------
(* One session of an ACP subprocess, as ACPAgent keeps it (services/agent/acp, *)
(* pkg/acp): the model, mode and thought level that the user selects while     *)
(* Runs come and go, the restoration of the session after a cancellation or a  *)
(* dead subprocess, and what a prompt has used, taken from a running total.    *)
EXTENDS Naturals, Sequences

CONSTANTS
    MaxRuns, MaxSwitches, MaxFaults,    \* bounds
    Recorded,   \* the selections a session may be recorded with, each [model, mode, thought]
    Switches,   \* the options the user changes and to what: pairs <<option, value>>
    Colds       \* what a new subprocess makes of the total: it is "kept", starts at "zero", or is
                \* rolled "back" to an older one

VARIABLES
    proc,       \* the subprocess: its number, its session's configuration, total and state
    agent,      \* ACPAgent: caches of the configuration, usage cursor, needSessionReset
    store,      \* the selection in the session's record, in memory and on disk
    run,        \* the Run that holds runSem
    sw,         \* a live switch of an option
    stops,      \* cancel notifications that are on their way
    apSeen      \* counts, usage consumed and reported, and whether caches were written out of
                \* order, a stop came late, a total was rolled back, a tail stayed

apVars == <<proc, agent, store, run, sw, stops, apSeen>>

-----------------------------------------------------------------------------
Options == {"model", "mode", "thought"}
Unset == [o \in Options |-> 0]
(* Model 2 has no thought level.                                               *)
HasThought(cfg) == cfg.model # 2

(* The subprocess links its options: another model resets the thought level.   *)
Set(cfg, o, v) ==
    IF o = "model" THEN [cfg EXCEPT !.model = v, !.thought = 0] ELSE [cfg EXCEPT ![o] = v]

NoRun == [pc |-> "idle", sel |-> Unset, todo |-> <<>>, cancelled |-> FALSE, live |-> FALSE]
NoSwitch == [pc |-> "idle", opt |-> "mode", val |-> 0, gen |-> 0]
NoAgent == [up |-> FALSE, gen |-> 0, cur |-> Unset, id |-> FALSE, known |-> FALSE, last |-> 0,
            reset |-> FALSE]

Init ==
    /\ proc = [gen |-> 0, alive |-> FALSE, cfg |-> Unset, total |-> 0, dirty |-> FALSE,
               busy |-> FALSE, stopped |-> FALSE]
    /\ agent = NoAgent
    /\ \E sel \in Recorded : store = [mem |-> sel, disk |-> sel]
    /\ run = NoRun
    /\ sw = NoSwitch
    /\ stops = 0
    /\ apSeen = [runs |-> 0, switches |-> 0, faults |-> 0, used |-> 0, told |-> 0,
                 raced |-> FALSE, late |-> FALSE, back |-> FALSE, tail |-> FALSE]

Fault == [apSeen EXCEPT !.faults = @ + 1]
MayFail == apSeen.faults < MaxFaults
Connected == agent.up /\ proc.alive /\ agent.gen = proc.gen
Idle == run.pc = "idle" /\ sw.pc = "idle"

-----------------------------------------------------------------------------
(* Mutant: a restored session is taken to have the configuration it had.       *)
ForgottenNot(a, cfg) == [a EXCEPT !.id = HasThought(cfg)]

(* A restored session has its own configuration or the defaults; what the      *)
(* Agent knew of it is forgotten.                                              *)
Forgotten(a, cfg) == [a EXCEPT !.cur = Unset, !.id = HasThought(cfg)]
Configs == {proc.cfg, Unset}
Totals(how) == CASE how = "kept" -> {proc.total} [] how = "zero" -> {0}
                 [] how = "back" -> {t \in 0 .. proc.total : t < proc.total}

(* A new subprocess that restores the session, by resume or by load.           *)
Cold(a, next) ==
    \E how \in Colds : \E total \in Totals(how) : \E cfg \in Configs :
        /\ proc' = [gen |-> proc.gen + 1, alive |-> TRUE, cfg |-> cfg, total |-> total,
                    dirty |-> FALSE, busy |-> FALSE, stopped |-> FALSE]
        /\ agent' = [Forgotten(a, cfg) EXCEPT !.gen = proc.gen + 1]
        /\ apSeen' = [next EXCEPT !.raced = sw.pc = "publish", !.tail = FALSE,
                                  !.back = @ \/ (how = "back" /\ a.known)]

(* The first Agent of a session knows that the total starts at zero; one made  *)
(* for a recorded session does not know where it stands.                       *)
NewACPAgent == [NoAgent EXCEPT !.up = TRUE, !.known = proc.gen = 0]
Create ==
    /\ ~agent.up /\ (run.pc = "start" \/ sw.pc = "start")
    /\ Cold(NewACPAgent, apSeen)
    /\ UNCHANGED <<store, run, sw, stops>>

RunStart ==
    /\ run.pc = "idle" /\ apSeen.runs < MaxRuns
    /\ run' = [NoRun EXCEPT !.pc = "start"]
    /\ apSeen' = [apSeen EXCEPT !.runs = @ + 1]
    /\ UNCHANGED <<proc, agent, store, sw, stops>>

(* reconnectIfNeeded, at the start and again when the connection is gone.      *)
Reconnect ==
    /\ run.pc \in {"start", "use"} /\ agent.up /\ ~Connected
    /\ \/ Cold(agent, apSeen) /\ UNCHANGED run
       \/ MayFail /\ run' = NoRun /\ apSeen' = Fault /\ UNCHANGED <<proc, agent>>
    /\ UNCHANGED <<store, sw, stops>>

(* restoreACPSession on a live connection. An adapter may answer that the      *)
(* session is loaded: nothing changes.                                         *)
Restored(a, next) ==
    /\ proc.alive
    /\ \E cfg \in Configs :
          /\ proc' = [proc EXCEPT !.cfg = cfg, !.dirty = FALSE]
          /\ agent' = Forgotten(a, cfg)
    /\ apSeen' = [apSeen EXCEPT !.raced = sw.pc = "publish", !.tail = FALSE]
    /\ run' = [run EXCEPT !.pc = next]
AlreadyLoaded(a, next) ==
    /\ proc.alive
    /\ proc' = [proc EXCEPT !.dirty = FALSE]
    /\ agent' = a
    /\ apSeen' = [apSeen EXCEPT !.tail = FALSE]
    /\ run' = [run EXCEPT !.pc = next]

(* needSessionReset is taken, and put back when the restoration fails.         *)
Reset ==
    /\ run.pc = "start" /\ Connected
    /\ IF ~agent.reset
       THEN run' = [run EXCEPT !.pc = "use"] /\ UNCHANGED <<proc, agent, apSeen>>
       ELSE LET a == [agent EXCEPT !.reset = FALSE] IN
            \/ Restored(a, "use") \/ AlreadyLoaded(a, "use")
            \/ MayFail /\ run' = NoRun /\ apSeen' = Fault /\ UNCHANGED <<proc, agent>>
    /\ UNCHANGED <<store, sw, stops>>

(* BeginRun; when it has cut an orphaned tail the session is restored. If that *)
(* fails the tail is gone from disk and nothing asks for it again.             *)
BeginRun ==
    /\ run.pc = "use" /\ Connected
    /\ \/ run' = [run EXCEPT !.pc = "read"] /\ UNCHANGED <<proc, agent, apSeen>>
       \/ MayFail /\ Restored(agent, "read")
       \/ MayFail /\ AlreadyLoaded(agent, "read")
       \/ MayFail /\ run' = NoRun /\ apSeen' = [Fault EXCEPT !.tail = TRUE]
          /\ UNCHANGED <<proc, agent>>
    /\ UNCHANGED <<store, sw, stops>>

-----------------------------------------------------------------------------
PersistedConfig ==
    /\ run.pc = "read"
    /\ run' = [run EXCEPT !.pc = "apply", !.sel = store.mem, !.live = sw.pc # "idle",
                          !.todo = <<"model", "mode", "thought">>]
    /\ UNCHANGED <<proc, agent, store, sw, stops, apSeen>>

(* An option that is unset, was pushed before or is not offered is skipped.    *)
Skips(o) == run.sel[o] = 0 \/ run.sel[o] = agent.cur[o] \/ (o = "thought" /\ ~agent.id)

ApplyPersistedConfig ==
    LET o == Head(run.todo) IN
    /\ run.pc = "apply"
    /\ IF run.todo = <<>> THEN run' = [run EXCEPT !.pc = "send"] /\ UNCHANGED <<proc, apSeen>>
       ELSE IF Skips(o) THEN run' = [run EXCEPT !.todo = Tail(@)] /\ UNCHANGED <<proc, apSeen>>
       ELSE \/ /\ Connected /\ (o = "thought" => HasThought(proc.cfg))
               /\ proc' = [proc EXCEPT !.cfg = Set(@, o, run.sel[o])]
               /\ run' = [run EXCEPT !.pc = "publish"]
               /\ UNCHANGED apSeen
            \/ /\ MayFail \/ ~Connected \/ (o = "thought" /\ ~HasThought(proc.cfg))
               /\ run' = NoRun
               /\ apSeen' = IF MayFail THEN Fault ELSE apSeen
               /\ UNCHANGED proc
    /\ UNCHANGED <<agent, store, sw, stops>>

(* Mutant: the thought level is taken to outlive a change of the model.        *)
PushedModelOnly(o, v) == [agent EXCEPT !.cur[o] = v]

(* The answer of set_model names the options that go with the model.           *)
Pushed(o, v) ==
    IF o = "model"
    THEN [agent EXCEPT !.cur = [@ EXCEPT !.model = v, !.thought = 0],
                       !.id = HasThought([proc.cfg EXCEPT !.model = v])]
    ELSE [agent EXCEPT !.cur[o] = v]

PublishApplied ==
    LET o == Head(run.todo) IN
    /\ run.pc = "publish"
    /\ agent' = Pushed(o, run.sel[o])
    /\ run' = [run EXCEPT !.pc = "apply", !.todo = Tail(@)]
    /\ apSeen' = [apSeen EXCEPT !.raced = @ \/ sw.pc = "publish"]
    /\ UNCHANGED <<proc, store, sw, stops>>

-----------------------------------------------------------------------------
SendPrompt ==
    /\ run.pc = "send"
    /\ IF Connected
       THEN /\ run' = [run EXCEPT !.pc = "prompt"]
            /\ proc' = [proc EXCEPT !.busy = TRUE, !.stopped = FALSE]
       ELSE run' = NoRun /\ UNCHANGED proc
    /\ UNCHANGED <<agent, store, sw, stops, apSeen>>

(* Mutant: the first total of a restored session counts.                       *)
DeltaFromStart(total) == IF total < agent.last THEN total ELSE total - agent.last

(* takePromptUsageDelta: what a prompt adds to the total. The first total of   *)
(* an unknown session only sets the cursor; a smaller one starts anew.         *)
Delta(total) == IF ~agent.known THEN 0
                ELSE IF total < agent.last THEN total ELSE total - agent.last

Cursor(a, total) == [a EXCEPT !.known = TRUE, !.last = total]

(* The prompt ends by itself, by a stop, or in an error, has used one unit and *)
(* may report it.                                                              *)
(* A Run whose own context was cancelled asks for a restoration.               *)
PromptEnds ==
    /\ run.pc = "prompt" /\ Connected
    /\ LET total == proc.total + 1
           a == [agent EXCEPT !.reset = @ \/ run.cancelled]
           next == [apSeen EXCEPT !.used = @ + 1]
       IN  /\ proc' = [proc EXCEPT !.total = total, !.busy = FALSE,
                                   !.dirty = @ \/ run.cancelled \/ proc.stopped]
           /\ \/ agent' = Cursor(a, total)
                 /\ apSeen' = [next EXCEPT !.told = @ + Delta(total)]
              \/ agent' = a /\ apSeen' = next
    /\ run' = NoRun
    /\ UNCHANGED <<store, sw, stops>>

PromptLost ==
    /\ run.pc = "prompt" /\ ~Connected
    /\ run' = NoRun
    /\ agent' = [agent EXCEPT !.reset = @ \/ run.cancelled]
    /\ UNCHANGED <<proc, store, sw, stops, apSeen>>

(* Cancel: the context at once; the subprocess is told by another goroutine.   *)
Cancel ==
    /\ run.pc # "idle" /\ ~run.cancelled /\ stops = 0
    /\ run' = [run EXCEPT !.cancelled = TRUE]
    /\ stops' = 1
    /\ UNCHANGED <<proc, agent, store, sw, apSeen>>
CancelSession ==
    /\ stops > 0
    /\ stops' = 0
    /\ proc' = [proc EXCEPT !.stopped = @ \/ proc.busy]
    /\ apSeen' = [apSeen EXCEPT !.late = @ \/ (proc.busy /\ ~run.cancelled)]
    /\ UNCHANGED <<agent, store, run, sw>>
(* A step that waits for the subprocess gives up with its context.             *)
Abandon ==
    /\ run.cancelled /\ run.pc \in {"start", "use", "apply", "send"}
    /\ run' = NoRun
    /\ UNCHANGED <<proc, agent, store, sw, stops, apSeen>>

-----------------------------------------------------------------------------
(* A live switch: the connection and the session are read, the subprocess is   *)
(* told, the cache is written, then the record.                                *)
SwitchStart(o, v) ==
    /\ sw.pc = "idle" /\ apSeen.switches < MaxSwitches
    /\ sw' = [NoSwitch EXCEPT !.pc = "start", !.opt = o, !.val = v]
    /\ apSeen' = [apSeen EXCEPT !.switches = @ + 1]
    /\ UNCHANGED <<proc, agent, store, run, stops>>

SwitchSnapshot ==
    /\ sw.pc = "start" /\ agent.up
    /\ sw' = IF sw.opt = "thought" /\ ~agent.id THEN NoSwitch
             ELSE [sw EXCEPT !.pc = "call", !.gen = agent.gen]
    /\ UNCHANGED <<proc, agent, store, run, stops, apSeen>>

SwitchCall ==
    LET works == proc.alive /\ proc.gen = sw.gen /\ (sw.opt = "thought" => HasThought(proc.cfg))
    IN
    /\ sw.pc = "call"
    /\ \/ /\ works
          /\ proc' = [proc EXCEPT !.cfg = Set(@, sw.opt, sw.val)]
          /\ sw' = [sw EXCEPT !.pc = "publish"]
          /\ run' = [run EXCEPT !.live = TRUE]
          /\ UNCHANGED apSeen
       \/ /\ ~works \/ MayFail
          /\ sw' = NoSwitch
          /\ apSeen' = IF works THEN Fault ELSE apSeen
          /\ UNCHANGED <<proc, run>>
    /\ UNCHANGED <<agent, store, stops>>

SwitchPublish ==
    /\ sw.pc = "publish"
    /\ agent' = Pushed(sw.opt, sw.val)
    /\ sw' = [sw EXCEPT !.pc = "persist"]
    /\ apSeen' = [apSeen EXCEPT !.raced = @ \/ sw.gen # agent.gen \/ run.pc = "publish" \/ run.live]
    /\ UNCHANGED <<proc, store, run, stops>>

(* A selection that cannot be saved is only logged.                            *)
SwitchPersist ==
    /\ sw.pc = "persist"
    /\ \/ LET mem == [store.mem EXCEPT ![sw.opt] = sw.val] IN
          store' = [mem |-> mem, disk |-> mem] /\ UNCHANGED apSeen
       \/ MayFail /\ apSeen' = Fault /\ UNCHANGED store
    /\ sw' = NoSwitch
    /\ UNCHANGED <<proc, agent, run, stops>>

-----------------------------------------------------------------------------
SubprocessDies ==
    /\ MayFail /\ proc.alive
    /\ proc' = [proc EXCEPT !.alive = FALSE, !.busy = FALSE]
    /\ apSeen' = Fault
    /\ UNCHANGED <<agent, store, run, sw, stops>>

(* The cache drops the Agent, which nobody has leased.                         *)
Evict ==
    /\ MayFail /\ Idle /\ agent.up
    /\ agent' = NoAgent
    /\ apSeen' = Fault
    /\ UNCHANGED <<proc, store, run, sw, stops>>

Restart ==
    /\ MayFail
    /\ agent' = NoAgent /\ run' = NoRun /\ sw' = NoSwitch /\ stops' = 0
    /\ store' = [store EXCEPT !.mem = store.disk]
    /\ proc' = [proc EXCEPT !.alive = FALSE, !.busy = FALSE]
    /\ apSeen' = Fault

Next ==
    \/ Create \/ RunStart \/ Reconnect \/ Reset \/ BeginRun \/ PersistedConfig
    \/ ApplyPersistedConfig \/ PublishApplied \/ SendPrompt \/ PromptEnds \/ PromptLost
    \/ Cancel \/ CancelSession \/ Abandon
    \/ \E s \in Switches : SwitchStart(s[1], s[2])
    \/ SwitchSnapshot \/ SwitchCall \/ SwitchPublish \/ SwitchPersist
    \/ SubprocessDies \/ Evict \/ Restart

Spec == Init /\ [][Next]_apVars

-----------------------------------------------------------------------------
(* A prompt is sent to a session that has the recorded model, mode and, if the *)
(* model offers it, thought level: unless a live switch came in between, or    *)
(* one has left the caches in the wrong order.                                 *)
PromptAsSelected ==
    run.pc = "send" /\ ~run.live /\ ~apSeen.raced /\ Connected =>
        \A o \in Options : run.sel[o] # 0 =>
            proc.cfg[o] = run.sel[o] \/ (o = "thought" /\ ~HasThought(proc.cfg))

(* What the caches say was pushed is what the session has.                     *)
CachesTrue == Connected /\ run.pc = "idle" /\ sw.pc = "idle" =>
    \A o \in Options : agent.cur[o] \in {0, proc.cfg[o]}

(* No use is reported twice, unless the subprocess has lost part of its total. *)
UsageOnce == apSeen.back \/ apSeen.told <= apSeen.used
UsageNeverTwice == apSeen.told <= apSeen.used

(* A session whose prompt was cancelled is restored before the next one; a     *)
(* stop that arrives late cancels a prompt that nobody asked to cancel.        *)
CleanSession == run.pc = "prompt" /\ ~apSeen.late => ~proc.dirty
StopIsOwn == ~apSeen.late
(* A subprocess is not prompted that still has a tail the history has lost.    *)
TailForgotten == run.pc = "prompt" => ~apSeen.tail

AcpSessionKept == PromptAsSelected /\ UsageOnce /\ CleanSession
=============================================================================
