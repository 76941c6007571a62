------------------------------- MODULE EinoRun -------------------------------
(* One session of the Eino CLI (einocli/app, runtime, round, chatctx, store): *)
(* its prompts, the Run of each with the goroutine of the Agent framework that *)
(* works ahead of it, the history with its summary, and the session's file.    *)
EXTENDS Naturals, Sequences, FiniteSets, FiniteSetsExt

CONSTANTS
    Prompts,                        \* numbers of the prompts
    MaxAnswers,                     \* bound: model calls of a Run
    MaxCompacts,                    \* bound: summaries
    MaxEvents,                      \* bound: changes of the session's model, failed writes, broken
                                    \* streams and crashes, taken together
    Race        \* may the model change between a prompt's runtimeFor and the start of its Run?

VARIABLES
    disk,       \* messages.jsonl, a sequence of rows
    summary,    \* summary.json: how many rows it stands for, and (history) which
    prm,        \* per prompt its Run
    runtimes,   \* the runtimes: whose cancel function each holds, and who has its runSem
    cur,        \* sessionState: the cached runtime, its key, promptCancel
    meta,       \* meta.json: the model and the usage, in memory and on disk; what was reported
    erSeen      \* counts, and whether an append was torn, a summary was counted as a message, a
                \* sum of usage was lost, and two Runs were at work

erVars == <<disk, summary, prm, runtimes, cur, meta, erSeen>>

-----------------------------------------------------------------------------
(* A row of the history is known by its tag: the prompt, the answer's number,  *)
(* and the call for a tool's result.                                           *)
User(p) == [kind |-> "user", of |-> p, n |-> 0, id |-> 0, calls |-> {}, real |-> TRUE]
Assistant(p, n, calls) ==
    [kind |-> "assistant", of |-> p, n |-> n, id |-> 0, calls |-> calls, real |-> TRUE]
Result(p, n, id, real) ==
    [kind |-> "tool", of |-> p, n |-> n, id |-> id, calls |-> {}, real |-> real]
Tag(row) == <<row.kind, row.of, row.n, row.id>>
Tags(rows) == {Tag(rows[i]) : i \in DOMAIN rows}

(* An answer arrives in fragments, each for one position and with an id or a   *)
(* name. A call is declared when both are known.                               *)
Streams == {<<>>, <<<<1, "id">>, <<1, "name">>>>,
            <<<<1, "id">>, <<2, "id">>, <<1, "name">>>>}
Declared(frags) ==
    {pos \in {1, 2} : \A part \in {"id", "name"} : \E i \in DOMAIN frags : frags[i] = <<pos, part>>}
Called(frags) == {frags[i][1] : i \in DOMAIN frags}

NoBuilder == [n |-> 0, text |-> FALSE, calls |-> {}, results |-> {}]
(* The round that is in the builder: an assistant's row, a result per call.    *)
Round(p, b) ==
    IF ~b.text /\ b.calls = {} THEN <<>>
    ELSE <<Assistant(p, b.n, b.calls)>>
         \o [i \in 1 .. Cardinality(b.calls) |->
                LET id == CHOOSE c \in b.calls : Cardinality({d \in b.calls : d < c}) = i - 1
                IN  Result(p, b.n, id, id \in b.results)]

Orphans(from) ==
    {i \in DOMAIN disk : i > from /\ \E id \in disk[i].calls :
        ~ \E j \in DOMAIN disk : j > i /\ disk[j].kind = "tool" /\ disk[j].id = id
                                 /\ disk[j].of = disk[i].of /\ disk[j].n = disk[i].n}
(* An index beyond the rows is not trusted: the whole file is scanned.         *)
ScanFrom == IF summary.index > Len(disk) THEN 0 ELSE summary.index
WithoutOrphans ==
    IF Orphans(ScanFrom) = {} THEN disk ELSE SubSeq(disk, 1, Min(Orphans(ScanFrom)) - 1)

-----------------------------------------------------------------------------
NoMemory == [rows |-> {}, sum |-> "none", heard |-> {}]
NoRun == [pc |-> "none", rt |-> 0, cancelled |-> FALSE, mem |-> NoMemory, n |-> 0,
          agent |-> "none", tools |-> {}, queue |-> <<>>, bld |-> NoBuilder, err |-> FALSE, broken |-> FALSE,
          res |-> "none"]

Init ==
    /\ disk = <<>>
    /\ summary = [index |-> 0, covers |-> {}]
    /\ prm = [p \in Prompts |-> NoRun]
    /\ runtimes = <<>>
    /\ cur = [rt |-> 0, key |-> 0, cancel |-> 0]
    /\ meta = [model |-> 1, usage |-> 0, fileModel |-> 1, file |-> 0, reported |-> 0]
    /\ erSeen = [events |-> 0, compacts |-> 0, torn |-> FALSE, nested |-> FALSE,
                 unsaved |-> FALSE, shared |-> FALSE]

Event == [erSeen EXCEPT !.events = @ + 1]
MayFail == erSeen.events < MaxEvents
At(p, pc) == prm[p].pc = pc
Running(r) == \E p \in Prompts : prm[p].rt = r /\ prm[p].pc \notin {"none", "got", "respond", "done"}

-----------------------------------------------------------------------------
(* session/prompt: getOrLoadState and runtimeFor. A runtime whose inputs have  *)
(* changed is replaced, unless a Run of it is under way.                       *)
Prompt(p) ==
    /\ At(p, "none") /\ \A q \in Prompts : q < p => ~At(q, "none")
    /\ IF cur.rt # 0 /\ cur.key # meta.model /\ Running(cur.rt)
       THEN /\ prm' = [prm EXCEPT ![p].pc = "done", ![p].res = "error"]
            /\ UNCHANGED <<runtimes, cur>>
       ELSE LET build == cur.rt = 0 \/ cur.key # meta.model
                r == IF build THEN Len(runtimes) + 1 ELSE cur.rt
            IN  /\ runtimes' = IF build THEN Append(runtimes, [cancel |-> 0, sem |-> 0])
                               ELSE runtimes
                /\ cur' = [cur EXCEPT !.rt = r, !.key = meta.model]
                /\ prm' = [prm EXCEPT ![p].pc = "got", ![p].rt = r]
    /\ UNCHANGED <<disk, summary, meta, erSeen>>

Cancelled(q) == IF q = 0 THEN prm ELSE [prm EXCEPT ![q].cancelled = TRUE]

(* promptCancel is installed; the Run counts as running, and cancels the one   *)
(* before it.                                                                  *)
Enter(p) ==
    /\ At(p, "got")
    /\ cur' = [cur EXCEPT !.cancel = p]
    /\ prm' = [Cancelled(runtimes[prm[p].rt].cancel) EXCEPT ![p].pc = "wait"]
    /\ UNCHANGED <<disk, summary, runtimes, meta, erSeen>>

Acquire(p) ==
    /\ At(p, "wait") /\ runtimes[prm[p].rt].sem = 0
    /\ runtimes' = [runtimes EXCEPT ![prm[p].rt] = [cancel |-> p, sem |-> p]]
    /\ prm' = [prm EXCEPT ![p].pc = "begin"]
    /\ erSeen' = [erSeen EXCEPT !.shared = @ \/ \E r \in DOMAIN runtimes : runtimes[r].sem # 0]
    /\ UNCHANGED <<disk, summary, cur, meta>>

GiveUp(p) ==
    /\ At(p, "wait") /\ prm[p].cancelled
    /\ prm' = [prm EXCEPT ![p].pc = "respond", ![p].res = "cancelled"]
    /\ UNCHANGED <<disk, summary, runtimes, cur, meta, erSeen>>

Leave(p, res) == prm' = [prm EXCEPT ![p].pc = "leave", ![p].res = res]

Saved(m) == [m EXCEPT !.file = m.usage, !.fileModel = m.model]

(* BeginRun: the orphans are cut, the prompt is appended, and the session's    *)
(* file touched, which writes all of it.                                       *)
BeginRun(p) ==
    /\ At(p, "begin")
    /\ \/ /\ ~prm[p].cancelled
          /\ disk' = Append(WithoutOrphans, User(p))
          /\ prm' = [prm EXCEPT ![p].pc = "load"]
          /\ meta' = Saved(meta)
          /\ erSeen' = [erSeen EXCEPT !.torn = FALSE]
       \/ /\ prm[p].cancelled
          /\ Leave(p, "cancelled")
          /\ UNCHANGED <<disk, meta, erSeen>>
       \/ /\ MayFail
          /\ Leave(p, "error")
          /\ \E d \in {disk, WithoutOrphans} :
                /\ disk' = d
                /\ erSeen' = [Event EXCEPT !.torn = @ /\ d # WithoutOrphans]
          /\ UNCHANGED meta
    /\ UNCHANGED <<summary, runtimes, cur>>

Messages(from) == Tags(SubSeq(disk, from, Len(disk)))

(* LoadMessagesForLLM: the summary, then the rows it does not stand for; all   *)
(* rows when the summary cannot be read.                                       *)
LoadMessagesForLLM(p) ==
    /\ At(p, "load")
    /\ \/ LET there == summary.covers # {}
              rows == Messages(IF there THEN summary.index + 1 ELSE 1)
          IN  /\ prm' = [prm EXCEPT ![p].pc = "loop", ![p].agent = "think",
                    ![p].mem = [rows |-> rows, sum |-> IF there THEN "marked" ELSE "none",
                                heard |-> rows \cup summary.covers]]
              /\ UNCHANGED erSeen
       \/ /\ MayFail /\ summary.covers # {}
          /\ prm' = [prm EXCEPT ![p].pc = "loop", ![p].agent = "think",
                    ![p].mem = [rows |-> Messages(1), sum |-> "none", heard |-> Messages(1)]]
          /\ erSeen' = Event
    /\ UNCHANGED <<disk, summary, runtimes, cur, meta>>

-----------------------------------------------------------------------------
(* The framework's goroutine: it may summarise before it asks the model, sends *)
(* what happens into an unbounded queue and never waits for it to be read.     *)
Thinks(p) == At(p, "loop") /\ prm[p].agent = "think" /\ ~prm[p].cancelled

Counted(m) == Cardinality(m.rows) + IF m.sum = "none" THEN 0 ELSE 1

(* Mutant: the summary itself is counted among the new messages.               *)
IndexWithSummary(m) == IF m.sum = "marked" THEN summary.index + Counted(m) ELSE Counted(m)

(* Finalize: the rows the new summary stands for. Only a summary that was      *)
(* loaded is recognised by its mark.                                           *)
Index(m) == IF m.sum = "marked" THEN summary.index + Counted(m) - 1 ELSE Counted(m)

Compact(p) ==
    LET m == prm[p].mem IN
    /\ Thinks(p) /\ erSeen.compacts < MaxCompacts /\ Counted(m) > 1
    /\ summary' = [index |-> Index(m), covers |-> m.heard]
    /\ prm' = [prm EXCEPT ![p].mem = [rows |-> {}, sum |-> "fresh", heard |-> m.heard]]
    /\ erSeen' = [erSeen EXCEPT !.compacts = @ + 1, !.nested = @ \/ m.sum = "fresh"]
    /\ UNCHANGED <<disk, runtimes, cur, meta>>

Remember(m, tags) == [m EXCEPT !.rows = @ \cup tags, !.heard = @ \cup tags]

Answer(p) ==
    /\ Thinks(p) /\ prm[p].n < MaxAnswers
    /\ \E frags \in Streams :
          LET n == prm[p].n + 1 IN
          /\ n = MaxAnswers => frags = <<>>
          /\ prm' = [prm EXCEPT ![p].n = n,
                ![p].agent = IF frags = <<>> THEN "end" ELSE "tools", ![p].tools = Called(frags),
                ![p].mem = Remember(@, {Tag(Assistant(p, n, {}))}),
                ![p].queue = Append(@, [what |-> "answer", n |-> n, frags |-> frags])]
    /\ UNCHANGED <<disk, summary, runtimes, cur, meta, erSeen>>

(* The tools of an answer end, a failure included: its text is the result.     *)
RunTools(p) ==
    /\ At(p, "loop") /\ prm[p].agent = "tools" /\ ~prm[p].cancelled
    /\ LET n == prm[p].n
           ids == prm[p].tools
       IN  prm' = [prm EXCEPT ![p].agent = "think", ![p].tools = {},
                ![p].mem = Remember(@, {Tag(Result(p, n, id, TRUE)) : id \in ids}),
                ![p].queue = @ \o [i \in 1 .. Cardinality(ids) |->
                                    [what |-> "result", n |-> n, frags |-> <<<<i, "id">>>>]]]
    /\ UNCHANGED <<disk, summary, runtimes, cur, meta, erSeen>>

(* The model or a tool fails, or the context was cancelled.                    *)
AgentFails(p) ==
    /\ At(p, "loop") /\ prm[p].agent \in {"think", "tools"}
    /\ prm[p].cancelled \/ MayFail
    /\ prm' = [prm EXCEPT ![p].agent = "end",
                ![p].queue = Append(@, [what |-> "error", n |-> 0, frags |-> <<>>])]
    /\ erSeen' = IF prm[p].cancelled THEN erSeen ELSE Event
    /\ UNCHANGED <<disk, summary, runtimes, cur, meta>>

-----------------------------------------------------------------------------
(* Rows are appended one by one: a failing append may leave some of them. The  *)
(* Run goes on and reports it at its end.                                      *)
Persist(rows, p, next) ==
    \/ /\ disk' = disk \o rows
       /\ prm' = [prm EXCEPT ![p] = next]
       /\ UNCHANGED erSeen
    \/ /\ MayFail /\ rows # <<>>
       /\ prm' = [prm EXCEPT ![p] = [next EXCEPT !.err = TRUE]]
       /\ \E k \in 0 .. Len(rows) - 1 :
             /\ disk' = disk \o SubSeq(rows, 1, k)
             /\ erSeen' = [Event EXCEPT !.torn = @ \/ k > 0]

Broken(p) == [prm[p] EXCEPT !.queue = Tail(@), !.broken = TRUE]

(* forwardStream of an answer: the calls that were declared before the end or  *)
(* the break of the stream are in the builder.                                 *)
TakeAnswer(p) ==
    LET e == Head(prm[p].queue) IN
    /\ At(p, "loop") /\ ~prm[p].broken /\ prm[p].queue # <<>> /\ e.what = "answer"
    /\ \/ /\ prm' = [prm EXCEPT ![p].queue = Tail(@),
                ![p].bld = [n |-> e.n, text |-> e.frags = <<>>, calls |-> Declared(e.frags),
                            results |-> {}]]
          /\ UNCHANGED erSeen
       \/ /\ MayFail /\ prm[p].agent # "end" /\ Len(prm[p].queue) = 1
          /\ \E k \in 0 .. Len(e.frags) - 1 :
                prm' = [prm EXCEPT ![p] = [Broken(p) EXCEPT !.agent = "end",
                    !.bld = [n |-> e.n, text |-> FALSE, calls |-> Declared(SubSeq(e.frags, 1, k)),
                             results |-> {}]]]
          /\ erSeen' = Event
    /\ UNCHANGED <<disk, summary, runtimes, cur, meta>>

(* A result is shown once, when its stream is at its end, and only for a call  *)
(* that was declared; the last one of a round flushes it.                      *)
TakeResult(p) ==
    LET e == Head(prm[p].queue)
        id == e.frags[1][1]
        b == [prm[p].bld EXCEPT !.results = @ \cup {id}]
        full == b.results = b.calls
    IN
    /\ At(p, "loop") /\ ~prm[p].broken /\ prm[p].queue # <<>> /\ e.what = "result"
    /\ IF id \notin b.calls
       THEN /\ prm' = [prm EXCEPT ![p].queue = Tail(@)]
            /\ UNCHANGED <<disk, erSeen>>
       ELSE Persist(IF full THEN Round(p, b) ELSE <<>>, p,
                    [prm[p] EXCEPT !.queue = Tail(@), !.bld = IF full THEN NoBuilder ELSE b])
    /\ UNCHANGED <<summary, runtimes, cur, meta>>

TakeError(p) ==
    /\ At(p, "loop") /\ ~prm[p].broken
    /\ prm[p].queue # <<>> /\ Head(prm[p].queue).what = "error"
    /\ prm' = [prm EXCEPT ![p] = Broken(p)]
    /\ UNCHANGED <<disk, summary, runtimes, cur, meta, erSeen>>

(* The loop is left; FinalizeRound flushes what is in the builder.             *)
FinalizeRound(p) ==
    /\ At(p, "loop")
    /\ prm[p].broken \/ (prm[p].agent = "end" /\ prm[p].queue = <<>>)
    /\ Persist(Round(p, prm[p].bld), p,
               [prm[p] EXCEPT !.pc = "leave", !.agent = "end", !.bld = NoBuilder, !.queue = <<>>,
                              !.res = IF prm[p].cancelled THEN "cancelled"
                                      ELSE IF prm[p].broken THEN "error" ELSE "end_turn"])
    /\ UNCHANGED <<summary, runtimes, cur, meta>>

CapturePersistErr(run) == IF run.res = "end_turn" /\ run.err THEN "error" ELSE run.res

(* CapturePersistErrTo, clearCancel, runSem, runEnd.                           *)
RunEnd(p) ==
    /\ At(p, "leave")
    /\ runtimes' = [runtimes EXCEPT ![prm[p].rt] =
                        [cancel |-> IF @.cancel = p THEN 0 ELSE @.cancel, sem |-> 0]]
    /\ prm' = [prm EXCEPT ![p].pc = "respond", ![p].res = CapturePersistErr(prm[p])]
    /\ UNCHANGED <<disk, summary, cur, meta, erSeen>>

(* The usage of the Run, if the provider reported any, is added; the answer    *)
(* carries the sum, also when the session's file cannot be written.            *)
AddUsage(run) ==
    LET usage == meta.usage + IF run.n > 0 THEN 1 ELSE 0
    IN  [meta EXCEPT !.usage = usage, !.reported = usage]
Respond(p) ==
    /\ At(p, "respond")
    /\ prm' = [prm EXCEPT ![p] = [NoRun EXCEPT !.pc = "done", !.n = prm[p].n,
                !.res = IF prm[p].cancelled THEN "cancelled" ELSE prm[p].res]]
    /\ cur' = [cur EXCEPT !.cancel = 0]
    /\ LET next == AddUsage(prm[p])
       IN  \/ meta' = Saved(next) /\ UNCHANGED erSeen
           \/ MayFail /\ prm[p].n > 0 /\ meta' = next /\ erSeen' = Event
    /\ UNCHANGED <<disk, summary, runtimes>>

-----------------------------------------------------------------------------
SessionCancel ==
    /\ cur.cancel # 0 /\ ~prm[cur.cancel].cancelled
    /\ prm' = Cancelled(cur.cancel)
    /\ UNCHANGED <<disk, summary, runtimes, cur, meta, erSeen>>

(* set_config_option; a model whose save fails stays in memory.                *)
SetModel ==
    /\ MayFail
    /\ Race \/ \A p \in Prompts : ~At(p, "got")
    /\ LET next == [meta EXCEPT !.model = @ + 1] IN meta' \in {next, Saved(next)}
    /\ erSeen' = Event
    /\ UNCHANGED <<disk, summary, prm, runtimes, cur>>

Loaded == [meta EXCEPT !.usage = meta.file, !.model = meta.fileModel]

(* The process dies; the next one loads the session's file on first touch.     *)
Crash ==
    /\ MayFail /\ \E p \in Prompts : prm[p].pc \notin {"none", "done"}
    /\ prm' = [p \in Prompts |-> IF prm[p].pc \in {"none", "done"} THEN prm[p]
                                 ELSE [NoRun EXCEPT !.pc = "done", !.res = "crashed"]]
    /\ runtimes' = <<>>
    /\ cur' = [rt |-> 0, key |-> 0, cancel |-> 0]
    /\ meta' = Loaded
    /\ erSeen' = [Event EXCEPT !.unsaved = @ \/ meta.usage # meta.file]
    /\ UNCHANGED <<disk, summary>>

Next ==
    \/ \E p \in Prompts :
          \/ Prompt(p) \/ Enter(p) \/ Acquire(p) \/ GiveUp(p) \/ BeginRun(p)
          \/ LoadMessagesForLLM(p) \/ Compact(p) \/ Answer(p) \/ RunTools(p) \/ AgentFails(p)
          \/ TakeAnswer(p) \/ TakeResult(p) \/ TakeError(p)
          \/ FinalizeRound(p) \/ RunEnd(p) \/ Respond(p)
    \/ SessionCancel \/ SetModel \/ Crash

Spec == Init /\ [][Next]_erVars

-----------------------------------------------------------------------------
(* What the next Run's model is given, the rows past the summary: a call is     *)
(* followed by its result, unless an append was torn since the last BeginRun,  *)
(* and a result follows its call, unless the summary stands for lost rows.     *)
Answers(call, result) ==
    result.kind = "tool" /\ result.id \in call.calls /\ result.of = call.of /\ result.n = call.n
HistoryPaired ==
    LET given == summary.index + 1 .. Len(disk) IN
    /\ erSeen.torn \/ \A i \in given : \A id \in disk[i].calls :
          \E j \in given : j > i /\ Answers(disk[i], disk[j]) /\ disk[j].id = id
    /\ summary.covers \subseteq Tags(disk) /\ ~erSeen.shared /\ ~erSeen.nested =>
          \A j \in given : disk[j].kind = "tool" => \E i \in given : i < j /\ Answers(disk[i], disk[j])

(* The summary stands for exactly the rows that it was made of, once they are  *)
(* on disk and unless it was made of another one of the same Run, or two Runs  *)
(* have shared the session (OneRun).                                           *)
SummaryCovers ==
    summary.covers \subseteq Tags(disk) /\ ~erSeen.nested /\ ~erSeen.shared =>
        /\ summary.index <= Len(disk)
        /\ Tags(SubSeq(disk, 1, summary.index)) = summary.covers

(* What SummaryCovers leaves out: a summary that the same Run has made carries *)
(* no mark, and is counted like a message; a row that was counted and whose    *)
(* append failed or was never made leaves the index too high.                  *)
SummaryExact ==
    (\A p \in Prompts : ~At(p, "loop")) =>
        Tags(SubSeq(disk, 1, summary.index)) = summary.covers

(* A Run's model hears its prompt, unless rows the summary stands for are      *)
(* missing from the history or two Runs have shared the session.               *)
HearsPrompt(p) == At(p, "loop") => Tag(User(p)) \in prm[p].mem.heard
PromptHeard ==
    summary.covers \subseteq Tags(disk) /\ ~erSeen.shared => \A p \in Prompts : HearsPrompt(p)
PromptAlwaysHeard == \A p \in Prompts : HearsPrompt(p)

(* A turn that is reported as ended has all of its answers on disk, with the   *)
(* real results of all calls that were declared.                               *)
TurnOnDisk ==
    \A p \in Prompts : At(p, "done") /\ prm[p].res = "end_turn" =>
        /\ \A n \in 1 .. prm[p].n : \E i \in DOMAIN disk :
              disk[i].kind = "assistant" /\ disk[i].of = p /\ disk[i].n = n
        /\ \A i \in DOMAIN disk : disk[i].of = p => disk[i].real

(* A Run that works can be cancelled by the next one: its runtime holds its    *)
(* cancel function, and no other's Run shares the runtime.                     *)
RunCancellable ==
    \A p \in Prompts : prm[p].pc \in {"begin", "load", "loop", "leave"} =>
        runtimes[prm[p].rt] = [cancel |-> p, sem |-> p]

(* The usage of the session never goes back, unless a sum that was reported    *)
(* could not be saved before a crash.                                          *)
UsageMonotone == erSeen.unsaved \/ meta.usage >= meta.reported

(* Two Runs work on the session at a time when its model is changed between    *)
(* runtimeFor and the start of the Run.                                        *)
OneRun == Cardinality({p \in Prompts : At(p, "loop")}) <= 1

EinoKept ==
    HistoryPaired /\ SummaryCovers /\ PromptHeard /\ TurnOnDisk /\ RunCancellable /\ UsageMonotone
=============================================================================
