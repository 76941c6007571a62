------------------------- MODULE GraphPartsProofs -------------------------
(***************************************************************************)
(* Three parts of the graph service: the execution of a node (NodeRun),    *)
(* and in the second and third part the event stream of a run              *)
(* (GraphEvents) and the library of workflows with the launches from it    *)
(* (GraphLibrary).                                                         *)
(*                                                                         *)
(* The node: for any nodes, bounds of executions, attempts and faults.     *)
(* Sessions are opened one after the other, at most one by an execution    *)
(* (OpenInv), so a new one is never one that is open; only the worker's    *)
(* own is not listed yet, and a run that ends has no worker (ListInv,      *)
(* WorkInv).  The versions of the node's Agent all go back to the first    *)
(* execution, through the instance or what the run keeps of a reset one    *)
(* (VersionInv).  A session that can be continued has heard the prompt,    *)
(* unless a recording failed (HeardInv), and what the worker carries of    *)
(* usage is what its execution spent and no record has (UsageInv).         *)
(***************************************************************************)
EXTENDS NodeRun, NaturalsInduction, WellFoundedInduction, TLAPS

CONSTANTS Conns, Hardcap, GapLimit, Batch, MaxEvents, MaxResumes, StreamFaults,
          Clients, Payloads, MaxVersions, MaxStarts, LibFaults
VARIABLES evb, log, lines, stRun, hook, conn, holes,
          wf, author, job, start, glSeen

\* The event stream of a run, and the library.
Ev == INSTANCE GraphEvents WITH MaxFaults <- StreamFaults, run <- stRun, client <- conn
Lib == INSTANCE GraphLibrary WITH MaxFaults <- LibFaults, client <- author

NodesAssumption ==
  /\ MaxRuns \in Nat
  /\ \A n \in Nodes : n.inherit \in BOOLEAN /\ n.prompt \in BOOLEAN

Versions == 0 .. 2
Words == {"prompt", "continue", "answer", "orphan"}
Session == [open : BOOLEAN, version : Versions, text : Seq(Words), listed : BOOLEAN]
MaybeSession == Sessions \cup {None}
Spending == [reported : Nat, estimated : Nat]
WorkPc == {"none", "open", "record", "attempt", "agent", "wait", "result"}
Work == [pc : WorkPc, version : Versions, session : MaybeSession, text : {"prompt", "continue"},
         tagged : BOOLEAN, end : {"none", "done", "failed"}, stage : Nat, retries : Nat,
         usage : Spending, ran : BOOLEAN]
InstStatus == {"none", "running", "interrupted", "failed", "succeeded", "awaiting"}
Inst == [status : InstStatus, version : Versions, display : MaybeSession]
Past == [status : InstStatus, version : Versions, display : MaybeSession]
RunStatus == {"running", "closing", "stopping", "expiring", "ended"}
Run == [status : RunStatus, version : {1, 2}]
Execution == [carried : BOOLEAN, unrecorded : BOOLEAN, deaf : BOOLEAN, reported : Nat, estimated : Nat]
Seen == [runs : Seq(Execution), attempts : Nat, faults : Nat]
TurnRecord == [run : Nat, turn : Spending, spent : Spending]

NodeTypes ==
  /\ node \in Nodes
  /\ run \in Run
  /\ inst \in Inst
  /\ past \in Past
  /\ work \in Work
  /\ sess \in [Sessions -> Session]
  /\ notes \subseteq Sessions
  /\ usage \in Seq(TurnRecord)
  /\ nrSeen \in Seen

\* A worker is at work on an instance, and the run does not end before it is done.
WorkInv ==
  /\ Now <= MaxRuns
  /\ work.pc # "none" => inst.status # "none" /\ run.status # "ended" /\ Now > 0
  /\ inst.status = "none" <=> inst.version = None
  /\ work.pc = "open" => work.session = None /\ work.text = "prompt" /\ ~work.tagged
  /\ work.pc = "record" => work.session # None /\ IsAgent
  /\ work.pc \in {"attempt", "agent", "wait"} => (IsAgent <=> work.session # None)
  /\ work.pc \in {"attempt", "agent", "wait"} => (node.prompt \/ ~IsAgent)
  /\ Now = 0 => inst.status = "none" /\ past.version = None

\* Sessions are opened one after the other, at most one by an execution.
OpenedTo(k) == \A s \in Sessions : sess[s].open <=> s <= k
OpenInv ==
  /\ \E k \in Sessions : OpenedTo(k) /\ k <= Now + 1 /\ (work.pc = "open" => k <= Now)
  /\ \A s \in Sessions : ~sess[s].open =>
        sess[s].text = <<>> /\ s \notin notes \cup {inst.display, past.display, work.session}

\* What a running worker has opened is the only session that is not listed.
ListInv == \A s \in Sessions : sess[s].open /\ ~sess[s].listed => work.pc # "none" /\ s = work.session

\* The version of the first execution is that of the later ones, and of their sessions.
FirstVersion == IF inst.version # None THEN inst.version ELSE past.version
BoundTo(v) == IF v \in node.bound THEN v ELSE None
VersionInv ==
  /\ inst.version # None /\ past.version # None => inst.version = past.version
  /\ work.pc # "none" => work.version = inst.version
  /\ \A s \in Sessions : s # Upstream /\ sess[s].open =>
        FirstVersion # None /\ sess[s].version = BoundTo(FirstVersion)

\* A prompt that was written before the Agent started is the first message of its session.
Heard(s) == sess[s].text # <<>> /\ sess[s].text[1] = "prompt"
Unrecorded == \E q \in DOMAIN nrSeen.runs : nrSeen.runs[q].unrecorded
HeardInv ==
  /\ work.pc = "record" /\ work.text = "prompt" /\ ~node.inherit => sess[work.session].text = <<>>
  /\ work.tagged => work.session # None /\ work.text = "prompt" /\ Heard(work.session)
  /\ work.pc \in {"record", "attempt", "agent", "wait"} /\ work.text = "continue" => nrSeen.runs[Now].carried
  /\ ~node.inherit /\ node.prompt /\ ~Unrecorded =>
       /\ \A s \in notes : Heard(s)
       /\ inst.display # None => Heard(inst.display)
       /\ past.display # None => Heard(past.display)
       /\ work.pc \in {"attempt", "agent", "wait", "result"} /\ work.session # None => Heard(work.session)
       /\ work.pc = "record" /\ work.text = "continue" => Heard(work.session)

\* What a worker has spent is what the attempts of its execution spent, and not yet recorded.
UsageInv ==
  /\ \A a \in DOMAIN usage : usage[a].run \in DOMAIN nrSeen.runs
  /\ work.pc # "none" =>
       /\ work.usage = [reported |-> nrSeen.runs[Now].reported, estimated |-> nrSeen.runs[Now].estimated]
       /\ \A a \in DOMAIN usage : usage[a].run # Now
       /\ work.pc = "agent" => work.ran
       /\ work.usage.reported + work.usage.estimated > 0 => IsAgent /\ work.ran

NodeInv == NodeTypes /\ WorkInv /\ OpenInv /\ ListInv /\ VersionInv /\ HeardInv /\ UsageInv
           /\ PromptHeard /\ TurnsCounted

-----------------------------------------------------------------------------
(* What the records and sequences are made of.                                *)

LEMMA SeenFacts ==
  ASSUME NodeTypes
  PROVE  /\ nrSeen.runs \in Seq(Execution) /\ Now \in Nat /\ DOMAIN nrSeen.runs = 1 .. Now
         /\ \A r \in 1 .. Now : nrSeen.runs[r] \in Execution
BY DEF NodeTypes, Seen, Now

LEMMA WorkFacts ==
  ASSUME NodeTypes
  PROVE  /\ work \in Work /\ work.pc \in WorkPc /\ work.session \in MaybeSession
         /\ work.version \in Versions /\ work.usage \in Spending /\ work.tagged \in BOOLEAN
         /\ work.text \in {"prompt", "continue"} /\ work.ran \in BOOLEAN
         /\ inst.version \in Versions /\ inst.display \in MaybeSession /\ inst.status \in InstStatus
         /\ past.version \in Versions /\ past.display \in MaybeSession /\ past.status \in InstStatus
         /\ run.version \in {1, 2} /\ run.status \in RunStatus
BY DEF NodeTypes, Work, Inst, Past, Run

LEMMA SessFacts ==
  ASSUME NodeTypes, NEW s \in Sessions
  PROVE  /\ sess[s] \in Session /\ sess[s].open \in BOOLEAN /\ sess[s].version \in Versions
         /\ sess[s].text \in Seq(Words) /\ sess[s].listed \in BOOLEAN
BY DEF NodeTypes, Session

\* The entry of the present execution is changed, and nothing else of the history.
Entered(e) == [nrSeen.runs EXCEPT ![Now] = e]

LEMMA PresentEntry ==
  ASSUME NodeTypes, Now > 0
  PROVE  /\ Now \in DOMAIN nrSeen.runs /\ nrSeen.runs[Now] \in Execution
         /\ nrSeen.runs[Now].reported \in Nat /\ nrSeen.runs[Now].estimated \in Nat
<1>1. Now \in 1 .. Now
  BY SeenFacts
<1>2. nrSeen.runs[Now] \in Execution
  BY <1>1, SeenFacts
<1> QED
  BY <1>1, <1>2, SeenFacts DEF Execution

LEMMA EnteredFacts ==
  ASSUME NodeTypes, Now > 0, NEW e \in Execution
  PROVE  /\ Entered(e) \in Seq(Execution) /\ Len(Entered(e)) = Now /\ DOMAIN Entered(e) = 1 .. Now
         /\ Entered(e)[Now] = e /\ \A r \in 1 .. Now : r # Now => Entered(e)[r] = nrSeen.runs[r]
<1> DEFINE n == Now
           rs == nrSeen.runs
<1>1. rs \in Seq(Execution) /\ n \in Nat /\ n = Len(rs) /\ n > 0 /\ DOMAIN rs = 1 .. n
  BY SeenFacts DEF Now
<1> HIDE DEF n, rs
<1> DEFINE t == [rs EXCEPT ![n] = e]
<1>2. t \in [1 .. n -> Execution]
  BY <1>1
<1>3. t \in Seq(Execution) /\ Len(t) = n /\ DOMAIN t = 1 .. n
  BY <1>1, <1>2
<1>4. t[n] = e /\ \A r \in 1 .. n : r # n => t[r] = rs[r]
  BY <1>1
<1>5. t = Entered(e)
  BY DEF Entered, n, rs
<1> QED
  BY <1>3, <1>4, <1>5 DEF n, rs

LEMMA Carrying ==
  ASSUME NodeTypes, Now > 0
  PROVE  LET e == [nrSeen.runs[Now] EXCEPT !.carried = TRUE] IN
         e \in Execution /\ Noted("carried", TRUE) \in Seen /\ Noted("carried", TRUE).runs = Entered(e)
<1> DEFINE e == [nrSeen.runs[Now] EXCEPT !.carried = TRUE]
<1>1. e \in Execution
  BY PresentEntry DEF Execution
<1>2. Entered(e) \in Seq(Execution)
  BY <1>1, EnteredFacts
<1>3. Noted("carried", TRUE) = [nrSeen EXCEPT !.runs = Entered(e)]
  BY DEF Noted, Entered
<1>4. nrSeen \in Seen
  BY DEF NodeTypes
<1> HIDE DEF e
<1> QED
  BY <1>1, <1>2, <1>3, <1>4 DEF Seen, e

LEMMA Unrecording ==
  ASSUME NodeTypes, Now > 0
  PROVE  LET e == [nrSeen.runs[Now] EXCEPT !.unrecorded = TRUE] IN
         e \in Execution /\ Noted("unrecorded", TRUE) \in Seen /\ Noted("unrecorded", TRUE).runs = Entered(e)
<1> DEFINE e == [nrSeen.runs[Now] EXCEPT !.unrecorded = TRUE]
<1>1. e \in Execution
  BY PresentEntry DEF Execution
<1>2. Entered(e) \in Seq(Execution)
  BY <1>1, EnteredFacts
<1>3. Noted("unrecorded", TRUE) = [nrSeen EXCEPT !.runs = Entered(e)]
  BY DEF Noted, Entered
<1>4. nrSeen \in Seen
  BY DEF NodeTypes
<1> HIDE DEF e
<1> QED
  BY <1>1, <1>2, <1>3, <1>4 DEF Seen, e

LEMMA Faulted ==
  ASSUME NEW s \in Seen, Fault(s)
  PROVE  nrSeen' \in Seen /\ nrSeen'.runs = s.runs
BY DEF Fault, Seen

\* What an attempt adds to the entry of its execution.
Charged(b) ==
  [nrSeen.runs[Now] EXCEPT !.reported = IF b THEN @ + 1 ELSE @, !.estimated = IF b THEN @ ELSE @ + 1]

LEMMA Charging ==
  ASSUME NodeTypes, Now > 0, NEW b \in BOOLEAN
  PROVE  /\ Charged(b) \in Execution /\ SpentSeen(b) \in Seen
         /\ SpentSeen(b).runs = IF IsAgent THEN Entered(Charged(b)) ELSE nrSeen.runs
<1> DEFINE e == nrSeen.runs[Now]
<1>1. e \in Execution /\ nrSeen \in Seen
  BY PresentEntry DEF NodeTypes
<1>2. e.reported \in Nat /\ e.estimated \in Nat
  BY <1>1 DEF Execution
<1>3. Charged(b) \in Execution
  <2>1. (IF b THEN e.reported + 1 ELSE e.reported) \in Nat /\ (IF b THEN e.estimated ELSE e.estimated + 1) \in Nat
    BY <1>2
  <2> QED
    BY <1>1, <2>1 DEF Charged, Execution
<1>4. Entered(Charged(b)) \in Seq(Execution)
  BY <1>3, EnteredFacts
<1>5. CASE IsAgent
  <2>1. SpentSeen(b) = [nrSeen EXCEPT !.runs = Entered(Charged(b))]
    <3>1. CASE b
      <4>1. Charged(b) = [e EXCEPT !["reported"] = e["reported"] + 1]
        BY <1>1, <3>1 DEF Charged, Execution
      <4>2. SpentSeen(b) = Noted("reported", e["reported"] + 1)
        BY <1>5, <3>1 DEF SpentSeen, Source
      <4> QED
        BY <4>1, <4>2 DEF Noted, Entered
    <3>2. CASE ~b
      <4>1. Charged(b) = [e EXCEPT !["estimated"] = e["estimated"] + 1]
        BY <1>1, <3>2 DEF Charged, Execution
      <4>2. SpentSeen(b) = Noted("estimated", e["estimated"] + 1)
        BY <1>5, <3>2 DEF SpentSeen, Source
      <4> QED
        BY <4>1, <4>2 DEF Noted, Entered
    <3> QED
      BY <3>1, <3>2
  <2> QED
    BY <1>1, <1>3, <1>4, <1>5, <2>1 DEF Seen
<1>6. CASE ~IsAgent
  BY <1>1, <1>3, <1>6 DEF SpentSeen
<1> QED
  BY <1>5, <1>6

-----------------------------------------------------------------------------
(* What the steps do.                                                         *)

\* A session's text changes, or it is listed; which sessions there are does not.
SameSessions == \A s \in Sessions :
  sess'[s].open = sess[s].open /\ sess'[s].version = sess[s].version
Lists(s) == sess' = IF s # None THEN Listed(s) ELSE sess

LEMMA TextStep ==
  ASSUME NodeTypes, work.session # None, NEW t \in Seq(Words), sess' = [sess EXCEPT ![work.session].text = t]
  PROVE  /\ sess' \in [Sessions -> Session] /\ SameSessions /\ sess'[work.session].text = t
         /\ \A s \in Sessions : sess'[s].listed = sess[s].listed /\ (s # work.session => sess'[s].text = sess[s].text)
<1> DEFINE w == work.session
<1>1. w \in Sessions
  BY WorkFacts DEF MaybeSession
<1>2. sess \in [Sessions -> Session] /\ sess[w] \in Session
  BY <1>1 DEF NodeTypes
<1>3. [sess[w] EXCEPT !.text = t] \in Session
  BY <1>2 DEF Session
<1>4. sess' = [sess EXCEPT ![w] = [sess[w] EXCEPT !.text = t]]
  OBVIOUS
<1> HIDE DEF w
<1>5. sess' \in [Sessions -> Session]
  BY <1>1, <1>2, <1>3, <1>4
<1>6. sess'[w] = [sess[w] EXCEPT !.text = t] /\ \A s \in Sessions : s # w => sess'[s] = sess[s]
  BY <1>1, <1>2, <1>4
<1>7. sess'[w].text = t /\ sess'[w].open = sess[w].open /\ sess'[w].version = sess[w].version
      /\ sess'[w].listed = sess[w].listed
  BY <1>2, <1>6 DEF Session
<1> QED
  BY <1>5, <1>6, <1>7 DEF SameSessions, w

LEMMA ListStep ==
  ASSUME NodeTypes, NEW s \in MaybeSession, Lists(s)
  PROVE  /\ sess' \in [Sessions -> Session] /\ SameSessions /\ (s # None => sess'[s].listed)
         /\ \A t \in Sessions : sess'[t].text = sess[t].text /\ (sess[t].listed => sess'[t].listed)
<1>1. CASE s = None
  BY <1>1 DEF Lists, NodeTypes, SameSessions
<1>2. CASE s # None
  <2>1. s \in Sessions
    BY <1>2 DEF MaybeSession
  <2>2. sess \in [Sessions -> Session] /\ sess[s] \in Session
    BY <2>1 DEF NodeTypes
  <2>3. [sess[s] EXCEPT !.listed = TRUE] \in Session
    BY <2>2 DEF Session
  <2>4. sess' = [sess EXCEPT ![s] = [sess[s] EXCEPT !.listed = TRUE]]
    BY <1>2 DEF Lists, Listed
  <2>5. sess' \in [Sessions -> Session]
    BY <2>1, <2>2, <2>3, <2>4
  <2>6. sess'[s] = [sess[s] EXCEPT !.listed = TRUE] /\ \A t \in Sessions : t # s => sess'[t] = sess[t]
    BY <2>1, <2>2, <2>4
  <2>7. sess'[s].text = sess[s].text /\ sess'[s].open = sess[s].open /\ sess'[s].version = sess[s].version
        /\ sess'[s].listed = TRUE
    BY <2>2, <2>6 DEF Session
  <2> QED
    BY <2>1, <2>5, <2>6, <2>7 DEF SameSessions
<1> QED
  BY <1>1, <1>2

\* An attempt is over, however it ends: its messages are written and its usage is charged.
AttemptOver(b) ==
  /\ UNCHANGED <<node, run, inst, past, notes, usage>>
  /\ work.pc \in {"attempt", "agent", "wait"} /\ work' \in Work /\ work'.pc \in {"result", "wait"}
  /\ work'.version = work.version /\ work'.session = work.session /\ work'.text = work.text
  /\ work'.tagged = work.tagged /\ work'.usage = SpentHere(b) /\ work'.ran
  /\ nrSeen' \in Seen /\ nrSeen'.runs = IF IsAgent THEN Entered(Charged(b)) ELSE nrSeen.runs
  /\ \/ UNCHANGED sess
     \/ IsAgent /\ \E m \in Seq(Words) : sess' = [sess EXCEPT ![work.session].text = @ \o m]

LEMMA Spends ==
  ASSUME NodeTypes, NEW b \in BOOLEAN
  PROVE  /\ SpentHere(b) \in Spending
         /\ SpentHere(b) = IF IsAgent
                           THEN [reported |-> IF b THEN work.usage.reported + 1 ELSE work.usage.reported,
                                 estimated |-> IF b THEN work.usage.estimated ELSE work.usage.estimated + 1]
                           ELSE work.usage
<1> DEFINE u == work.usage
<1>1. u \in Spending
  BY WorkFacts
<1>2. u.reported \in Nat /\ u.estimated \in Nat
  BY <1>1 DEF Spending
<1>3. Spent(u, b) = [reported |-> IF b THEN u.reported + 1 ELSE u.reported,
                     estimated |-> IF b THEN u.estimated ELSE u.estimated + 1]
  <2>1. CASE b
    <3>1. Spent(u, b) = [u EXCEPT !["reported"] = @ + 1]
      BY <2>1 DEF Spent, Source
    <3> HIDE DEF u
    <3> QED
      BY <1>1, <2>1, <3>1 DEF Spending
  <2>2. CASE ~b
    <3>1. Spent(u, b) = [u EXCEPT !["estimated"] = @ + 1]
      BY <2>2 DEF Spent, Source
    <3> HIDE DEF u
    <3> QED
      BY <1>1, <2>2, <3>1 DEF Spending
  <2> QED
    BY <2>1, <2>2
<1>4. (IF b THEN u.reported + 1 ELSE u.reported) \in Nat /\ (IF b THEN u.estimated ELSE u.estimated + 1) \in Nat
  BY <1>2
<1>5. Spent(u, b) \in Spending
  <2> DEFINE x == IF b THEN u.reported + 1 ELSE u.reported
             y == IF b THEN u.estimated ELSE u.estimated + 1
  <2>1. x \in Nat /\ y \in Nat /\ Spent(u, b) = [reported |-> x, estimated |-> y]
    BY <1>3, <1>4
  <2> HIDE DEF x, y, u
  <2> QED
    BY <2>1 DEF Spending
<1> QED
  BY <1>1, <1>3, <1>5 DEF SpentHere

LEMMA Messages ==
  /\ <<>> \in Seq(Words) /\ <<"answer">> \in Seq(Words) /\ <<"orphan">> \in Seq(Words)
  /\ <<"prompt">> \in Seq(Words) /\ <<"continue">> \in Seq(Words)
<1>1. \A x \in Words : <<x>> \in Seq(Words)
  OBVIOUS
<1> QED
  BY <1>1 DEF Words

LEMMA AttemptStillbornOver ==
  ASSUME NodeTypes, WorkInv, AttemptStillborn
  PROVE  AttemptOver(FALSE)
<1> DEFINE w == [work EXCEPT !.usage = SpentHere(FALSE), !.ran = TRUE]
           x == [w EXCEPT !.pc = "result", !.end = "failed"]
<1>1. work.pc \in {"attempt", "wait"} /\ IsAgent /\ work' = x
      /\ UNCHANGED <<node, run, inst, past, sess, notes, usage>>
  BY DEF AttemptStillborn, Result
<1>2. SpentHere(FALSE) \in Spending /\ work \in Work
  BY Spends, WorkFacts
<1>3. work' \in Work /\ work'.pc = "result" /\ work'.usage = SpentHere(FALSE) /\ work'.ran
      /\ work'.version = work.version /\ work'.session = work.session /\ work'.text = work.text
      /\ work'.tagged = work.tagged
  BY <1>1, <1>2 DEF Work, WorkPc
<1>4. Now > 0
  BY <1>1 DEF WorkInv
<1>5. SpentSeen(FALSE) \in Seen
  BY <1>4, Charging
<1> DEFINE seen == [SpentSeen(FALSE) EXCEPT !.attempts = @ + 1]
<1>6. seen \in Seen /\ seen.runs = SpentSeen(FALSE).runs
  <2>1. \A s \in Seen : [s EXCEPT !.attempts = @ + 1] \in Seen /\ [s EXCEPT !.attempts = @ + 1].runs = s.runs
    BY DEF Seen
  <2> QED
    BY <1>5, <2>1
<1>7. Fault(seen) \/ nrSeen' = seen
  BY DEF AttemptStillborn
<1> HIDE DEF seen
<1>8. nrSeen' \in Seen /\ nrSeen'.runs = SpentSeen(FALSE).runs
  BY <1>6, <1>7, Faulted
<1>9. nrSeen'.runs = IF IsAgent THEN Entered(Charged(FALSE)) ELSE nrSeen.runs
  BY <1>4, <1>8, Charging
<1> QED
  BY <1>1, <1>3, <1>8, <1>9 DEF AttemptOver

LEMMA AttemptEndsOver ==
  ASSUME NodeTypes, WorkInv, NEW b \in BOOLEAN, work.pc = "agent", NEW w, work' = w,
         w \in Work, w.pc \in {"result", "wait"},
         w.version = work.version, w.session = work.session, w.text = work.text, w.tagged = work.tagged,
         w.usage = SpentHere(b), w.ran = work.ran, UsageInv,
         NEW m \in Seq(Words), Said(m), nrSeen' = SpentSeen(b) \/ Fault(SpentSeen(b)),
         UNCHANGED <<node, run, inst, past, notes, usage>>
  PROVE  AttemptOver(b)
<1>1. Now > 0
  BY DEF WorkInv
<1>2. SpentSeen(b) \in Seen /\ SpentSeen(b).runs = IF IsAgent THEN Entered(Charged(b)) ELSE nrSeen.runs
  BY <1>1, Charging
<1>3. nrSeen' \in Seen /\ nrSeen'.runs = SpentSeen(b).runs
  BY <1>2, Faulted
<1>4. work.ran
  BY DEF UsageInv
<1> QED
  BY <1>2, <1>3, <1>4 DEF AttemptOver, Said

LEMMA AttemptEnds ==
  ASSUME NodeTypes, WorkInv, UsageInv,
         NEW b \in BOOLEAN, NEW c \in Classes,
         \/ AttemptSucceeds(b) \/ AttemptMisses(b) \/ AttemptInterrupted(b) \/ AttemptFails(c, b)
  PROVE  AttemptOver(b)
<1> DEFINE u == [work EXCEPT !.usage = SpentHere(b)]
<1>1. work \in Work /\ SpentHere(b) \in Spending
  BY WorkFacts, Spends
<1>2. \A end \in {"done", "failed"} :
         LET w == [u EXCEPT !.pc = "result", !.end = end] IN
         /\ w \in Work /\ w.pc \in {"result", "wait"}
         /\ w.version = work.version /\ w.session = work.session /\ w.text = work.text /\ w.tagged = work.tagged
         /\ w.usage = SpentHere(b) /\ w.ran = work.ran
  BY <1>1 DEF Work, WorkPc
<1>3. \A stage \in Nat, retries \in Nat :
         LET w == [u EXCEPT !.pc = "wait", !.stage = stage, !.retries = retries] IN
         /\ w \in Work /\ w.pc \in {"result", "wait"}
         /\ w.version = work.version /\ w.session = work.session /\ w.text = work.text /\ w.tagged = work.tagged
         /\ w.usage = SpentHere(b) /\ w.ran = work.ran
  BY <1>1 DEF Work, WorkPc
<1>4. CASE AttemptSucceeds(b)
  <2>1. /\ work.pc = "agent" /\ Said(<<"answer">>) /\ work' = [u EXCEPT !.pc = "result", !.end = "done"]
        /\ nrSeen' = SpentSeen(b) /\ UNCHANGED <<node, run, inst, past, notes, usage>>
    BY <1>4 DEF AttemptSucceeds, Result
  <2> QED
    BY <1>2, <2>1, Messages, AttemptEndsOver
<1>5. CASE AttemptMisses(b)
  <2>1. /\ work.pc = "agent" /\ Said(<<"answer">>) /\ work' = [u EXCEPT !.pc = "result", !.end = "failed"]
        /\ nrSeen' = SpentSeen(b) /\ UNCHANGED <<node, run, inst, past, notes, usage>>
    BY <1>5 DEF AttemptMisses, Result
  <2> QED
    BY <1>2, <2>1, Messages, AttemptEndsOver
<1>6. CASE AttemptInterrupted(b)
  <2>1. /\ work.pc = "agent" /\ Said(<<>>) /\ work' = [u EXCEPT !.pc = "result", !.end = "failed"]
        /\ nrSeen' = SpentSeen(b) /\ UNCHANGED <<node, run, inst, past, notes, usage>>
    BY <1>6 DEF AttemptInterrupted, Result
  <2> QED
    BY <1>2, <2>1, Messages, AttemptEndsOver
<1>7. CASE AttemptFails(c, b)
  <2> DEFINE to == StageOf(c, work.stage, work.retries)
  <2>1. /\ work.pc = "agent" /\ UNCHANGED <<node, run, inst, past, notes, usage>>
        /\ IF to = 0 THEN work' = [u EXCEPT !.pc = "result", !.end = "failed"]
           ELSE work' = [u EXCEPT !.pc = "wait", !.stage = to, !.retries = IF to = work.stage THEN @ + 1 ELSE 1]
        /\ \/ Said(<<>>) /\ nrSeen' = SpentSeen(b)
           \/ Said(<<"orphan">>) /\ Fault(SpentSeen(b))
    BY <1>7 DEF AttemptFails, Result
  <2>2. to \in Nat
    BY DEF StageOf
  <2>3. work.retries \in Nat
    BY <1>1 DEF Work
  <2> DEFINE r == IF to = work.stage THEN work.retries + 1 ELSE 1
             w == IF to = 0 THEN [u EXCEPT !.pc = "result", !.end = "failed"]
                  ELSE [u EXCEPT !.pc = "wait", !.stage = to, !.retries = r]
  <2>4. r \in Nat
    BY <2>3
  <2>5. u.retries = work.retries
    BY <1>1 DEF Work
  <2>6. work' = w
    BY <2>1, <2>5
  <2> HIDE DEF to, r, u
  <2>7. /\ w \in Work /\ w.pc \in {"result", "wait"}
        /\ w.version = work.version /\ w.session = work.session /\ w.text = work.text /\ w.tagged = work.tagged
        /\ w.usage = SpentHere(b) /\ w.ran = work.ran
    BY <1>2, <1>3, <2>2, <2>4
  <2> HIDE DEF w
  <2> QED
    BY <2>1, <2>6, <2>7, Messages, AttemptEndsOver
<1> QED
  BY <1>4, <1>5, <1>6, <1>7

\* A set of positions that is not empty has a first one.
LEMMA FirstExists ==
  ASSUME NEW S \in SUBSET Nat, S # {}
  PROVE  \E m \in S : \A s \in S : m <= s
<1> DEFINE R == OpToRel(<, Nat)
<1>1. \E x \in S : \A y \in S : ~ (<<y, x>> \in R)
  <2> HIDE DEF R
  <2> QED
    BY NatLessThanWellFounded, WFMin DEF R
<1>2. PICK x \in S : \A y \in S : ~ (y < x)
  BY <1>1 DEF OpToRel
<1> QED
  BY <1>2

\* What is cut off begins with a call: a prompt that is the first message remains.
LEMMA CutOffKeeps ==
  ASSUME NEW t \in Seq(Words)
  PROVE  /\ CutOff(t) \in Seq(Words)
         /\ t # <<>> /\ t[1] = "prompt" => CutOff(t) # <<>> /\ CutOff(t)[1] = "prompt"
<1> DEFINE O == {i \in DOMAIN t : t[i] = "orphan"}
<1>1. CASE O = {}
  BY <1>1 DEF CutOff
<1>2. CASE O # {}
  <2>1. O \subseteq Nat
    OBVIOUS
  <2>2. PICK m \in O : \A i \in O : m <= i
    BY <1>2, <2>1, FirstExists
  <2>3. m \in DOMAIN t /\ t[m] = "orphan" /\ \A j \in 1 .. m - 1 : t[j] # "orphan"
    <3>1. ASSUME NEW j \in 1 .. m - 1, t[j] = "orphan" PROVE FALSE
      <4>1. j \in O /\ m \in Nat /\ j \in Nat /\ j < m
        BY <3>1
      <4> QED
        BY <2>2, <4>1
    <3> QED
      BY <3>1
  <2> DEFINE P(i) == t[i] = "orphan" /\ \A j \in 1 .. i - 1 : t[j] # "orphan"
             n == CHOOSE i \in DOMAIN t : P(i)
  <2>4. n \in DOMAIN t /\ P(n)
    BY <2>3
  <2>5. CutOff(t) = SubSeq(t, 1, n - 1)
    BY <1>2 DEF CutOff
  <2>6. t[n] = "orphan" /\ n \in 1 .. Len(t)
    BY <2>4
  <2> HIDE DEF n
  <2>7. SubSeq(t, 1, n - 1) \in Seq(Words)
    BY <2>6
  <2>8. ASSUME t[1] = "prompt" PROVE SubSeq(t, 1, n - 1) # <<>> /\ SubSeq(t, 1, n - 1)[1] = t[1]
    <3>1. n # 1
      BY <2>6, <2>8
    <3> QED
      BY <2>6, <3>1
  <2> QED
    BY <2>5, <2>7, <2>8
<1> QED
  BY <1>1, <1>2

LEMMA AppendKeeps ==
  ASSUME NEW t \in Seq(Words), NEW m \in Seq(Words)
  PROVE  /\ t \o m \in Seq(Words)
         /\ t # <<>> /\ t[1] = "prompt" => t \o m # <<>> /\ (t \o m)[1] = "prompt"
<1>1. t \o m \in Seq(Words)
  OBVIOUS
<1>2. ASSUME t # <<>> PROVE t \o m # <<>> /\ (t \o m)[1] = t[1]
  BY <1>2
<1> QED
  BY <1>1, <1>2

-----------------------------------------------------------------------------
(* What a step leaves alone.                                                  *)

LEMMA OpenFrame ==
  ASSUME OpenInv, SameSessions, Now' = Now, work'.pc = "open" => work.pc = "open",
         \A s \in Sessions : ~sess[s].open =>
            sess'[s].text = sess[s].text /\ s \notin notes' \cup {inst'.display, past'.display, work'.session}
  PROVE  OpenInv'
<1>1. PICK k \in Sessions : OpenedTo(k) /\ k <= Now + 1 /\ (work.pc = "open" => k <= Now)
  BY DEF OpenInv
<1>2. OpenedTo(k)'
  BY <1>1 DEF OpenedTo, SameSessions
<1>3. \A s \in Sessions : ~sess'[s].open =>
          sess'[s].text = <<>> /\ s \notin notes' \cup {inst'.display, past'.display, work'.session}
  BY DEF OpenInv, SameSessions
<1> QED
  BY <1>1, <1>2, <1>3 DEF OpenInv

LEMMA VersionFrame ==
  ASSUME VersionInv, SameSessions, node' = node, inst'.version = inst.version, past'.version = past.version,
         work'.pc # "none" => work.pc # "none" /\ work'.version = work.version
  PROVE  VersionInv'
BY DEF VersionInv, SameSessions, FirstVersion, BoundTo

LEMMA UsageFrame ==
  ASSUME NodeTypes, UsageInv, TurnsCounted, usage' = usage, node' = node, Now' = Now,
         DOMAIN nrSeen'.runs = DOMAIN nrSeen.runs,
         \A r \in DOMAIN nrSeen.runs :
            nrSeen'.runs[r].reported = nrSeen.runs[r].reported /\ nrSeen'.runs[r].estimated = nrSeen.runs[r].estimated,
         work'.pc # "none" <=> work.pc # "none", Now > 0,
         work'.usage = work.usage, work.ran => work'.ran, work'.pc = "agent" => work'.ran
  PROVE  UsageInv' /\ TurnsCounted'
<1>1. UsageInv'
  <2>1. Now \in DOMAIN nrSeen.runs
    BY PresentEntry
  <2> QED
    BY <2>1 DEF UsageInv, IsAgent
<1>2. TurnsCounted'
  BY DEF TurnsCounted, Runs, UsageInv
<1> QED
  BY <1>1, <1>2

LEMMA PromptFrame ==
  ASSUME PromptHeard, node' = node, DOMAIN nrSeen'.runs = DOMAIN nrSeen.runs,
         \A r \in DOMAIN nrSeen.runs :
            /\ nrSeen'.runs[r].deaf => nrSeen.runs[r].deaf
            /\ nrSeen.runs[r].carried => nrSeen'.runs[r].carried
            /\ nrSeen.runs[r].unrecorded => nrSeen'.runs[r].unrecorded,
         DOMAIN nrSeen.runs \subseteq Nat, \A r \in DOMAIN nrSeen.runs : \A q \in 1 .. r : q \in DOMAIN nrSeen.runs
  PROVE  PromptHeard'
BY DEF PromptHeard, Runs

SameWork == work'.session = work.session /\ work'.text = work.text /\ work'.tagged = work.tagged

\* The same of the next state.
HeardThen(s) == sess'[s].text # <<>> /\ sess'[s].text[1] = "prompt"

LEMMA HeardFrame ==
  ASSUME NodeTypes, HeardInv, node' = node, notes' \subseteq notes, past'.display = past.display,
         \/ inst'.display = inst.display
         \/ inst'.display \in notes
         \/ inst'.display = work.session /\ work.pc = "result",
         \A s \in Sessions : Heard(s) => HeardThen(s),
         \/ work'.pc = "none" /\ ~work'.tagged
         \/ work'.pc = work.pc /\ SameWork /\ (work.pc = "record" => sess' = sess)
         \/ /\ work'.pc \in {"attempt", "agent", "wait", "result"} /\ SameWork
            /\ work.pc \in {"attempt", "agent", "wait"},
         Now' = Now, Now > 0, nrSeen.runs[Now].carried => nrSeen'.runs[Now].carried, Unrecorded => Unrecorded'
  PROVE  HeardInv'
<1>0. /\ inst.display \in MaybeSession /\ past.display \in MaybeSession /\ work.session \in MaybeSession
      /\ notes \subseteq Sessions
  BY WorkFacts DEF NodeTypes
<1>1. work'.tagged => work'.session # None /\ work'.text = "prompt" /\ HeardThen(work'.session)
  BY <1>0 DEF HeardInv, SameWork, MaybeSession
<1>2. work'.pc \in {"record", "attempt", "agent", "wait"} /\ work'.text = "continue" => nrSeen'.runs[Now'].carried
  <2>1. ASSUME work'.pc \in {"record", "attempt", "agent", "wait"}, work'.text = "continue", work.pc = "result" PROVE FALSE
    BY <2>1 DEF HeardInv, SameWork
  <2> QED
    BY <2>1 DEF HeardInv, SameWork
<1>3. work'.pc = "record" /\ work'.text = "prompt" /\ ~node'.inherit => sess'[work'.session].text = <<>>
  BY DEF HeardInv, SameWork
<1>4. ASSUME ~node'.inherit, node'.prompt, ~Unrecorded'
      PROVE  /\ \A s \in notes' : HeardThen(s)
             /\ inst'.display # None => HeardThen(inst'.display)
             /\ past'.display # None => HeardThen(past'.display)
             /\ work'.pc \in {"attempt", "agent", "wait", "result"} /\ work'.session # None => HeardThen(work'.session)
             /\ work'.pc = "record" /\ work'.text = "continue" => HeardThen(work'.session)
  <2>1. /\ \A s \in notes : Heard(s)
        /\ inst.display # None => Heard(inst.display)
        /\ past.display # None => Heard(past.display)
        /\ work.pc \in {"attempt", "agent", "wait", "result"} /\ work.session # None => Heard(work.session)
        /\ work.pc = "record" /\ work.text = "continue" => Heard(work.session)
    BY <1>4 DEF HeardInv
  <2>2. work'.pc = "record" /\ work'.text = "continue" => HeardThen(work'.session)
    <3>1. sess' = sess /\ Heard(work.session) => HeardThen(work.session)
      BY DEF Heard, HeardThen
    <3> QED
      BY <2>1, <3>1 DEF SameWork, Heard
  <2> QED
    BY <1>0, <2>1, <2>2 DEF SameWork, MaybeSession
<1> QED
  BY <1>1, <1>2, <1>3, <1>4 DEF HeardInv, Heard, HeardThen

LEMMA Present ==
  ASSUME NodeTypes, WorkInv, work.pc # "none"
  PROVE  Now \in DOMAIN nrSeen.runs /\ Now > 0
BY PresentEntry DEF WorkInv

\* The transcript of the worker's session is changed, if there is one.
Rewritten ==
  /\ work.session # None
  /\ \E t \in Seq(Words) :
       /\ sess' = [sess EXCEPT ![work.session].text = t]
       /\ Heard(work.session) => t # <<>> /\ t[1] = "prompt"

LEMMA TranscriptStep ==
  ASSUME NodeTypes, OpenInv, UNCHANGED sess \/ Rewritten
  PROVE  /\ sess' \in [Sessions -> Session] /\ SameSessions
         /\ \A s \in Sessions : sess'[s].listed = sess[s].listed /\ (Heard(s) => HeardThen(s))
         /\ \A s \in Sessions : ~sess[s].open => sess'[s].text = sess[s].text
<1>1. CASE UNCHANGED sess
  BY <1>1 DEF NodeTypes, SameSessions, Heard, HeardThen
<1>2. ASSUME work.session # None, NEW t \in Seq(Words), sess' = [sess EXCEPT ![work.session].text = t],
             Heard(work.session) => t # <<>> /\ t[1] = "prompt"
      PROVE  /\ sess' \in [Sessions -> Session] /\ SameSessions
             /\ \A s \in Sessions : sess'[s].listed = sess[s].listed /\ (Heard(s) => HeardThen(s))
             /\ \A s \in Sessions : ~sess[s].open => sess'[s].text = sess[s].text
  <2>1. /\ sess' \in [Sessions -> Session] /\ SameSessions /\ sess'[work.session].text = t
        /\ \A s \in Sessions : sess'[s].listed = sess[s].listed /\ (s # work.session => sess'[s].text = sess[s].text)
    BY <1>2, TextStep
  <2>2. \A s \in Sessions : ~sess[s].open => s # work.session
    BY DEF OpenInv
  <2> QED
    BY <1>2, <2>1, <2>2 DEF Heard, HeardThen
<1> QED
  BY <1>1, <1>2 DEF Rewritten

LEMMA AttemptOverInv ==
  ASSUME NodeInv, NEW b \in BOOLEAN, AttemptOver(b)
  PROVE  NodeInv'
<1>0. /\ NodeTypes /\ WorkInv /\ OpenInv /\ ListInv /\ VersionInv /\ HeardInv /\ UsageInv
      /\ PromptHeard /\ TurnsCounted
  BY DEF NodeInv
<1>1. /\ UNCHANGED <<node, run, inst, past, notes, usage>>
      /\ work.pc \in {"attempt", "agent", "wait"} /\ work' \in Work /\ work'.pc \in {"result", "wait"}
      /\ work'.version = work.version /\ SameWork /\ work'.usage = SpentHere(b) /\ work'.ran
      /\ nrSeen' \in Seen /\ nrSeen'.runs = IF IsAgent THEN Entered(Charged(b)) ELSE nrSeen.runs
  BY DEF AttemptOver, SameWork
<1>2. Now \in DOMAIN nrSeen.runs /\ Now > 0 /\ nrSeen.runs[Now] \in Execution
  BY <1>0, <1>1, PresentEntry DEF WorkInv
<1>3. /\ Now' = Now /\ DOMAIN nrSeen'.runs = DOMAIN nrSeen.runs /\ DOMAIN nrSeen.runs = 1 .. Now
      /\ \A r \in DOMAIN nrSeen.runs : r # Now => nrSeen'.runs[r] = nrSeen.runs[r]
      /\ nrSeen'.runs[Now] = IF IsAgent THEN Charged(b) ELSE nrSeen.runs[Now]
  <2>1. CASE IsAgent
    <3>1. Charged(b) \in Execution
      BY <1>0, <1>2, Charging
    <3>2. nrSeen'.runs = Entered(Charged(b)) /\ Now' = Len(nrSeen'.runs)
      BY <1>1, <2>1 DEF Now
    <3>3. /\ Len(Entered(Charged(b))) = Now /\ DOMAIN Entered(Charged(b)) = 1 .. Now
          /\ Entered(Charged(b))[Now] = Charged(b)
          /\ \A r \in 1 .. Now : r # Now => Entered(Charged(b))[r] = nrSeen.runs[r]
      BY <1>0, <1>2, <3>1, EnteredFacts
    <3> QED
      BY <1>0, <2>1, <3>2, <3>3, SeenFacts
  <2>2. CASE ~IsAgent
    BY <1>0, <1>1, <2>2, SeenFacts DEF Now
  <2> QED
    BY <2>1, <2>2
<1>4. /\ Charged(b).carried = nrSeen.runs[Now].carried /\ Charged(b).deaf = nrSeen.runs[Now].deaf
      /\ Charged(b).unrecorded = nrSeen.runs[Now].unrecorded
      /\ Charged(b).reported = IF b THEN nrSeen.runs[Now].reported + 1 ELSE nrSeen.runs[Now].reported
      /\ Charged(b).estimated = IF b THEN nrSeen.runs[Now].estimated ELSE nrSeen.runs[Now].estimated + 1
  BY <1>2 DEF Charged, Execution
<1>5. \A r \in DOMAIN nrSeen.runs :
         /\ nrSeen'.runs[r].carried = nrSeen.runs[r].carried /\ nrSeen'.runs[r].deaf = nrSeen.runs[r].deaf
         /\ nrSeen'.runs[r].unrecorded = nrSeen.runs[r].unrecorded
  BY <1>3, <1>4
<1>6. /\ sess' \in [Sessions -> Session] /\ SameSessions
      /\ \A s \in Sessions : sess'[s].listed = sess[s].listed /\ (Heard(s) => HeardThen(s))
      /\ \A s \in Sessions : ~sess[s].open => sess'[s].text = sess[s].text
  <2>1. CASE UNCHANGED sess
    BY <1>0, <2>1, TranscriptStep
  <2>2. ASSUME IsAgent, NEW m \in Seq(Words), sess' = [sess EXCEPT ![work.session].text = @ \o m]
        PROVE  Rewritten
    <3>1. work.session # None /\ work.session \in Sessions
      BY <1>0, <1>1, <2>2, WorkFacts DEF WorkInv, MaybeSession
    <3>2. sess[work.session].text \in Seq(Words) /\ sess \in [Sessions -> Session]
      BY <1>0, <3>1, SessFacts DEF NodeTypes
    <3>3. sess' = [sess EXCEPT ![work.session].text = sess[work.session].text \o m]
      BY <2>2, <3>1, <3>2
    <3> QED
      BY <3>1, <3>2, <3>3, AppendKeeps DEF Heard, Rewritten
  <2>4. \/ UNCHANGED sess
        \/ IsAgent /\ \E m \in Seq(Words) : sess' = [sess EXCEPT ![work.session].text = @ \o m]
    BY DEF AttemptOver
  <2>5. CASE ~UNCHANGED sess
    BY <1>0, <2>2, <2>4, <2>5, TranscriptStep
  <2> QED
    BY <2>1, <2>5
<1>7. NodeTypes'
  BY <1>0, <1>1, <1>6 DEF NodeTypes
<1>8. WorkInv'
  BY <1>0, <1>1, <1>2, <1>3 DEF WorkInv, IsAgent, SameWork
<1>9. OpenInv'
  <2>1. \A s \in Sessions : ~sess[s].open => s \notin notes' \cup {inst'.display, past'.display, work'.session}
    BY <1>0, <1>1 DEF OpenInv, SameWork
  <2> QED
    BY <1>0, <1>1, <1>3, <1>6, <2>1, OpenFrame
<1>10. ListInv'
  BY <1>0, <1>1, <1>6 DEF ListInv, SameWork, SameSessions
<1>11. VersionInv'
  BY <1>0, <1>1, <1>6, VersionFrame
<1>12. HeardInv'
  BY <1>0, <1>1, <1>2, <1>3, <1>5, <1>6, HeardFrame DEF Unrecorded
<1>13. UsageInv'
  <2>1. work.usage = [reported |-> nrSeen.runs[Now].reported, estimated |-> nrSeen.runs[Now].estimated]
        /\ (work.usage.reported + work.usage.estimated > 0 => IsAgent /\ work.ran)
        /\ \A a \in DOMAIN usage : usage[a].run # Now /\ usage[a].run \in DOMAIN nrSeen.runs
    BY <1>0, <1>1 DEF UsageInv
  <2>2. SpentHere(b) = IF IsAgent
                       THEN [reported |-> Charged(b).reported, estimated |-> Charged(b).estimated]
                       ELSE work.usage
    BY <1>0, <1>4, <2>1, Spends
  <2>3. work'.usage = [reported |-> nrSeen'.runs[Now].reported, estimated |-> nrSeen'.runs[Now].estimated]
    BY <1>1, <1>3, <2>1, <2>2
  <2>4. work'.usage.reported + work'.usage.estimated > 0 => IsAgent /\ work'.ran
    BY <1>1, <2>1, <2>2
  <2> QED
    BY <1>1, <1>3, <2>1, <2>3, <2>4 DEF UsageInv, IsAgent
<1>14. PromptHeard'
  BY <1>0, <1>1, <1>3, <1>5, SeenFacts, PromptFrame
<1>15. TurnsCounted'
  <2>1. \A a \in DOMAIN usage : usage[a].run # Now /\ usage[a].run \in DOMAIN nrSeen.runs
    BY <1>0, <1>1 DEF UsageInv
  <2>2. \A a \in DOMAIN usage : nrSeen'.runs[usage[a].run] = nrSeen.runs[usage[a].run]
    BY <1>3, <2>1
  <2>3. work'.pc # "none" /\ usage' = usage
    BY <1>1
  <2> QED
    BY <1>0, <1>3, <2>2, <2>3 DEF TurnsCounted, Runs
<1> QED
  BY <1>7, <1>8, <1>9, <1>10, <1>11, <1>12, <1>13, <1>14, <1>15 DEF NodeInv

\* A step that writes nothing into the history and records no turn.
LEMMA Quiet ==
  ASSUME NodeInv, NodeTypes', WorkInv', OpenInv', ListInv', VersionInv', HeardInv',
         node' = node, usage' = usage, nrSeen'.runs = nrSeen.runs,
         work'.pc # "none" <=> work.pc # "none",
         work.pc # "none" => work'.usage = work.usage /\ (work.ran => work'.ran) /\ work'.pc # "agent"
  PROVE  NodeInv'
<1>1. UsageInv /\ PromptHeard /\ TurnsCounted /\ Now' = Now
  BY DEF NodeInv, Now
<1>2. UsageInv'
  BY <1>1 DEF UsageInv, IsAgent
<1>3. PromptHeard'
  BY <1>1 DEF PromptHeard, Runs
<1>4. TurnsCounted'
  BY <1>1 DEF TurnsCounted, Runs
<1> QED
  BY <1>2, <1>3, <1>4 DEF NodeInv

\* The run's status or version changes, or the instance is interrupted.
LEMMA ControlInv ==
  ASSUME NodeInv, UNCHANGED <<node, past, work, sess, notes, usage, nrSeen>>, run' \in Run, inst' \in Inst,
         inst'.version = inst.version, inst'.display = inst.display, inst'.status = "none" <=> inst.status = "none",
         run'.status # "ended" \/ work.pc = "none"
  PROVE  NodeInv'
<1>0. NodeTypes /\ WorkInv /\ OpenInv /\ ListInv /\ VersionInv /\ HeardInv /\ Now' = Now
  BY DEF NodeInv, Now
<1>1. NodeTypes'
  BY <1>0 DEF NodeTypes
<1>2. WorkInv'
  BY <1>0 DEF WorkInv, IsAgent
<1>3. OpenInv'
  BY <1>0 DEF OpenInv, OpenedTo
<1>4. ListInv' /\ VersionInv'
  BY <1>0 DEF ListInv, VersionInv, FirstVersion, BoundTo
<1>5. HeardInv'
  BY <1>0 DEF HeardInv, Heard, Unrecorded
<1>6. UsageInv' /\ PromptHeard' /\ TurnsCounted'
  BY <1>0 DEF NodeInv, UsageInv, PromptHeard, TurnsCounted, Runs, IsAgent
<1> QED
  BY <1>1, <1>2, <1>3, <1>4, <1>5, <1>6 DEF NodeInv

LEMMA InstRecords ==
  ASSUME NodeTypes
  PROVE  /\ \A x \in InstStatus : [inst EXCEPT !.status = x] \in Inst
               /\ [inst EXCEPT !.status = x].version = inst.version /\ [inst EXCEPT !.status = x].display = inst.display
               /\ [inst EXCEPT !.status = x].status = x
         /\ \A s \in MaybeSession : [inst EXCEPT !.display = s] \in Inst
               /\ [inst EXCEPT !.display = s].version = inst.version /\ [inst EXCEPT !.display = s].display = s
               /\ [inst EXCEPT !.display = s].status = inst.status
         /\ \A x \in RunStatus : [run EXCEPT !.status = x] \in Run /\ [run EXCEPT !.status = x].status = x
BY DEF NodeTypes, Inst, Run

LEMMA ControlSteps ==
  ASSUME NodeInv, HardStop \/ TimeOut \/ End \/ Edit
  PROVE  NodeInv'
<1>0. NodeTypes /\ WorkInv
  BY DEF NodeInv
<1>1. Interrupted \in Inst /\ Interrupted.version = inst.version /\ Interrupted.display = inst.display
      /\ (Interrupted.status = "none" <=> inst.status = "none")
  BY <1>0, InstRecords DEF Interrupted, NodeTypes, InstStatus
<1>2. CASE HardStop
  <2>1. run' \in Run /\ run'.status # "ended"
    BY <1>0, <1>2, InstRecords DEF HardStop, RunStatus
  <2> QED
    BY <1>1, <1>2, <2>1, ControlInv DEF HardStop
<1>3. CASE TimeOut
  <2>1. run' \in Run /\ run'.status # "ended"
    BY <1>0, <1>3, InstRecords DEF TimeOut, RunStatus
  <2> QED
    BY <1>0, <1>3, <2>1, ControlInv DEF TimeOut, NodeTypes
<1>4. CASE End
  <2>1. run' \in Run /\ work.pc = "none"
    BY <1>0, <1>4, InstRecords DEF End, RunStatus
  <2> QED
    BY <1>1, <1>4, <2>1, ControlInv DEF End
<1>5. CASE Edit
  <2>1. run' \in Run /\ run'.status = run.status
    BY <1>0, <1>5 DEF Edit, NodeTypes, Run
  <2> QED
    BY <1>0, <1>5, <2>1, ControlInv DEF Edit, NodeTypes, WorkInv
<1> QED
  BY <1>2, <1>3, <1>4, <1>5

\* The worker goes on, with nothing written: it has no session to open, or inherits one, or is done.
LEMMA WorkerGoesOn ==
  ASSUME NodesAssumption, NodeInv, OpenShell \/ OpenInherited \/ OpenFails \/ WaitInterrupted
  PROVE  NodeInv'
<1>0. NodeTypes /\ WorkInv /\ OpenInv /\ ListInv /\ VersionInv /\ HeardInv /\ work \in Work /\ nrSeen \in Seen
  BY DEF NodeInv, NodeTypes
<1>1. /\ UNCHANGED <<node, run, inst, past, sess, notes, usage>> /\ work.pc \in {"open", "wait"}
      /\ nrSeen' = nrSeen \/ Fault(nrSeen)
  BY DEF OpenShell, OpenInherited, OpenFails, WaitInterrupted
<1>2. nrSeen' \in Seen /\ nrSeen'.runs = nrSeen.runs /\ Now' = Now
  BY <1>0, <1>1, Faulted DEF Now
<1>4. /\ work' \in Work /\ work'.version = work.version /\ work'.usage = work.usage /\ work'.text = work.text
      /\ work'.tagged = work.tagged /\ work'.ran = work.ran
      /\ \/ work'.pc = "attempt" /\ work.pc = "open" /\ ~IsAgent /\ work'.session = work.session
         \/ work'.pc = "record" /\ work.pc = "open" /\ IsAgent /\ work'.session = Upstream /\ node.inherit
         \/ work'.pc = "result" /\ work'.session = work.session
  <2>2. work.session \in MaybeSession /\ work.end \in {"none", "done", "failed"} /\ Upstream \in MaybeSession
    <3>1. 1 \in Sessions
      <4>1. MaxRuns \in Nat
        BY DEF NodesAssumption
      <4> QED
        BY <4>1 DEF Sessions
    <3> QED
      BY <1>0, <3>1 DEF Work, MaybeSession, Upstream
  <2>3. CASE OpenShell
    <3>1. work' = [work EXCEPT !.pc = "attempt"] /\ work.pc = "open" /\ ~IsAgent
      BY <2>3 DEF OpenShell, IsAgent
    <3> QED
      BY <1>0, <3>1 DEF Work, WorkPc
  <2>4. CASE OpenInherited
    <3>1. work' = [work EXCEPT !.pc = "record", !.session = Upstream] /\ work.pc = "open" /\ IsAgent /\ node.inherit
      BY <2>4 DEF OpenInherited
    <3> QED
      BY <1>0, <2>2, <3>1 DEF Work, WorkPc
  <2>5. CASE OpenFails \/ WaitInterrupted
    <3>1. work' = [work EXCEPT !.pc = "result", !.end = "failed"]
      BY <2>5 DEF OpenFails, WaitInterrupted, Result
    <3> QED
      BY <1>0, <3>1 DEF Work, WorkPc
  <2> QED
    BY <2>3, <2>4, <2>5
<1>5. NodeTypes'
  BY <1>0, <1>1, <1>2, <1>4 DEF NodeTypes
<1>6. WorkInv'
  BY <1>0, <1>1, <1>2, <1>4 DEF WorkInv, IsAgent, None, Upstream
<1>7. SameSessions
  BY <1>1 DEF SameSessions
<1>8. OpenInv'
  <2>1. sess[Upstream].open \/ Upstream \notin Sessions
    BY <1>0 DEF OpenInv, OpenedTo, Sessions, Upstream
  <2>2. \A s \in Sessions : ~sess[s].open => s \notin notes' \cup {inst'.display, past'.display, work'.session}
    BY <1>0, <1>1, <1>4, <2>1 DEF OpenInv
  <2> QED
    BY <1>0, <1>1, <1>2, <1>4, <1>7, <2>2, OpenFrame
<1>9. ListInv'
  <2>1. work.pc = "open" => work.session = None
    BY <1>0 DEF WorkInv
  <2>2. \A s \in Sessions : s # None
    BY DEF Sessions, None
  <2> QED
    BY <1>0, <1>1, <1>4, <2>1, <2>2 DEF ListInv
<1>10. VersionInv'
  BY <1>0, <1>1, <1>4, <1>7, VersionFrame
<1>11. HeardInv'
  <2>1. work.pc = "open" => ~work.tagged /\ work.session = None /\ work.text = "prompt"
    BY <1>0 DEF WorkInv
  <2> QED
    BY <1>0, <1>1, <1>2, <1>4, <2>1 DEF HeardInv, Heard, Unrecorded
<1> QED
  BY <1>0, <1>1, <1>2, <1>4, <1>5, <1>6, <1>8, <1>9, <1>10, <1>11, Quiet

\* An interrupted Prompt node goes on in the session it had.
LEMMA OpenCarriedInv ==
  ASSUME NodeInv, OpenCarried
  PROVE  NodeInv'
<1> DEFINE e == [nrSeen.runs[Now] EXCEPT !.carried = TRUE]
<1>0. NodeTypes /\ WorkInv /\ OpenInv /\ ListInv /\ VersionInv /\ HeardInv /\ work \in Work
      /\ UsageInv /\ PromptHeard /\ TurnsCounted
  BY DEF NodeInv, NodeTypes
<1>1. /\ UNCHANGED <<node, run, inst, past, sess, notes, usage>> /\ work.pc = "open" /\ IsAgent
      /\ Carried = past.display /\ past.display # None /\ nrSeen' = Noted("carried", TRUE)
      /\ work' = [work EXCEPT !.pc = "record", !.session = past.display, !.text = "continue"]
  BY DEF OpenCarried, Carried
<1>2. Now > 0 /\ Now \in DOMAIN nrSeen.runs
  BY <1>0, <1>1, Present
<1>3. e \in Execution /\ nrSeen' \in Seen /\ nrSeen'.runs = Entered(e)
  BY <1>0, <1>1, <1>2, Carrying
<1>4. e.carried /\ e.deaf = nrSeen.runs[Now].deaf /\ e.unrecorded = nrSeen.runs[Now].unrecorded
      /\ e.reported = nrSeen.runs[Now].reported /\ e.estimated = nrSeen.runs[Now].estimated
  BY <1>0, <1>2, PresentEntry DEF Execution
<1> HIDE DEF e
<1>5. Now' = Len(nrSeen'.runs)
  BY DEF Now
<1>6. /\ Now' = Now /\ DOMAIN nrSeen'.runs = DOMAIN nrSeen.runs /\ nrSeen'.runs[Now] = e
      /\ DOMAIN nrSeen.runs = 1 .. Now /\ Now \in Nat
      /\ \A r \in DOMAIN nrSeen.runs : r # Now => nrSeen'.runs[r] = nrSeen.runs[r]
  BY <1>0, <1>2, <1>3, <1>5, EnteredFacts, SeenFacts
<1>7. \A r \in DOMAIN nrSeen.runs :
         /\ nrSeen'.runs[r].deaf = nrSeen.runs[r].deaf /\ nrSeen'.runs[r].unrecorded = nrSeen.runs[r].unrecorded
         /\ nrSeen'.runs[r].reported = nrSeen.runs[r].reported
         /\ nrSeen'.runs[r].estimated = nrSeen.runs[r].estimated
         /\ nrSeen.runs[r].carried => nrSeen'.runs[r].carried
  BY <1>4, <1>6
<1>8. past.display \in Sessions
  BY <1>0, <1>1, WorkFacts DEF MaybeSession
<1>9. /\ work' \in Work /\ work'.pc = "record" /\ work'.session = past.display /\ work'.text = "continue"
      /\ work'.version = work.version /\ work'.usage = work.usage /\ work'.tagged = work.tagged
      /\ work'.ran = work.ran
  BY <1>0, <1>1, <1>8 DEF Work, WorkPc, MaybeSession
<1>10. ~work.tagged /\ work.session = None
  BY <1>0, <1>1 DEF WorkInv
<1>11. NodeTypes'
  BY <1>0, <1>1, <1>3, <1>9 DEF NodeTypes
<1>12. WorkInv'
  BY <1>0, <1>1, <1>6, <1>9 DEF WorkInv, IsAgent
<1>13. SameSessions
  BY <1>1 DEF SameSessions
<1>14. OpenInv'
  <2>1. \A s \in Sessions : ~sess[s].open => s \notin notes' \cup {inst'.display, past'.display, work'.session}
    BY <1>0, <1>1, <1>9 DEF OpenInv
  <2> QED
    BY <1>0, <1>1, <1>6, <1>9, <1>13, <2>1, OpenFrame
<1>15. ListInv'
  BY <1>0, <1>1, <1>10 DEF ListInv, Sessions, None
<1>16. VersionInv'
  BY <1>0, <1>1, <1>9, <1>13, VersionFrame
<1>17. HeardInv'
  <2>1. nrSeen'.runs[Now'].carried
    BY <1>4, <1>6
  <2>2. Unrecorded => Unrecorded'
    BY <1>6, <1>7 DEF Unrecorded
  <2> QED
    BY <1>0, <1>1, <1>9, <1>10, <2>1, <2>2 DEF HeardInv, Heard
<1>18. UsageInv' /\ TurnsCounted'
  BY <1>0, <1>1, <1>2, <1>6, <1>7, <1>9, UsageFrame
<1>19. PromptHeard'
  <2>1. DOMAIN nrSeen.runs \subseteq Nat /\ \A r \in DOMAIN nrSeen.runs : \A q \in 1 .. r : q \in DOMAIN nrSeen.runs
    BY <1>6
  <2>2. node' = node /\ DOMAIN nrSeen'.runs = DOMAIN nrSeen.runs
    BY <1>1, <1>6
  <2> QED
    BY <1>0, <1>7, <2>1, <2>2, PromptFrame
<1> QED
  BY <1>11, <1>12, <1>14, <1>15, <1>16, <1>17, <1>18, <1>19 DEF NodeInv

\* A session is opened, the one after those there are, for the Agent of the first execution.
LEMMA OpenNewInv ==
  ASSUME NodesAssumption, NodeInv, OpenNew
  PROVE  NodeInv'
<1> DEFINE s == CHOOSE x \in Sessions : ~ sess[x].open /\ \A y \in Sessions : y < x => sess[y].open
           v == BoundTo(work.version)
<1>0. NodeTypes /\ WorkInv /\ OpenInv /\ ListInv /\ VersionInv /\ HeardInv /\ work \in Work
  BY DEF NodeInv, NodeTypes
<1>1. /\ UNCHANGED <<node, run, inst, past, notes, usage, nrSeen>> /\ work.pc = "open" /\ IsAgent
      /\ ~node.inherit /\ sess' = [sess EXCEPT ![s].open = TRUE, ![s].version = v]
      /\ work' = [work EXCEPT !.pc = "record", !.session = s]
  BY DEF OpenNew, BoundTo
<1>2. PICK k \in Sessions : OpenedTo(k) /\ k <= Now
  BY <1>0, <1>1 DEF OpenInv
<1>3. k \in Nat /\ k >= 1 /\ k + 1 \in Sessions /\ Now \in Nat /\ Now' = Now
  <2>1. MaxRuns \in Nat /\ Now <= MaxRuns /\ Now \in Nat
    BY <1>0, SeenFacts DEF NodesAssumption, WorkInv
  <2>2. Now' = Now
    BY <1>1 DEF Now
  <2> QED
    BY <1>2, <2>1, <2>2 DEF Sessions
<1>4. s = k + 1
  <2> DEFINE P(x) == ~ sess[x].open /\ \A y \in Sessions : y < x => sess[y].open
  <2>1. P(k + 1)
    BY <1>2, <1>3 DEF OpenedTo, Sessions
  <2>2. s \in Sessions /\ P(s)
    BY <1>3, <2>1
  <2>3. s \in Nat /\ ~(s <= k) /\ ~(k + 1 < s)
    BY <1>2, <1>3, <2>2 DEF OpenedTo, Sessions
  <2> HIDE DEF s
  <2> QED
    BY <1>3, <2>3
<1> HIDE DEF s
<1>5. s \in Sessions /\ ~sess[s].open /\ s # Upstream /\ s # None
  BY <1>2, <1>3, <1>4 DEF OpenedTo, Upstream, None
<1>6. v \in Versions /\ work.version = inst.version /\ inst.version # None
  BY <1>0, <1>1, WorkFacts DEF BoundTo, VersionInv, WorkInv, Versions, None
<1> HIDE DEF v
<1>7. sess[s] \in Session /\ sess \in [Sessions -> Session]
  BY <1>0, <1>5 DEF NodeTypes
<1>8. /\ sess' \in [Sessions -> Session] /\ sess'[s].open /\ sess'[s].version = v
      /\ \A t \in Sessions : sess'[t].text = sess[t].text /\ (t # s => sess'[t] = sess[t])
  <2>1. sess' = [sess EXCEPT ![s] = [sess[s] EXCEPT !.open = TRUE, !.version = v]]
    BY <1>1, <1>5, <1>7
  <2>2. [sess[s] EXCEPT !.open = TRUE, !.version = v] \in Session
    BY <1>6, <1>7 DEF Session
  <2>3. sess'[s] = [sess[s] EXCEPT !.open = TRUE, !.version = v]
    BY <1>5, <1>7, <2>1
  <2>4. sess'[s].open /\ sess'[s].version = v /\ sess'[s].text = sess[s].text
    BY <1>7, <2>3 DEF Session
  <2> QED
    BY <1>5, <1>7, <2>1, <2>2, <2>4
<1>9. /\ work' \in Work /\ work'.pc = "record" /\ work'.session = s /\ work'.text = work.text
      /\ work'.version = work.version /\ work'.usage = work.usage /\ work'.tagged = work.tagged
      /\ work'.ran = work.ran
  BY <1>0, <1>1, <1>5 DEF Work, WorkPc, MaybeSession
<1>10. ~work.tagged /\ work.session = None /\ work.text = "prompt"
  BY <1>0, <1>1 DEF WorkInv
<1>11. NodeTypes'
  BY <1>0, <1>1, <1>8, <1>9 DEF NodeTypes
<1>12. WorkInv'
  BY <1>0, <1>1, <1>3, <1>5, <1>9 DEF WorkInv, IsAgent
<1>13. OpenInv'
  <2>1. \A t \in Sessions : sess'[t].open <=> t <= k + 1
    <3>1. \A t \in Sessions : t \in Nat /\ (sess[t].open <=> t <= k)
      BY <1>2 DEF OpenedTo, Sessions
    <3> QED
      BY <1>3, <1>4, <1>8, <3>1
  <2>2. k + 1 \in Sessions /\ k + 1 <= Now + 1
    BY <1>2, <1>3
  <2>3. \A t \in Sessions : ~sess'[t].open =>
           sess'[t].text = <<>> /\ t \notin notes' \cup {inst'.display, past'.display, work'.session}
    BY <1>0, <1>1, <1>8, <1>9 DEF OpenInv
  <2> QED
    BY <1>3, <1>9, <2>1, <2>2, <2>3 DEF OpenInv, OpenedTo
<1>14. ListInv'
  BY <1>0, <1>8, <1>9, <1>10 DEF ListInv, Sessions, None
<1>15. VersionInv'
  <2>1. FirstVersion = inst.version /\ FirstVersion' = FirstVersion
    BY <1>1, <1>6 DEF FirstVersion
  <2>2. v = BoundTo(FirstVersion) /\ node' = node
    BY <1>1, <1>6, <2>1 DEF v
  <2>3. \A t \in Sessions : t # Upstream /\ sess'[t].open => FirstVersion # None /\ sess'[t].version = BoundTo(FirstVersion)
    BY <1>0, <1>6, <1>8, <2>1, <2>2 DEF VersionInv
  <2> QED
    BY <1>0, <1>1, <1>9, <2>1, <2>2, <2>3 DEF VersionInv, BoundTo
<1>16. HeardInv'
  <2>1. sess'[s].text = <<>>
    BY <1>0, <1>5, <1>8 DEF OpenInv
  <2>2. \A t \in Sessions : Heard(t) => HeardThen(t)
    BY <1>8 DEF Heard, HeardThen
  <2>3. (Unrecorded' <=> Unrecorded) /\ nrSeen' = nrSeen
    BY <1>1 DEF Unrecorded
  <2>4. notes \subseteq Sessions /\ inst.display \in MaybeSession /\ past.display \in MaybeSession
    BY <1>0, WorkFacts DEF NodeTypes
  <2> QED
    BY <1>0, <1>1, <1>3, <1>9, <1>10, <2>1, <2>2, <2>3, <2>4 DEF HeardInv, Heard, HeardThen, MaybeSession
<1>17. nrSeen'.runs = nrSeen.runs
  BY <1>1
<1> QED
  BY <1>1, <1>9, <1>11, <1>12, <1>13, <1>14, <1>15, <1>16, <1>17, Quiet

\* An execution begins: nothing is known of it yet.
LEMMA EnqueueInv ==
  ASSUME NodesAssumption, NodeInv, Enqueue
  PROVE  NodeInv'
<1> DEFINE e == [carried |-> FALSE, unrecorded |-> FALSE, deaf |-> FALSE, reported |-> 0, estimated |-> 0]
           v == ExecutionVersion
<1>0. NodeTypes /\ WorkInv /\ OpenInv /\ ListInv /\ VersionInv /\ HeardInv
      /\ UsageInv /\ PromptHeard /\ TurnsCounted
  BY DEF NodeInv
<1>1. /\ UNCHANGED <<node, run, past, sess, notes, usage>> /\ run.status = "running" /\ inst.status = "none"
      /\ Now < MaxRuns /\ inst' = [status |-> "running", version |-> v, display |-> None]
      /\ work' = [NoWork EXCEPT !.pc = "open", !.version = v]
      /\ nrSeen' = [nrSeen EXCEPT !.runs = Append(@, e)]
  BY DEF Enqueue
<1>2. v \in Versions /\ v # None /\ (past.version # None => v = past.version)
  <2>1. past.version \in Versions /\ run.version \in {1, 2}
    BY <1>0, WorkFacts
  <2> QED
    BY <2>1 DEF ExecutionVersion, Versions, None
<1> HIDE DEF v
<1>3. e \in Execution /\ ~e.carried /\ ~e.unrecorded /\ ~e.deaf /\ e.reported = 0 /\ e.estimated = 0
  BY DEF Execution
<1> HIDE DEF e
<1>4. nrSeen.runs \in Seq(Execution) /\ Now \in Nat /\ DOMAIN nrSeen.runs = 1 .. Now /\ nrSeen \in Seen
  BY <1>0, SeenFacts DEF NodeTypes
<1>5. nrSeen' \in Seen /\ nrSeen'.runs = Append(nrSeen.runs, e)
  <2> DEFINE t == Append(nrSeen.runs, e)
  <2>1. t \in Seq(Execution)
    BY <1>3, <1>4
  <2>2. nrSeen' = [nrSeen EXCEPT !.runs = t]
    BY <1>1
  <2> HIDE DEF t
  <2>3. nrSeen' \in Seen /\ nrSeen'.runs = t
    BY <1>4, <2>1, <2>2 DEF Seen
  <2> QED
    BY <2>3 DEF t
<1>6. /\ Now' = Now + 1 /\ DOMAIN nrSeen'.runs = 1 .. Now + 1 /\ nrSeen'.runs[Now + 1] = e
      /\ \A r \in 1 .. Now : nrSeen'.runs[r] = nrSeen.runs[r]
  <2>1. Now = Len(nrSeen.runs) /\ Now' = Len(nrSeen'.runs)
    BY DEF Now
  <2> QED
    BY <1>3, <1>4, <1>5, <2>1
<1>7. /\ work' \in Work /\ work'.pc = "open" /\ work'.session = None /\ work'.text = "prompt" /\ work'.version = v
      /\ ~work'.tagged /\ work'.usage = [reported |-> 0, estimated |-> 0]
  <2>1. NoUsage \in Spending /\ NoUsage = [reported |-> 0, estimated |-> 0]
    BY DEF NoUsage, Spending
  <2> QED
    BY <1>1, <1>2, <2>1 DEF NoWork, Work, WorkPc, MaybeSession
<1>8. inst' \in Inst /\ inst'.status = "running" /\ inst'.version = v /\ inst'.display = None
  BY <1>1, <1>2 DEF Inst, InstStatus, MaybeSession
<1>9. work.pc = "none" /\ inst.version = None
  BY <1>0, <1>1 DEF WorkInv
<1>10. NodeTypes'
  BY <1>0, <1>1, <1>5, <1>7, <1>8 DEF NodeTypes
<1>11. WorkInv'
  <2>1. MaxRuns \in Nat
    BY DEF NodesAssumption
  <2>2. Now + 1 <= MaxRuns /\ Now + 1 > 0 /\ Now + 1 # 0
    BY <1>1, <1>4, <2>1
  <2> QED
    BY <1>1, <1>2, <1>6, <1>7, <1>8, <2>2 DEF WorkInv
<1>12. OpenInv'
  <2>1. PICK k \in Sessions : OpenedTo(k) /\ k <= Now + 1
    BY <1>0 DEF OpenInv
  <2>2. k <= Now' /\ k <= Now' + 1 /\ OpenedTo(k)'
    BY <1>1, <1>4, <1>6, <2>1 DEF OpenedTo, Sessions
  <2>3. \A s \in Sessions : s # None
    BY DEF Sessions, None
  <2> QED
    BY <1>0, <1>1, <1>7, <1>8, <2>2, <2>3 DEF OpenInv
<1>13. ListInv'
  BY <1>0, <1>1, <1>9 DEF ListInv
<1>14. VersionInv'
  BY <1>0, <1>1, <1>2, <1>7, <1>8, <1>9 DEF VersionInv, FirstVersion, BoundTo
<1>15. HeardInv'
  <2>1. Unrecorded => Unrecorded'
    BY <1>4, <1>6 DEF Unrecorded
  <2> QED
    BY <1>0, <1>1, <1>7, <1>8, <2>1 DEF HeardInv, Heard
<1>16. UsageInv'
  <2>1. \A a \in DOMAIN usage : usage[a].run \in 1 .. Now
    BY <1>0, <1>4 DEF UsageInv
  <2>2. \A a \in DOMAIN usage : usage[a].run # Now + 1 /\ usage[a].run \in 1 .. Now + 1
    BY <1>4, <2>1
  <2>3. work'.usage = [reported |-> nrSeen'.runs[Now'].reported, estimated |-> nrSeen'.runs[Now'].estimated]
    BY <1>3, <1>6, <1>7
  <2>4. ~(work'.usage.reported + work'.usage.estimated > 0) /\ work'.pc # "agent"
    BY <1>7
  <2> QED
    BY <1>1, <1>6, <2>2, <2>3, <2>4 DEF UsageInv
<1>17. PromptHeard'
  <2>1. ASSUME NEW r \in 1 .. Now + 1, nrSeen'.runs[r].deaf
        PROVE  nrSeen'.runs[r].carried /\ (node.inherit \/ \E q \in 1 .. r : nrSeen'.runs[q].unrecorded)
    <3>1. r \in 1 .. Now
      BY <1>3, <1>4, <1>6, <2>1
    <3>2. nrSeen.runs[r].carried /\ (node.inherit \/ \E q \in 1 .. r : nrSeen.runs[q].unrecorded)
      BY <1>0, <1>4, <1>6, <2>1, <3>1 DEF PromptHeard, Runs
    <3>3. \A q \in 1 .. r : q \in 1 .. Now
      BY <1>4, <3>1
    <3> QED
      BY <1>6, <3>1, <3>2, <3>3
  <2> QED
    BY <1>1, <1>6, <2>1 DEF PromptHeard, Runs
<1>18. TurnsCounted'
  <2>1. \A a \in DOMAIN usage : usage[a].run \in 1 .. Now
    BY <1>0, <1>4 DEF UsageInv
  <2>2. ASSUME NEW r \in 1 .. Now + 1, nrSeen'.runs[r].reported + nrSeen'.runs[r].estimated > 0
        PROVE  \E a \in DOMAIN usage : usage[a].run = r
    <3>1. r # Now + 1
      BY <1>3, <1>6, <2>2
    <3>2. r \in 1 .. Now
      BY <1>4, <3>1
    <3> QED
      BY <1>0, <1>4, <1>6, <1>9, <2>2, <3>2 DEF TurnsCounted, Runs
  <2>3. \A a \in DOMAIN usage : nrSeen'.runs[usage[a].run] = nrSeen.runs[usage[a].run]
    BY <1>6, <2>1
  <2>4. usage' = usage /\ DOMAIN nrSeen'.runs = 1 .. Now + 1
    BY <1>1, <1>6
  <2> QED
    BY <1>0, <2>2, <2>3, <2>4 DEF TurnsCounted, Runs
<1> QED
  BY <1>10, <1>11, <1>12, <1>13, <1>14, <1>15, <1>16, <1>17, <1>18 DEF NodeInv

\* The session is announced: it is one that is open.
LEMMA Announced ==
  ASSUME NodeInv, work.pc = "record", NEW kept \in BOOLEAN, Announce(kept)
  PROVE  /\ work.session \in Sessions /\ sess[work.session].open
         /\ notes' \subseteq notes \cup {work.session} /\ notes' \subseteq Sessions
<1>1. work.session \in Sessions
  BY WorkFacts DEF NodeInv, WorkInv, MaybeSession
<1>2. sess[work.session].open
  BY <1>1 DEF NodeInv, OpenInv
<1> QED
  BY <1>1, <1>2 DEF Announce, NodeInv, NodeTypes

\* The prompt is written, or left to the Agent's own recording, or that fails.
LEMMA RecordInv ==
  ASSUME NodesAssumption, NodeInv, NEW kept \in BOOLEAN, Record(kept)
  PROVE  NodeInv'
<1> DEFINE e == [nrSeen.runs[Now] EXCEPT !.unrecorded = TRUE]
           s == work.session
<1>0. NodeTypes /\ WorkInv /\ OpenInv /\ ListInv /\ VersionInv /\ HeardInv /\ work \in Work
      /\ UsageInv /\ PromptHeard /\ TurnsCounted
  BY DEF NodeInv, NodeTypes
<1>1. /\ UNCHANGED <<node, run, inst, past, usage>> /\ work.pc = "record" /\ node.prompt /\ Announce(kept)
      /\ \/ Recorded /\ sess' = [sess EXCEPT ![s].text = Append(@, work.text)]
            /\ work' = [work EXCEPT !.pc = "attempt", !.tagged = TRUE] /\ UNCHANGED nrSeen
         \/ Recorded /\ Fault(Noted("unrecorded", TRUE)) /\ work' = [work EXCEPT !.pc = "attempt"]
            /\ UNCHANGED sess
         \/ ~Recorded /\ work' = [work EXCEPT !.pc = "attempt"] /\ UNCHANGED <<sess, nrSeen>>
  BY DEF Record
<1>2. /\ s \in Sessions /\ sess[s].open /\ notes' \subseteq notes \cup {s} /\ notes' \subseteq Sessions
      /\ IsAgent /\ s # None
  BY <1>0, <1>1, Announced DEF WorkInv
<1>3. Now > 0 /\ Now \in DOMAIN nrSeen.runs /\ DOMAIN nrSeen.runs = 1 .. Now /\ Now \in Nat /\ nrSeen \in Seen
  BY <1>0, <1>1, Present, SeenFacts DEF NodeTypes
<1>4. /\ work' \in Work /\ work'.pc = "attempt" /\ work'.session = s /\ work'.text = work.text
      /\ work'.version = work.version /\ work'.usage = work.usage /\ work'.ran = work.ran
      /\ (work'.tagged => work.tagged \/ (Recorded /\ sess' = [sess EXCEPT ![s].text = Append(@, work.text)]))
  BY <1>0, <1>1 DEF Work, WorkPc
<1>5. /\ nrSeen' \in Seen /\ Now' = Now /\ DOMAIN nrSeen'.runs = DOMAIN nrSeen.runs
      /\ \A r \in DOMAIN nrSeen.runs :
           /\ nrSeen'.runs[r].deaf = nrSeen.runs[r].deaf /\ nrSeen'.runs[r].carried = nrSeen.runs[r].carried
           /\ nrSeen'.runs[r].reported = nrSeen.runs[r].reported
           /\ nrSeen'.runs[r].estimated = nrSeen.runs[r].estimated
           /\ nrSeen.runs[r].unrecorded => nrSeen'.runs[r].unrecorded
  <2>1. CASE UNCHANGED nrSeen
    BY <1>3, <2>1 DEF Now
  <2>2. CASE Fault(Noted("unrecorded", TRUE))
    <3>1. e \in Execution /\ nrSeen' \in Seen /\ nrSeen'.runs = Entered(e)
      <4>1. e \in Execution /\ Noted("unrecorded", TRUE) \in Seen /\ Noted("unrecorded", TRUE).runs = Entered(e)
        BY <1>0, <1>3, Unrecording
      <4> QED
        BY <2>2, <4>1, Faulted
    <3>2. /\ e.unrecorded /\ e.deaf = nrSeen.runs[Now].deaf /\ e.carried = nrSeen.runs[Now].carried
          /\ e.reported = nrSeen.runs[Now].reported /\ e.estimated = nrSeen.runs[Now].estimated
      BY <1>0, <1>3, PresentEntry DEF Execution
    <3> HIDE DEF e
    <3>3. Now' = Len(nrSeen'.runs)
      BY DEF Now
    <3>4. /\ Now' = Now /\ DOMAIN nrSeen'.runs = DOMAIN nrSeen.runs /\ nrSeen'.runs[Now] = e
          /\ \A r \in DOMAIN nrSeen.runs : r # Now => nrSeen'.runs[r] = nrSeen.runs[r]
      BY <1>0, <1>3, <3>1, <3>3, EnteredFacts
    <3> QED
      BY <3>1, <3>2, <3>4
  <2> QED
    BY <1>1, <2>1, <2>2
<1>6. ~Recorded \/ sess' = [sess EXCEPT ![s].text = Append(@, work.text)] \/ Unrecorded'
  <2>1. ASSUME Fault(Noted("unrecorded", TRUE)) PROVE Unrecorded'
    <3>1. e \in Execution /\ Noted("unrecorded", TRUE) \in Seen /\ Noted("unrecorded", TRUE).runs = Entered(e)
      BY <1>0, <1>3, Unrecording
    <3>2. nrSeen'.runs = Entered(e)
      BY <2>1, <3>1, Faulted
    <3>3. e.unrecorded
      BY <1>0, <1>3, PresentEntry DEF Execution
    <3> HIDE DEF e
    <3>4. nrSeen'.runs[Now].unrecorded /\ DOMAIN nrSeen'.runs = 1 .. Now
      BY <1>0, <1>3, <3>1, <3>2, <3>3, EnteredFacts
    <3> QED
      BY <1>3, <3>4 DEF Unrecorded
  <2> QED
    BY <1>1, <2>1
<1>7. /\ sess' \in [Sessions -> Session] /\ SameSessions
      /\ \A t \in Sessions : sess'[t].listed = sess[t].listed /\ (Heard(t) => HeardThen(t))
      /\ \A t \in Sessions : ~sess[t].open => sess'[t].text = sess[t].text
      /\ Recorded /\ sess' = [sess EXCEPT ![s].text = Append(@, work.text)] => HeardThen(s)
  <2>1. CASE UNCHANGED sess /\ ~(Recorded /\ sess' = [sess EXCEPT ![s].text = Append(@, work.text)])
    BY <1>0, <2>1, TranscriptStep
  <2>2. CASE Recorded /\ sess' = [sess EXCEPT ![s].text = Append(@, work.text)]
    <3>1. sess[s].text = <<>> /\ work.text = "prompt"
      BY <1>0, <1>1, <2>2 DEF HeardInv, Recorded
    <3>2. sess' = [sess EXCEPT ![s].text = <<"prompt">>]
      BY <2>2, <3>1
    <3>3. <<"prompt">> \in Seq(Words) /\ <<"prompt">> # <<>> /\ <<"prompt">>[1] = "prompt"
      BY Messages
    <3>4. Rewritten
      BY <1>2, <3>2, <3>3 DEF Rewritten
    <3>5. sess'[s].text = <<"prompt">>
      BY <1>0, <1>2, <3>2, <3>3, TextStep
    <3> QED
      BY <1>0, <3>3, <3>4, <3>5, TranscriptStep DEF HeardThen
  <2> QED
    BY <1>1, <2>1, <2>2
<1> HIDE DEF s, e
<1>8. NodeTypes'
  BY <1>0, <1>1, <1>2, <1>4, <1>5, <1>7 DEF NodeTypes
<1>9. WorkInv'
  BY <1>0, <1>1, <1>2, <1>4, <1>5 DEF WorkInv, IsAgent
<1>10. OpenInv'
  <2>1. \A t \in Sessions : ~sess[t].open => t \notin notes' \cup {inst'.display, past'.display, work'.session}
    BY <1>0, <1>1, <1>2, <1>4 DEF OpenInv, s
  <2> QED
    BY <1>0, <1>1, <1>4, <1>5, <1>7, <2>1, OpenFrame
<1>11. ListInv'
  BY <1>0, <1>4, <1>7 DEF ListInv, SameSessions, s
<1>12. VersionInv'
  BY <1>0, <1>1, <1>4, <1>7, VersionFrame
<1>13. HeardInv'
  <2>1. work'.tagged => work'.session # None /\ work'.text = "prompt" /\ HeardThen(work'.session)
    BY <1>0, <1>2, <1>4, <1>7 DEF HeardInv, Recorded, s
  <2>2. work'.text = "continue" => nrSeen'.runs[Now'].carried
    BY <1>0, <1>1, <1>3, <1>4, <1>5 DEF HeardInv
  <2>3. Unrecorded => Unrecorded'
    BY <1>5 DEF Unrecorded
  <2>4. ASSUME ~node.inherit, ~Unrecorded'
        PROVE  HeardThen(s)
    <3>1. CASE Recorded
      BY <1>6, <1>7, <2>4, <3>1
    <3>2. CASE ~Recorded
      <4>1. work.text = "continue"
        BY <1>0, <2>4, <3>2 DEF Work, Recorded
      <4>2. Heard(s)
        BY <1>0, <1>1, <2>3, <2>4, <4>1 DEF HeardInv, s
      <4> QED
        BY <1>2, <1>7, <4>2
    <3> QED
      BY <3>1, <3>2
  <2>5. notes \subseteq Sessions /\ inst.display \in MaybeSession /\ past.display \in MaybeSession
    BY <1>0, WorkFacts DEF NodeTypes
  <2>6. ASSUME ~node.inherit, ~Unrecorded'
        PROVE  /\ \A t \in notes' : HeardThen(t)
               /\ inst'.display # None => HeardThen(inst'.display)
               /\ past'.display # None => HeardThen(past'.display)
    BY <1>0, <1>1, <1>2, <1>7, <2>3, <2>4, <2>5, <2>6 DEF HeardInv, MaybeSession
  <2> QED
    BY <1>1, <1>4, <2>1, <2>2, <2>4, <2>6 DEF HeardInv, Heard, HeardThen
<1>14. UsageInv' /\ TurnsCounted'
  BY <1>0, <1>1, <1>3, <1>4, <1>5, UsageFrame
<1>15. PromptHeard'
  <2>1. DOMAIN nrSeen.runs \subseteq Nat /\ \A r \in DOMAIN nrSeen.runs : \A q \in 1 .. r : q \in DOMAIN nrSeen.runs
    BY <1>3
  <2>2. node' = node /\ DOMAIN nrSeen'.runs = DOMAIN nrSeen.runs
    BY <1>1, <1>5
  <2> QED
    BY <1>0, <1>5, <2>1, <2>2, PromptFrame
<1> QED
  BY <1>8, <1>9, <1>10, <1>11, <1>12, <1>13, <1>14, <1>15 DEF NodeInv

\* A Clarify node without a prompt has only opened its session.
LEMMA RecordNothingInv ==
  ASSUME NodesAssumption, NodeInv, NEW kept \in BOOLEAN, RecordNothing(kept)
  PROVE  NodeInv'
<1>0. NodeTypes /\ WorkInv /\ OpenInv /\ ListInv /\ VersionInv /\ HeardInv /\ work \in Work
  BY DEF NodeInv, NodeTypes
<1>1. /\ UNCHANGED <<node, run, inst, past, sess, usage, nrSeen>> /\ work.pc = "record" /\ ~node.prompt
      /\ Announce(kept) /\ work' = [work EXCEPT !.pc = "result", !.end = "done"]
  BY DEF RecordNothing, Result
<1>2. /\ work.session \in Sessions /\ sess[work.session].open /\ notes' \subseteq notes \cup {work.session}
      /\ notes' \subseteq Sessions
  BY <1>1, Announced
<1>3. /\ work' \in Work /\ work'.pc = "result" /\ work'.version = work.version /\ work'.usage = work.usage
      /\ SameWork /\ work'.ran = work.ran
  BY <1>0, <1>1 DEF Work, WorkPc, SameWork
<1>4. Now' = Now /\ nrSeen'.runs = nrSeen.runs /\ SameSessions
  BY <1>1 DEF Now, SameSessions
<1>5. NodeTypes'
  BY <1>0, <1>1, <1>2, <1>3 DEF NodeTypes
<1>6. WorkInv'
  BY <1>0, <1>1, <1>3, <1>4 DEF WorkInv, IsAgent
<1>7. OpenInv'
  <2>1. \A t \in Sessions : ~sess[t].open => t \notin notes' \cup {inst'.display, past'.display, work'.session}
    BY <1>0, <1>1, <1>2, <1>3 DEF OpenInv, SameWork
  <2> QED
    BY <1>0, <1>1, <1>3, <1>4, <2>1, OpenFrame
<1>8. ListInv'
  BY <1>0, <1>1, <1>3 DEF ListInv, SameWork
<1>9. VersionInv'
  BY <1>0, <1>1, <1>3, <1>4, VersionFrame
<1>10. HeardInv'
  BY <1>0, <1>1, <1>3 DEF HeardInv, Heard, SameWork
<1> QED
  BY <1>1, <1>3, <1>4, <1>5, <1>6, <1>7, <1>8, <1>9, <1>10, Quiet

\* An Agent starts; without the prompt only when it continues a turn.
LEMMA AttemptBeginsInv ==
  ASSUME NodesAssumption, NodeInv, AttemptBegins
  PROVE  NodeInv'
<1> DEFINE s == work.session
           tail == IF work.tagged THEN <<>> ELSE <<work.text>>
           text == CutOff(sess[s].text) \o tail
           deaf == nrSeen.runs[Now].deaf \/ \A i \in DOMAIN text : text[i] # "prompt"
           e == [nrSeen.runs[Now] EXCEPT !.deaf = deaf]
<1>0. NodeTypes /\ WorkInv /\ OpenInv /\ ListInv /\ VersionInv /\ HeardInv /\ work \in Work
      /\ UsageInv /\ PromptHeard /\ TurnsCounted
  BY DEF NodeInv, NodeTypes
<1>1. /\ UNCHANGED <<node, run, inst, past, notes, usage>> /\ work.pc \in {"attempt", "wait"}
      /\ work' = [work EXCEPT !.pc = "agent", !.ran = TRUE]
      /\ IF IsAgent
         THEN /\ sess' = [sess EXCEPT ![s].text = text]
              /\ nrSeen' = [nrSeen EXCEPT !.attempts = @ + 1, !.runs[Now].deaf = deaf]
         ELSE nrSeen' = [nrSeen EXCEPT !.attempts = @ + 1] /\ UNCHANGED sess
  BY DEF AttemptBegins
<1>2. Now > 0 /\ Now \in DOMAIN nrSeen.runs /\ DOMAIN nrSeen.runs = 1 .. Now /\ Now \in Nat /\ nrSeen \in Seen
      /\ nrSeen.runs[Now] \in Execution
  BY <1>0, <1>1, Present, PresentEntry, SeenFacts DEF NodeTypes
<1>3. /\ work' \in Work /\ work'.pc = "agent" /\ SameWork /\ work'.version = work.version
      /\ work'.usage = work.usage /\ work'.ran
  BY <1>0, <1>1 DEF Work, WorkPc, SameWork
<1>4. ASSUME IsAgent
      PROVE  /\ s \in Sessions /\ s # None /\ text \in Seq(Words)
             /\ Heard(s) => text # <<>> /\ text[1] = "prompt"
             /\ (\A i \in DOMAIN text : text[i] # "prompt") => ~Heard(s) /\ ~work.tagged /\ work.text = "continue"
  <2>1. s \in Sessions /\ s # None
    BY <1>0, <1>1, <1>4, WorkFacts DEF WorkInv, MaybeSession
  <2>2. sess[s].text \in Seq(Words)
    BY <1>0, <2>1, SessFacts
  <2> DEFINE cut == CutOff(sess[s].text)
  <2>3. cut \in Seq(Words) /\ (Heard(s) => cut # <<>> /\ cut[1] = "prompt")
    BY <2>2, CutOffKeeps DEF Heard
  <2>4. work.text \in {"prompt", "continue"} /\ tail \in Seq(Words)
    BY <1>0, Messages DEF Work
  <2> HIDE DEF cut
  <2>5. text = cut \o tail
    BY DEF cut
  <2>6. tail \in Seq(Words) /\ (~work.tagged => Len(tail) = 1 /\ tail[1] = work.text)
    BY <2>4
  <2> HIDE DEF tail, text
  <2>7. text \in Seq(Words) /\ (Heard(s) => text # <<>> /\ text[1] = "prompt")
    BY <2>3, <2>5, <2>6, AppendKeeps
  <2>8. ASSUME \A i \in DOMAIN text : text[i] # "prompt" PROVE ~Heard(s) /\ ~work.tagged /\ work.text = "continue"
    <3>1. ~Heard(s)
      BY <2>7, <2>8
    <3>2. ~work.tagged
      BY <1>0, <3>1 DEF HeardInv
    <3>3. Len(cut) + 1 \in DOMAIN text /\ text[Len(cut) + 1] = work.text
      BY <2>3, <2>5, <2>6, <3>2
    <3> QED
      BY <2>4, <2>8, <3>1, <3>2, <3>3
  <2> QED
    BY <2>1, <2>7, <2>8
<1>5. deaf \in BOOLEAN
  <2>1. nrSeen.runs[Now].deaf \in BOOLEAN
    BY <1>2 DEF Execution
  <2> QED
    BY <2>1
<1>6. e \in Execution /\ e.deaf = deaf /\ e.carried = nrSeen.runs[Now].carried
      /\ e.unrecorded = nrSeen.runs[Now].unrecorded /\ e.reported = nrSeen.runs[Now].reported
      /\ e.estimated = nrSeen.runs[Now].estimated
  <2> HIDE DEF deaf
  <2> QED
    BY <1>2, <1>5 DEF Execution
<1>7. nrSeen' \in Seen /\ nrSeen'.runs = IF IsAgent THEN Entered(e) ELSE nrSeen.runs
  <2>1. CASE IsAgent
    <3>1. nrSeen' = [nrSeen EXCEPT !.attempts = @ + 1, !.runs = Entered(e)]
      BY <1>1, <2>1 DEF Entered
    <3>2. Entered(e) \in Seq(Execution)
      BY <1>0, <1>2, <1>6, EnteredFacts
    <3> DEFINE t == Entered(e)
               n == nrSeen.attempts + 1
    <3>3. nrSeen' = [nrSeen EXCEPT !.attempts = n, !.runs = t]
      BY <3>1
    <3>5. n \in Nat
      BY <1>2 DEF Seen
    <3> HIDE DEF e, t, n
    <3>4. nrSeen' \in Seen /\ nrSeen'.runs = t
      <4>1. t \in Seq(Execution)
        BY <3>2 DEF t
      <4> QED
        BY <1>2, <3>3, <3>5, <4>1 DEF Seen
    <3> QED
      BY <2>1, <3>4 DEF t
  <2>2. CASE ~IsAgent
    BY <1>1, <1>2, <2>2 DEF Seen
  <2> QED
    BY <2>1, <2>2
<1> HIDE DEF e, text, deaf
<1>8. Now' = Len(nrSeen'.runs) /\ Now = Len(nrSeen.runs)
  BY DEF Now
<1>9. /\ Now' = Now /\ DOMAIN nrSeen'.runs = DOMAIN nrSeen.runs
      /\ nrSeen'.runs[Now] = IF IsAgent THEN e ELSE nrSeen.runs[Now]
      /\ \A r \in DOMAIN nrSeen.runs : r # Now => nrSeen'.runs[r] = nrSeen.runs[r]
  BY <1>0, <1>2, <1>6, <1>7, <1>8, EnteredFacts
<1>10. \A r \in DOMAIN nrSeen.runs :
         /\ nrSeen'.runs[r].carried = nrSeen.runs[r].carried
         /\ nrSeen'.runs[r].unrecorded = nrSeen.runs[r].unrecorded
         /\ nrSeen'.runs[r].reported = nrSeen.runs[r].reported
         /\ nrSeen'.runs[r].estimated = nrSeen.runs[r].estimated
         /\ r # Now => nrSeen'.runs[r].deaf = nrSeen.runs[r].deaf
  BY <1>6, <1>9
<1>11. /\ sess' \in [Sessions -> Session] /\ SameSessions
       /\ \A t \in Sessions : sess'[t].listed = sess[t].listed /\ (Heard(t) => HeardThen(t))
       /\ \A t \in Sessions : ~sess[t].open => sess'[t].text = sess[t].text
  <2>1. CASE IsAgent
    <3>1. Rewritten
      BY <1>1, <1>4, <2>1 DEF Rewritten
    <3> QED
      BY <1>0, <3>1, TranscriptStep
  <2>2. CASE ~IsAgent
    BY <1>0, <1>1, <2>2, TranscriptStep
  <2> QED
    BY <2>1, <2>2
<1>12. NodeTypes'
  BY <1>0, <1>1, <1>3, <1>7, <1>11 DEF NodeTypes
<1>13. WorkInv'
  BY <1>0, <1>1, <1>2, <1>3, <1>9 DEF WorkInv, IsAgent, SameWork
<1>14. OpenInv'
  <2>1. \A t \in Sessions : ~sess[t].open => t \notin notes' \cup {inst'.display, past'.display, work'.session}
    BY <1>0, <1>1, <1>3 DEF OpenInv, SameWork
  <2> QED
    BY <1>0, <1>1, <1>3, <1>9, <1>11, <2>1, OpenFrame
<1>15. ListInv'
  BY <1>0, <1>1, <1>3, <1>11 DEF ListInv, SameWork, SameSessions
<1>16. VersionInv'
  BY <1>0, <1>1, <1>3, <1>11, VersionFrame
<1>17. HeardInv'
  <2>1. Unrecorded => Unrecorded'
    BY <1>9, <1>10 DEF Unrecorded
  <2> QED
    BY <1>0, <1>1, <1>2, <1>3, <1>9, <1>10, <1>11, <2>1, HeardFrame
<1>18. UsageInv' /\ TurnsCounted'
  BY <1>0, <1>1, <1>2, <1>3, <1>9, <1>10, UsageFrame
<1>19. PromptHeard'
  <2>1. ASSUME NEW r \in DOMAIN nrSeen.runs, nrSeen'.runs[r].deaf
        PROVE  nrSeen'.runs[r].carried /\ (node.inherit \/ \E q \in 1 .. r : nrSeen'.runs[q].unrecorded)
    <3>1. \A q \in 1 .. r : q \in DOMAIN nrSeen.runs
      BY <1>2
    <3>2. CASE nrSeen.runs[r].deaf
      BY <1>0, <1>10, <3>1, <3>2 DEF PromptHeard, Runs
    <3>3. CASE ~nrSeen.runs[r].deaf
      <4>1. r = Now /\ IsAgent /\ deaf
        BY <1>6, <1>9, <1>10, <2>1, <3>3
      <4>2. \A i \in DOMAIN text : text[i] # "prompt"
        BY <3>3, <4>1 DEF deaf
      <4>3. ~Heard(s) /\ work.text = "continue" /\ s # None
        BY <1>4, <4>1, <4>2
      <4>4. nrSeen.runs[r].carried
        BY <1>0, <1>1, <4>1, <4>3 DEF HeardInv
      <4>5. node.prompt /\ node.inherit \in BOOLEAN
        BY <1>0, <1>1, <4>1 DEF WorkInv, NodesAssumption, NodeTypes
      <4>6. node.inherit \/ Unrecorded
        BY <1>0, <1>1, <4>3, <4>5 DEF HeardInv
      <4> QED
        BY <1>2, <1>10, <4>1, <4>4, <4>6 DEF Unrecorded
    <3> QED
      BY <3>2, <3>3
  <2> QED
    BY <1>1, <1>9, <2>1 DEF PromptHeard, Runs
<1> QED
  BY <1>12, <1>13, <1>14, <1>15, <1>16, <1>17, <1>18, <1>19 DEF NodeInv

\* The note of a session is taken.
LEMMA SessionOpenedInv ==
  ASSUME NodeInv, SessionOpened
  PROVE  NodeInv'
<1>0. NodeTypes /\ WorkInv /\ OpenInv /\ ListInv /\ VersionInv /\ HeardInv
  BY DEF NodeInv
<1>1. PICK s \in notes :
         /\ notes' = notes \ {s} /\ sess' = Listed(s)
         /\ inst' = IF inst.status = "running" /\ inst.display = None THEN [inst EXCEPT !.display = s] ELSE inst
         /\ UNCHANGED <<node, run, past, work, usage, nrSeen>>
  BY DEF SessionOpened
<1>2. s \in Sessions /\ s # None /\ s \in MaybeSession
  BY <1>0 DEF NodeTypes, Sessions, None, MaybeSession
<1>3. /\ sess' \in [Sessions -> Session] /\ SameSessions
      /\ \A t \in Sessions : sess'[t].text = sess[t].text /\ (sess[t].listed => sess'[t].listed)
  <2>1. Lists(s)
    BY <1>1, <1>2 DEF Lists
  <2> QED
    BY <1>0, <1>2, <2>1, ListStep
<1>4. inst' \in Inst /\ inst'.version = inst.version /\ inst'.status = inst.status /\ inst'.display \in {inst.display, s}
  BY <1>0, <1>1, <1>2, InstRecords DEF NodeTypes
<1>5. Now' = Now /\ nrSeen' = nrSeen /\ work' = work /\ node' = node /\ usage' = usage
  BY <1>1 DEF Now
<1>6. NodeTypes'
  BY <1>0, <1>1, <1>3, <1>4 DEF NodeTypes
<1>7. WorkInv'
  BY <1>0, <1>1, <1>4, <1>5 DEF WorkInv, IsAgent
<1>8. OpenInv'
  <2>1. \A t \in Sessions : ~sess[t].open => t \notin notes' \cup {inst'.display, past'.display, work'.session}
    BY <1>0, <1>1, <1>4 DEF OpenInv
  <2> QED
    BY <1>0, <1>3, <1>5, <2>1, OpenFrame
<1>9. ListInv'
  BY <1>0, <1>3, <1>5 DEF ListInv, SameSessions
<1>10. VersionInv'
  BY <1>0, <1>1, <1>3, <1>4, VersionFrame
<1>11. HeardInv'
  <2>1. \A t \in Sessions : Heard(t) <=> HeardThen(t)
    BY <1>3 DEF Heard, HeardThen
  <2>2. notes \subseteq Sessions /\ inst.display \in MaybeSession /\ past.display \in MaybeSession
        /\ work.session \in MaybeSession
    BY <1>0, WorkFacts DEF NodeTypes
  <2>3. work.tagged => work.session # None /\ work.text = "prompt" /\ HeardThen(work.session)
    BY <1>0, <2>1, <2>2 DEF HeardInv, MaybeSession
  <2>4. work.pc = "record" /\ work.text = "prompt" /\ ~node.inherit => sess'[work.session].text = <<>>
    <3>1. work.pc = "record" => work.session \in Sessions
      BY <1>0, <2>2 DEF WorkInv, MaybeSession
    <3> QED
      BY <1>0, <1>3, <3>1 DEF HeardInv
  <2>5. ASSUME ~node.inherit, node.prompt, ~Unrecorded
        PROVE  /\ \A t \in notes' : HeardThen(t)
               /\ inst'.display # None => HeardThen(inst'.display)
               /\ past.display # None => HeardThen(past.display)
               /\ work.pc \in {"attempt", "agent", "wait", "result"} /\ work.session # None => HeardThen(work.session)
               /\ work.pc = "record" /\ work.text = "continue" => HeardThen(work.session)
    <3>1. /\ \A t \in notes : Heard(t)
          /\ inst.display # None => Heard(inst.display)
          /\ past.display # None => Heard(past.display)
          /\ work.pc \in {"attempt", "agent", "wait", "result"} /\ work.session # None => Heard(work.session)
          /\ work.pc = "record" /\ work.text = "continue" => Heard(work.session)
      BY <1>0, <2>5 DEF HeardInv
    <3>2. work.pc = "record" => work.session # None
      BY <1>0 DEF WorkInv
    <3> QED
      BY <1>1, <1>2, <1>4, <2>1, <2>2, <3>1, <3>2 DEF MaybeSession
  <2>6. past' = past /\ (Unrecorded' <=> Unrecorded)
    BY <1>1 DEF Unrecorded
  <2> QED
    BY <1>0, <1>5, <2>3, <2>4, <2>5, <2>6 DEF HeardInv, Heard, HeardThen
<1>12. UsageInv' /\ PromptHeard' /\ TurnsCounted'
  BY <1>5 DEF NodeInv, UsageInv, PromptHeard, TurnsCounted, Runs, IsAgent
<1> QED
  BY <1>6, <1>7, <1>8, <1>9, <1>10, <1>11, <1>12 DEF NodeInv

\* The turn of an execution is recorded, once: with everything its attempts spent.
LEMMA RecordingCounts ==
  ASSUME NodeTypes, WorkInv, UsageInv, TurnsCounted, work.pc = "result", Recording, node' = node,
         nrSeen' = nrSeen, work' = NoWork
  PROVE  usage' \in Seq(TurnRecord) /\ UsageInv' /\ TurnsCounted'
<1> DEFINE u == work.usage
           entry == [run |-> Now, turn |-> Turn(u), spent |-> u]
           r == nrSeen.runs[Now]
<1>1. Now > 0 /\ Now \in DOMAIN nrSeen.runs /\ Now \in Nat /\ usage \in Seq(TurnRecord) /\ u \in Spending
  BY Present, SeenFacts, WorkFacts DEF NodeTypes
<1>2. u = [reported |-> r.reported, estimated |-> r.estimated] /\ r.reported \in Nat /\ r.estimated \in Nat
  BY PresentEntry, <1>1 DEF UsageInv
<1>3. Turn(u) \in Spending /\ Turn(u).reported + Turn(u).estimated = 1 /\ (Turn(u).reported = 1 <=> r.estimated = 0)
  <2>1. u.estimated = r.estimated
    BY <1>2
  <2> QED
    BY <2>1 DEF Turn, Spending
<1>4. entry \in TurnRecord /\ entry.run = Now /\ entry.turn = Turn(u) /\ entry.spent = u
  BY <1>1, <1>3 DEF TurnRecord
<1> HIDE DEF entry
<1>5. /\ \A a \in DOMAIN usage : usage[a].run # Now /\ usage[a].run \in DOMAIN nrSeen.runs
      /\ u.reported + u.estimated > 0 => IsAgent /\ work.ran
  BY DEF UsageInv
<1>6. CASE IsAgent /\ work.ran
  <2>1. usage' = Append(usage, entry)
    BY <1>6 DEF Recording, entry
  <2>2. /\ usage' \in Seq(TurnRecord) /\ DOMAIN usage' = 1 .. Len(usage) + 1 /\ usage'[Len(usage) + 1] = entry
        /\ DOMAIN usage = 1 .. Len(usage) /\ Len(usage) \in Nat /\ \A a \in DOMAIN usage : usage'[a] = usage[a]
    BY <1>1, <1>4, <2>1
  <2>3. \A a \in DOMAIN usage' : a \in DOMAIN usage \/ (a = Len(usage) + 1 /\ usage'[a] = entry)
    BY <2>2
  <2>4. UsageInv'
    BY <1>1, <1>4, <1>5, <2>2, <2>3 DEF UsageInv, NoWork
  <2>5. \A a, b \in DOMAIN usage' : usage'[a].run = usage'[b].run => a = b
    BY <1>4, <1>5, <2>2, <2>3 DEF TurnsCounted
  <2>6. ASSUME NEW a \in DOMAIN usage'
        PROVE  LET q == nrSeen.runs[usage'[a].run]   t == usage'[a].turn IN
               /\ usage'[a].spent = [reported |-> q.reported, estimated |-> q.estimated]
               /\ t.reported + t.estimated = 1 /\ (t.reported = 1 <=> q.estimated = 0)
    BY <1>2, <1>3, <1>4, <2>2, <2>3 DEF TurnsCounted
  <2>7. ASSUME NEW q \in Runs, nrSeen.runs[q].reported + nrSeen.runs[q].estimated > 0
        PROVE  \E a \in DOMAIN usage' : usage'[a].run = q
    <3>1. CASE q = Now
      BY <1>4, <2>2, <3>1
    <3>2. CASE q # Now
      <4>1. PICK a \in DOMAIN usage : usage[a].run = q
        BY <2>7, <3>2 DEF TurnsCounted
      <4> QED
        BY <2>2, <4>1
    <3> QED
      BY <3>1, <3>2
  <2>8. TurnsCounted'
    BY <2>5, <2>6, <2>7 DEF TurnsCounted, Runs
  <2> QED
    BY <2>2, <2>4, <2>8
<1>7. CASE ~(IsAgent /\ work.ran)
  <2>1. usage' = usage
    BY <1>7 DEF Recording
  <2>2. UsageInv'
    BY <1>5, <2>1 DEF UsageInv, NoWork
  <2>3. ~(r.reported + r.estimated > 0)
    <3>1. u.reported = r.reported /\ u.estimated = r.estimated
      BY <1>2
    <3> QED
      BY <1>5, <1>7, <3>1
  <2>4. TurnsCounted'
    BY <2>1, <2>3 DEF TurnsCounted, Runs
  <2> QED
    BY <1>1, <2>1, <2>2, <2>4
<1> QED
  BY <1>6, <1>7

\* The scheduler takes a worker's result: the turn is recorded and the session is listed.
ResultTaken ==
  /\ work.pc = "result" /\ UNCHANGED <<node, past, notes, nrSeen>> /\ Lists(work.session)
  /\ Recording /\ work' = NoWork

LEMMA ResultTakenInv ==
  ASSUME NodeInv, ResultTaken, run' \in Run, inst' \in Inst, inst'.version = inst.version, inst'.status # "none",
         inst'.display \in {inst.display, work.session}, run'.status # "ended"
  PROVE  NodeInv'
<1>0. NodeTypes /\ WorkInv /\ OpenInv /\ ListInv /\ VersionInv /\ HeardInv /\ UsageInv /\ PromptHeard /\ TurnsCounted
  BY DEF NodeInv
<1>1. work.pc = "result" /\ UNCHANGED <<node, past, notes, nrSeen>> /\ work' = NoWork /\ Now' = Now
  BY DEF ResultTaken, Now
<1>2. work' \in Work /\ work'.pc = "none" /\ work'.session = None /\ ~work'.tagged
  BY <1>1 DEF NoWork, Work, WorkPc, MaybeSession, Versions, NoUsage, Spending, None
<1>3. /\ sess' \in [Sessions -> Session] /\ SameSessions /\ (work.session # None => sess'[work.session].listed)
      /\ \A t \in Sessions : sess'[t].text = sess[t].text /\ (sess[t].listed => sess'[t].listed)
  BY <1>0, ListStep, WorkFacts DEF ResultTaken
<1>4. usage' \in Seq(TurnRecord) /\ UsageInv' /\ TurnsCounted'
  BY <1>0, <1>1, RecordingCounts DEF ResultTaken
<1>5. NodeTypes'
  BY <1>0, <1>1, <1>2, <1>3, <1>4 DEF NodeTypes
<1>6. WorkInv'
  BY <1>0, <1>1, <1>2 DEF WorkInv
<1>7. OpenInv'
  <2>1. \A t \in Sessions : ~sess[t].open => t \notin notes' \cup {inst'.display, past'.display, work'.session}
    BY <1>0, <1>1, <1>2 DEF OpenInv, Sessions, None
  <2> QED
    BY <1>0, <1>1, <1>2, <1>3, <2>1, OpenFrame
<1>8. ListInv'
  BY <1>0, <1>3 DEF ListInv, SameSessions, Sessions, None
<1>9. VersionInv'
  BY <1>0, <1>1, <1>2, <1>3, VersionFrame
<1>10. HeardInv'
  <2>1. Now > 0
    BY <1>0, <1>1, Present
  <2>2. \A t \in Sessions : Heard(t) => HeardThen(t)
    BY <1>3 DEF Heard, HeardThen
  <2>3. (Unrecorded => Unrecorded') /\ (nrSeen.runs[Now].carried => nrSeen'.runs[Now].carried)
    BY <1>1 DEF Unrecorded
  <2>4. inst'.display = inst.display \/ (inst'.display = work.session /\ work.pc = "result")
    BY <1>1
  <2> QED
    BY <1>0, <1>1, <1>2, <2>1, <2>2, <2>3, <2>4, HeardFrame
<1>11. PromptHeard'
  BY <1>0, <1>1 DEF PromptHeard, Runs
<1> QED
  BY <1>4, <1>5, <1>6, <1>7, <1>8, <1>9, <1>10, <1>11 DEF NodeInv

LEMMA ResultInv ==
  ASSUME NodeInv, HandleResult \/ Drain
  PROVE  NodeInv'
<1>0. NodeTypes /\ WorkInv
  BY DEF NodeInv
<1>1. CASE HandleResult
  <2>1. ResultTaken
    BY <1>1 DEF HandleResult, ResultTaken, Lists
  <2>2. PICK x \in {"failed", "awaiting", "succeeded"} : inst' = [inst EXCEPT !.status = x, !.display = work.session]
    BY <1>1 DEF HandleResult
  <2>3. work.session \in MaybeSession /\ inst \in Inst /\ x \in InstStatus
    BY <1>0, WorkFacts DEF NodeTypes, InstStatus
  <2>4. inst' \in Inst /\ inst'.version = inst.version /\ inst'.status = x /\ inst'.display = work.session
    BY <2>2, <2>3 DEF Inst
  <2>5. run' \in Run /\ run'.status = "closing"
    BY <1>0, <1>1, InstRecords DEF HandleResult, RunStatus
  <2> QED
    BY <2>1, <2>4, <2>5, ResultTakenInv
<1>2. CASE Drain
  <2>1. ResultTaken /\ inst' = inst /\ run' = run /\ run.status # "ended"
    BY <1>2 DEF Drain, ResultTaken, Lists
  <2>2. inst.status # "none" /\ inst \in Inst /\ run \in Run
    BY <1>0, <2>1 DEF WorkInv, ResultTaken, NodeTypes
  <2> QED
    BY <2>1, <2>2, ResultTakenInv
<1> QED
  BY <1>1, <1>2

\* The run is resumed: what is kept of the instance is its version, and where it was.
LEMMA ResumeInv ==
  ASSUME NodesAssumption, NodeInv, Resume
  PROVE  NodeInv'
<1>0. NodeTypes /\ WorkInv /\ OpenInv /\ ListInv /\ VersionInv /\ HeardInv /\ past \in Past
  BY DEF NodeInv, NodeTypes
<1>1. /\ UNCHANGED <<node, work, sess, notes, usage, nrSeen>> /\ run.status = "ended"
      /\ inst.status \in {"failed", "interrupted"} /\ run' = [run EXCEPT !.status = "running"] /\ inst' = NoInst
  BY DEF Resume
<1>2. /\ past' \in Past /\ past'.version = inst.version /\ past'.display \in {inst.display, past.display}
      /\ inst.version # None
  <2>1. past' = [version |-> inst.version,
                 status |-> IF inst.display # None THEN inst.status ELSE past.status,
                 display |-> IF inst.display # None THEN inst.display ELSE past.display]
    BY DEF Resume
  <2>2. inst.version # None
    BY <1>0, <1>1 DEF WorkInv
  <2> QED
    BY <1>0, <2>1, <2>2, WorkFacts DEF Past
<1>3. run' \in Run /\ run'.status = "running"
  BY <1>0, <1>1, InstRecords DEF RunStatus
<1>4. inst' \in Inst /\ inst'.status = "none" /\ inst'.version = None /\ inst'.display = None
  BY <1>1 DEF NoInst, Inst, InstStatus, Versions, MaybeSession, None
<1>5. work.pc = "none" /\ Now # 0 /\ Now' = Now
  BY <1>0, <1>1 DEF WorkInv, Now
<1>6. NodeTypes'
  BY <1>0, <1>1, <1>2, <1>3, <1>4 DEF NodeTypes
<1>7. WorkInv'
  BY <1>0, <1>1, <1>4, <1>5 DEF WorkInv
<1>8. OpenInv'
  <2>1. \A t \in Sessions : ~sess[t].open => t \notin notes' \cup {inst'.display, past'.display, work'.session}
    BY <1>0, <1>1, <1>2, <1>4 DEF OpenInv, Sessions, None
  <2>2. SameSessions
    BY <1>1 DEF SameSessions
  <2> QED
    BY <1>0, <1>1, <1>5, <2>1, <2>2, OpenFrame
<1>9. ListInv' /\ VersionInv'
  BY <1>0, <1>1, <1>2, <1>4, <1>5 DEF ListInv, VersionInv, FirstVersion, BoundTo
<1>10. HeardInv'
  <2>1. (Unrecorded' <=> Unrecorded) /\ \A t : Heard(t) <=> HeardThen(t)
    BY <1>1 DEF Unrecorded, Heard, HeardThen
  <2> QED
    BY <1>0, <1>1, <1>2, <1>4, <1>5, <2>1 DEF HeardInv, Heard, HeardThen
<1>11. nrSeen'.runs = nrSeen.runs
  BY <1>1
<1> QED
  BY <1>1, <1>5, <1>6, <1>7, <1>8, <1>9, <1>10, <1>11, Quiet

-----------------------------------------------------------------------------
LEMMA NodeInitInv ==
  ASSUME NodesAssumption, Init
  PROVE  NodeInv
<1>1. MaxRuns \in Nat /\ Sessions \subseteq Nat /\ 1 \in Sessions /\ None \notin Sessions
  BY DEF NodesAssumption, Sessions, None
<1>2. PICK end \in {<<>>, <<"orphan">>} :
         sess = [s \in Sessions |->
                   IF s = Upstream THEN [Unopened EXCEPT !.open = TRUE, !.text = end, !.listed = TRUE] ELSE Unopened]
  BY DEF Init
<1>3. end \in Seq(Words)
  BY <1>2, Messages
<1> DEFINE u == [Unopened EXCEPT !.open = TRUE, !.text = end, !.listed = TRUE]
<1>4. /\ Unopened \in Session /\ u \in Session /\ u.open /\ u.listed
      /\ ~Unopened.open /\ Unopened.text = <<>>
  <2>1. Unopened \in Session /\ ~Unopened.open /\ Unopened.text = <<>>
    <3>1. <<>> \in Seq(Words) /\ 0 \in Versions
      BY Messages DEF Versions
    <3> QED
      BY <3>1 DEF Unopened, Session, None
  <2>2. u \in Session /\ u.open /\ u.listed
    BY <1>3, <2>1 DEF Session
  <2> QED
    BY <2>1, <2>2
<1>5. sess \in [Sessions -> Session] /\ sess[1] = u /\ \A s \in Sessions : s # 1 => sess[s] = Unopened
  <2> HIDE DEF u
  <2> QED
    BY <1>1, <1>2, <1>4 DEF Upstream, u
<1> HIDE DEF u
<1>6. /\ run = [status |-> "running", version |-> 1] /\ inst = NoInst /\ work = NoWork /\ notes = {} /\ usage = <<>>
      /\ past = [status |-> "none", display |-> None, version |-> None] /\ node \in Nodes
      /\ nrSeen = [runs |-> <<>>, attempts |-> 0, faults |-> 0]
  BY DEF Init
<1>7. /\ work \in Work /\ work.pc = "none" /\ work.session = None /\ ~work.tagged
  BY <1>6 DEF NoWork, Work, WorkPc, MaybeSession, Versions, NoUsage, Spending, None
<1>8. /\ inst \in Inst /\ inst.status = "none" /\ inst.version = None /\ inst.display = None
      /\ past \in Past /\ past.version = None /\ past.display = None /\ run \in Run
  BY <1>6 DEF NoInst, Inst, Past, InstStatus, Versions, MaybeSession, None, Run, RunStatus
<1>9. nrSeen \in Seen /\ nrSeen.runs = <<>> /\ Now = 0 /\ usage \in Seq(TurnRecord)
  BY <1>6 DEF Seen, Now
<1>10. NodeTypes
  BY <1>5, <1>6, <1>7, <1>8, <1>9 DEF NodeTypes
<1>11. WorkInv
  BY <1>1, <1>7, <1>8, <1>9 DEF WorkInv
<1>12. OpenInv
  <2>1. OpenedTo(1)
    BY <1>1, <1>4, <1>5 DEF OpenedTo, Sessions
  <2> QED
    BY <1>1, <1>4, <1>5, <1>6, <1>7, <1>8, <1>9, <2>1 DEF OpenInv
<1>13. ListInv /\ VersionInv
  BY <1>4, <1>5, <1>7, <1>8 DEF ListInv, VersionInv, Upstream
<1>14. HeardInv
  BY <1>6, <1>7, <1>8 DEF HeardInv
<1>15. UsageInv
  BY <1>6, <1>7 DEF UsageInv
<1>16. PromptHeard /\ TurnsCounted
  BY <1>6, <1>9 DEF PromptHeard, TurnsCounted, Runs
<1> QED
  BY <1>10, <1>11, <1>12, <1>13, <1>14, <1>15, <1>16 DEF NodeInv

LEMMA NodeNextInv ==
  ASSUME NodesAssumption, NodeInv, [Next]_nrVars
  PROVE  NodeInv'
<1>0. NodeTypes /\ WorkInv /\ UsageInv
  BY DEF NodeInv
<1>1. CASE Enqueue
  BY <1>1, EnqueueInv
<1>2. CASE OpenShell \/ OpenInherited \/ OpenFails \/ WaitInterrupted
  BY <1>2, WorkerGoesOn
<1>3. CASE OpenCarried
  BY <1>3, OpenCarriedInv
<1>4. CASE OpenNew
  BY <1>4, OpenNewInv
<1>5. ASSUME NEW b \in BOOLEAN, Record(b) PROVE NodeInv'
  BY <1>5, RecordInv
<1>6. ASSUME NEW b \in BOOLEAN, RecordNothing(b) PROVE NodeInv'
  BY <1>6, RecordNothingInv
<1>7. ASSUME NEW b \in BOOLEAN, NEW c \in Classes,
             \/ AttemptSucceeds(b) \/ AttemptMisses(b) \/ AttemptInterrupted(b) \/ AttemptFails(c, b)
      PROVE  NodeInv'
  BY <1>0, <1>7, AttemptEnds, AttemptOverInv
<1>8. {} \in Classes
  BY DEF Classes
<1>9. CASE AttemptBegins
  BY <1>9, AttemptBeginsInv
<1>10. CASE AttemptStillborn
  BY <1>0, <1>10, AttemptStillbornOver, AttemptOverInv
<1>11. CASE SessionOpened
  BY <1>11, SessionOpenedInv
<1>12. CASE HandleResult \/ Drain
  BY <1>12, ResultInv
<1>13. CASE HardStop \/ TimeOut \/ End \/ Edit
  BY <1>13, ControlSteps
<1>14. CASE Resume
  BY <1>14, ResumeInv
<1>15. CASE UNCHANGED nrVars
  BY <1>15 DEF nrVars, NodeInv, NodeTypes, WorkInv, OpenInv, OpenedTo, ListInv, VersionInv, FirstVersion,
               BoundTo,
       HeardInv, Heard, Unrecorded, UsageInv, PromptHeard, TurnsCounted, Runs, Now, IsAgent
<1> QED
  BY <1>1, <1>2, <1>3, <1>4, <1>5, <1>6, <1>7, <1>8, <1>9, <1>10, <1>11, <1>12, <1>13, <1>14, <1>15 DEF Next

LEMMA NodeInvHolds ==
  ASSUME NodeInv
  PROVE  NodeKept
<1>1. PromptHeard /\ TurnsCounted
  BY DEF NodeInv
<1>2. SessionsListed
  BY DEF NodeInv, ListInv, WorkInv, SessionsListed
<1>3. BindingKept
  BY DEF NodeInv, VersionInv, BindingKept
<1> QED
  BY <1>1, <1>2, <1>3 DEF NodeKept

\* An Agent hears its node's prompt, its turns are counted once, its sessions are listed when the
\* run ends, and all of them are bound to the version of the first.
THEOREM NodeHolds ==
  ASSUME NodesAssumption
  PROVE  Spec => []NodeKept
<1>1. Init => NodeInv
  BY NodeInitInv
<1>2. NodeInv /\ [Next]_nrVars => NodeInv'
  BY NodeNextInv
<1>3. NodeInv => NodeKept
  BY NodeInvHolds
<1> QED
  BY <1>1, <1>2, <1>3, PTL DEF Spec

-----------------------------------------------------------------------------
(***************************************************************************)
(* The event stream, for any clients, limits of the buffer, events and     *)
(* faults.  No event is released that a reader has not crossed (Kept), so  *)
(* a reader goes on at its cursor, and a cursor is where its client has    *)
(* read to (ClientInv): what it is sent is the next event, on a connection *)
(* that goes on as on one that returns.  Only a generation that works has  *)
(* events to publish (WriterInv), which keeps a deleted run deleted.       *)
(***************************************************************************)
\* graphSSEReadBatchSize is a number.
BatchAssumption == Batch \in Nat

Suspension == {"no", "fresh", "old"}
Leaving == {"never", "fresh", "old"}
Cursors == UNION {[R -> Nat] : R \in SUBSET Conns}
Buffer == [made : BOOLEAN, inc : Nat, head : Nat, term : BOOLEAN, susp : Suspension, left : Leaving, cur : Cursors]
Life == {"claimed", "working", "rest", "gone"}
StreamRun == [life : Life, resumed : BOOLEAN, mid : Nat, linked : BOOLEAN, located : BOOLEAN,
              events : Nat, incs : Nat, resumes : Nat, faults : Nat]
Connection == [pc : {"off", "resolved", "snap", "live", "idle"}, mem : [n : Nat, inc : Nat], start : Nat,
               at : Nat, hi : Nat, retried : BOOLEAN]

StreamTypes ==
  /\ evb \in Buffer
  /\ log \in Seq(Nat) /\ lines \in Seq(Nat)
  /\ stRun \in StreamRun
  /\ hook \in Nat
  /\ conn \in [Conns -> Connection]

\* Nothing a reader has not crossed is released.
Kept(b) == \A r \in DOMAIN b.cur : b.head <= b.cur[r]
BufferInv == Kept(evb) /\ (~evb.made => DOMAIN evb.cur = {})

\* Only a generation that works publishes.
WriterInv == stRun.life # "working" => stRun.mid = 0 /\ hook = 0

\* A client that has an event asks for the next one, and is sent it.
Follows(m) ==
  /\ m.pc \in {"resolved", "snap"} /\ m.mem.n # 0 => m.start = m.mem.n
  /\ m.pc # "live" => m.at = 0
  /\ m.pc = "live" /\ m.at # 0 /\ m.mem.n # 0 => m.at = m.mem.n + 1
AtCursor(c, m, b) ==
  /\ m.at = 0 /\ m.mem.n # 0 => b.cur[c] = m.mem.n
  /\ m.at # 0 => b.cur[c] + 1 = m.at
ClientInv ==
  /\ \A c \in Conns : Follows(conn[c])
  /\ \A c \in DOMAIN evb.cur : conn[c].pc = "live" /\ AtCursor(c, conn[c], evb)

StreamInv == StreamTypes /\ BufferInv /\ WriterInv /\ ClientInv /\ Ev!NoHole /\ Ev!TerminalAtRest /\ Ev!DeletedIsGone

-----------------------------------------------------------------------------
(* The buffer.                                                                *)

LEMMA MinOf ==
  ASSUME NEW S \in SUBSET Nat, S # {}
  PROVE  Ev!Min(S) \in S /\ \A s \in S : Ev!Min(S) <= s
BY FirstExists DEF Ev!Min

LEMMA MaxOfTwo ==
  ASSUME NEW a \in Nat, NEW b \in Nat
  PROVE  Ev!Max({a, b}) = IF a >= b THEN a ELSE b
<1> DEFINE m == IF a >= b THEN a ELSE b
<1>1. m \in {a, b} /\ \A y \in {a, b} : m >= y
  OBVIOUS
<1>2. \A x \in {a, b} : (\A y \in {a, b} : x >= y) => x = m
  OBVIOUS
<1> QED
  BY <1>1, <1>2 DEF Ev!Max

LEMMA BufferFacts ==
  ASSUME NEW b \in Buffer
  PROVE  /\ b.made \in BOOLEAN /\ b.inc \in Nat /\ b.head \in Nat /\ b.term \in BOOLEAN /\ b.susp \in Suspension
         /\ b.left \in Leaving /\ b.cur \in Cursors
         /\ DOMAIN b.cur \subseteq Conns /\ \A r \in DOMAIN b.cur : b.cur[r] \in Nat
BY DEF Buffer, Cursors

\* A buffer with no other readers, each where it was, that has released nothing they have not crossed.
Shrinks(b, x) ==
  /\ x \in Buffer /\ Kept(x) /\ DOMAIN x.cur \subseteq DOMAIN b.cur
  /\ \A r \in DOMAIN x.cur : x.cur[r] = b.cur[r]
  /\ x.made = b.made /\ x.term = b.term /\ x.inc = b.inc

\* The buffer drops what every reader has crossed.
LEMMA CutKeeps ==
  ASSUME NEW b \in Buffer, Kept(b), NEW tail \in Nat
  PROVE  Shrinks(b, Ev!Cut(b, tail))
<1> DEFINE S == {b.cur[c] : c \in Ev!Readers(b)}
           h == Ev!Max({b.head, Ev!Crossed(b, tail)})
<1>1. S \subseteq Nat /\ b.head \in Nat
  BY BufferFacts DEF Ev!Readers
<1>2. Ev!Crossed(b, tail) \in Nat /\ \A r \in DOMAIN b.cur : Ev!Crossed(b, tail) <= b.cur[r]
  <2>1. CASE Ev!Readers(b) = {}
    BY <2>1 DEF Ev!Crossed, Ev!Readers
  <2>2. CASE Ev!Readers(b) # {}
    <3> DEFINE m == Ev!Min(S)
    <3>1. S # {}
      BY <2>2
    <3>2. m \in S /\ \A s \in S : m <= s
      BY <1>1, <3>1, MinOf
    <3>3. m \in Nat
      BY <1>1, <3>2
    <3>4. Ev!Crossed(b, tail) = Ev!Min({tail, m})
      BY <2>2 DEF Ev!Crossed, Ev!Slowest
    <3> HIDE DEF m
    <3>5. Ev!Min({tail, m}) \in {tail, m} /\ Ev!Min({tail, m}) <= m
      BY <3>3, MinOf
    <3>6. \A r \in DOMAIN b.cur : b.cur[r] \in S /\ b.cur[r] \in Nat
      BY BufferFacts DEF Ev!Readers
    <3>7. Ev!Crossed(b, tail) \in Nat /\ Ev!Crossed(b, tail) <= m
      BY <3>3, <3>4, <3>5
    <3>8. \A r \in DOMAIN b.cur : m <= b.cur[r] /\ b.cur[r] \in Nat
      BY <3>2, <3>6
    <3> QED
      BY <3>3, <3>7, <3>8
  <2> QED
    BY <2>1, <2>2
<1>3. h \in Nat /\ \A r \in DOMAIN b.cur : h <= b.cur[r]
  <2>1. h = IF b.head >= Ev!Crossed(b, tail) THEN b.head ELSE Ev!Crossed(b, tail)
    BY <1>1, <1>2, MaxOfTwo
  <2> QED
    BY <1>1, <1>2, <2>1 DEF Kept
<1> HIDE DEF h
<1>4. Ev!Cut(b, tail) = [b EXCEPT !.head = h]
  BY DEF Ev!Cut, h
<1>5. Ev!Cut(b, tail) \in Buffer /\ Ev!Cut(b, tail).head = h /\ Ev!Cut(b, tail).cur = b.cur /\ Ev!Cut(b, tail).made = b.made
      /\ Ev!Cut(b, tail).term = b.term /\ Ev!Cut(b, tail).inc = b.inc
  BY <1>3, <1>4 DEF Buffer
<1> QED
  BY <1>3, <1>5 DEF Shrinks, Kept

LEMMA ShrinksOn ==
  ASSUME NEW b, NEW x, NEW y, Shrinks(b, x), Shrinks(x, y)
  PROVE  Shrinks(b, y)
BY DEF Shrinks

\* So does the collector, which may also take a reader away.
LEMMA CollectionsKeep ==
  ASSUME NEW b \in Buffer, Kept(b), NEW tail \in Nat, NEW x \in Ev!Collections(b, tail)
  PROVE  Shrinks(b, x)
<1> DEFINE c == IF b.susp = "old" THEN [b EXCEPT !.susp = "no"] ELSE b
<1>1. Shrinks(b, c)
  BY DEF Shrinks, Buffer, Kept, Suspension
<1>2. c \in Buffer /\ Kept(c)
  BY <1>1 DEF Shrinks
<1>3. CASE x = b
  BY <1>3 DEF Shrinks
<1>4. CASE x = Ev!Cut(c, tail)
  <2> HIDE DEF c
  <2> QED
    BY <1>1, <1>2, <1>4, CutKeeps, ShrinksOn
<1>5. ASSUME NEW s \in Ev!Readers(c), x = Ev!Cut([c EXCEPT !.cur = [r \in Ev!Readers(c) \ {s} |-> c.cur[r]]], tail)
      PROVE  Shrinks(b, x)
  <2> HIDE DEF c
  <2> DEFINE f == [r \in Ev!Readers(c) \ {s} |-> c.cur[r]]
             d == [c EXCEPT !.cur = f]
  <2>1. f \in Cursors /\ DOMAIN f \subseteq DOMAIN c.cur /\ \A r \in DOMAIN f : f[r] = c.cur[r]
    <3>1. Ev!Readers(c) \subseteq Conns /\ \A r \in Ev!Readers(c) : c.cur[r] \in Nat
      BY <1>2, BufferFacts DEF Ev!Readers
    <3>2. f \in [Ev!Readers(c) \ {s} -> Nat]
      BY <3>1
    <3> QED
      BY <3>1, <3>2 DEF Cursors, Ev!Readers
  <2> HIDE DEF f
  <2>2. d \in Buffer /\ d.cur = f /\ d.head = c.head /\ d.made = c.made /\ d.term = c.term /\ d.inc = c.inc
    BY <1>2, <2>1 DEF Buffer
  <2> HIDE DEF d
  <2>3. Shrinks(c, d)
    BY <1>2, <2>1, <2>2 DEF Shrinks, Kept
  <2>4. x = Ev!Cut(d, tail)
    BY <1>5 DEF d, f
  <2>5. Shrinks(d, x)
    BY <2>3, <2>4, CutKeeps DEF Shrinks
  <2> QED
    BY <1>1, <2>3, <2>5, ShrinksOn
<1> QED
  BY <1>3, <1>4, <1>5 DEF Ev!Collections

LEMMA StreamFacts ==
  ASSUME StreamTypes
  PROVE  /\ evb \in Buffer /\ log \in Seq(Nat) /\ lines \in Seq(Nat) /\ Len(log) \in Nat /\ Len(lines) \in Nat
         /\ stRun \in StreamRun /\ stRun.life \in Life /\ stRun.mid \in Nat /\ stRun.events \in Nat /\ stRun.incs \in Nat
         /\ hook \in Nat /\ \A c \in Conns : conn[c] \in Connection
BY DEF StreamTypes, StreamRun

LEMMA ConnectionFacts ==
  ASSUME NEW m \in Connection
  PROVE  /\ m.mem \in [n : Nat, inc : Nat] /\ m.mem.n \in Nat /\ m.start \in Nat /\ m.at \in Nat /\ m.hi \in Nat
         /\ m.pc \in {"off", "resolved", "snap", "live", "idle"}
BY DEF Connection

-----------------------------------------------------------------------------
(* The scheduler's steps.                                                     *)

\* A step that moves no client and gives the buffer no reader.
LEMMA SchedulerStep ==
  ASSUME StreamInv, UNCHANGED <<conn, holes>>, StreamTypes', WriterInv', Ev!TerminalAtRest', Ev!DeletedIsGone',
         Kept(evb'), ~evb'.made => DOMAIN evb'.cur = {}, DOMAIN evb'.cur \subseteq DOMAIN evb.cur,
         \A r \in DOMAIN evb'.cur : evb'.cur[r] = evb.cur[r]
  PROVE  StreamInv'
<1>1. BufferInv'
  BY DEF BufferInv, Kept
<1>2. ClientInv'
  BY DEF StreamInv, ClientInv, AtCursor, Follows
<1> QED
  BY <1>1, <1>2 DEF StreamInv, Ev!NoHole

LEMMA BufferKept ==
  ASSUME StreamInv
  PROVE  Kept(evb) /\ (~evb.made => DOMAIN evb.cur = {})
BY DEF StreamInv, BufferInv

LEMMA PublishKeeps ==
  ASSUME StreamInv, NEW e \in Nat, Ev!Publish(e)
  PROVE  /\ evb' \in Buffer /\ log' \in Seq(Nat) /\ Shrinks(evb, evb')
         /\ ~evb'.made => DOMAIN evb'.cur = {}
<1>1. evb \in Buffer /\ log \in Seq(Nat) /\ Len(log) + 1 \in Nat
  BY StreamFacts DEF StreamInv
<1>2. CASE ~evb.made
  BY <1>1, <1>2, BufferKept DEF Ev!Publish, Shrinks
<1>3. CASE evb.made
  <2>1. log' = Append(log, e) /\ evb' \in Ev!Collections(evb, Len(log) + 1)
    BY <1>3 DEF Ev!Publish
  <2>2. Shrinks(evb, evb')
    BY <1>1, <2>1, BufferKept, CollectionsKeep
  <2> QED
    BY <1>1, <1>3, <2>1, <2>2 DEF Shrinks
<1> QED
  BY <1>2, <1>3

\* A publication: nothing of the run but its counters changes.
LEMMA PublicationInv ==
  ASSUME StreamInv, UNCHANGED <<conn, holes>>, NEW e \in Nat, Ev!Publish(e), lines' \in Seq(Nat),
         stRun' \in StreamRun, stRun'.life = stRun.life, stRun'.resumed = stRun.resumed, stRun.life = "working",
         hook' \in Nat
  PROVE  StreamInv'
<1>1. /\ evb' \in Buffer /\ log' \in Seq(Nat) /\ Shrinks(evb, evb')
      /\ ~evb'.made => DOMAIN evb'.cur = {}
  BY PublishKeeps
<1>2. StreamTypes'
  BY <1>1 DEF StreamInv, StreamTypes
<1>3. WriterInv' /\ Ev!DeletedIsGone'
  BY DEF WriterInv, Ev!DeletedIsGone
<1>4. Ev!TerminalAtRest'
  BY <1>1 DEF StreamInv, Ev!TerminalAtRest, Shrinks
<1> QED
  BY <1>1, <1>2, <1>3, <1>4, SchedulerStep DEF Shrinks

LEMMA PublishingSteps ==
  ASSUME StreamInv, Ev!Delta \/ Ev!PublishEvent \/ Ev!appendHookEvent
  PROVE  StreamInv'
<1>0. StreamTypes /\ WriterInv /\ stRun \in StreamRun /\ stRun.events \in Nat /\ stRun.mid \in Nat /\ hook \in Nat
      /\ lines \in Seq(Nat)
  BY StreamFacts DEF StreamInv
<1>1. CASE Ev!Delta
  <2>1. stRun' \in StreamRun /\ stRun'.life = stRun.life /\ stRun'.resumed = stRun.resumed
    <3> DEFINE n == stRun.events + 1
    <3>1. n \in Nat /\ stRun' = [stRun EXCEPT !.events = n]
      BY <1>0, <1>1 DEF Ev!Delta
    <3> HIDE DEF n
    <3> QED
      BY <1>0, <3>1 DEF StreamRun
  <2>2. stRun.events + 1 \in Nat /\ Ev!Publish(stRun.events + 1) /\ UNCHANGED <<lines, hook, conn, holes>>
        /\ stRun.life = "working"
    BY <1>0, <1>1 DEF Ev!Delta
  <2> QED
    BY <1>0, <2>1, <2>2, PublicationInv
<1>2. CASE Ev!PublishEvent
  <2>1. stRun' \in StreamRun /\ stRun'.life = stRun.life /\ stRun'.resumed = stRun.resumed
    BY <1>0, <1>2 DEF Ev!PublishEvent, StreamRun
  <2>2. Ev!Publish(stRun.mid) /\ UNCHANGED <<lines, hook, conn, holes>> /\ stRun.mid # 0
    BY <1>2 DEF Ev!PublishEvent
  <2>3. stRun.life = "working"
    BY <1>0, <2>2 DEF WriterInv
  <2> QED
    BY <1>0, <2>1, <2>2, <2>3, PublicationInv
<1>3. CASE Ev!appendHookEvent
  <2>1. hook # 0 /\ hook' = 0 /\ lines' = Ev!Stored(hook) /\ Ev!Publish(hook) /\ UNCHANGED <<stRun, conn, holes>>
    BY <1>3 DEF Ev!appendHookEvent
  <2>2. stRun.life = "working"
    BY <1>0, <2>1 DEF WriterInv
  <2>3. lines' \in Seq(Nat)
    BY <1>0, <2>1 DEF Ev!Stored
  <2> QED
    BY <1>0, <2>1, <2>2, <2>3, PublicationInv
<1> QED
  BY <1>1, <1>2, <1>3

\* What a step that leaves the readers alone does to the buffer.
LEMMA SameReaders ==
  ASSUME StreamInv, evb'.cur = evb.cur, evb'.head = evb.head, evb'.made = evb.made
  PROVE  /\ Kept(evb') /\ (~evb'.made => DOMAIN evb'.cur = {}) /\ DOMAIN evb'.cur \subseteq DOMAIN evb.cur
         /\ \A r \in DOMAIN evb'.cur : evb'.cur[r] = evb.cur[r]
BY BufferKept DEF Kept

LEMMA ExpirySteps ==
  ASSUME StreamInv, Ev!SuspensionExpires \/ Ev!GraceExpires
  PROVE  StreamInv'
<1>1. evb \in Buffer /\ StreamTypes
  BY StreamFacts DEF StreamInv
<1>2. UNCHANGED <<log, lines, stRun, hook, conn, holes>>
  BY DEF Ev!SuspensionExpires, Ev!GraceExpires
<1>3. evb' \in Buffer /\ evb'.cur = evb.cur /\ evb'.head = evb.head /\ evb'.made = evb.made /\ evb'.term = evb.term
  BY <1>1 DEF Ev!SuspensionExpires, Ev!GraceExpires, Buffer, Suspension, Leaving
<1>4. StreamTypes'
  BY <1>1, <1>2, <1>3 DEF StreamTypes
<1>5. WriterInv' /\ Ev!TerminalAtRest' /\ Ev!DeletedIsGone'
  BY <1>2, <1>3 DEF StreamInv, WriterInv, Ev!TerminalAtRest, Ev!DeletedIsGone
<1> QED
  BY <1>2, <1>3, <1>4, <1>5, SameReaders, SchedulerStep

LEMMA MarkKeeps ==
  ASSUME StreamInv, Ev!MarkTerminal \/ UNCHANGED evb
  PROVE  evb' \in Buffer /\ evb'.cur = evb.cur /\ evb'.head = evb.head /\ evb'.made = evb.made
         /\ (evb'.term = evb.term \/ evb'.term = TRUE)
BY StreamFacts DEF StreamInv, Ev!MarkTerminal, Buffer

\* A buffer that is not there has no readers.
LEMMA NoBufferIsOne == Ev!NoBuffer \in Buffer /\ DOMAIN Ev!NoBuffer.cur = {} /\ ~Ev!NoBuffer.term /\ ~Ev!NoBuffer.made
<1>1. <<>> \in [{} -> Nat]
  OBVIOUS
<1>2. <<>> \in Cursors
  BY <1>1 DEF Cursors
<1> QED
  BY <1>2 DEF Ev!NoBuffer, Buffer, Suspension, Leaving

\* A generation enters its loop: the collector works again.
LEMMA EnterInv ==
  ASSUME StreamInv, Ev!Launch
  PROVE  StreamInv'
<1> DEFINE b == Ev!eventBuffer
<1>0. StreamTypes /\ evb \in Buffer /\ stRun \in StreamRun /\ stRun.incs \in Nat
  BY StreamFacts DEF StreamInv
<1>1. Ev!NoBuffer \in Buffer /\ DOMAIN Ev!NoBuffer.cur = {} /\ ~Ev!NoBuffer.term
  BY NoBufferIsOne
<1>2. /\ b \in Buffer /\ b.made /\ (evb.made => b = evb)
      /\ ~evb.made => ~b.term /\ DOMAIN b.cur = {}
  <2>1. CASE evb.made
    BY <1>0, <2>1 DEF Ev!eventBuffer
  <2>2. CASE ~evb.made
    <3> DEFINE n == stRun.incs + 1
    <3>1. n \in Nat /\ b = [Ev!NoBuffer EXCEPT !.made = TRUE, !.inc = n]
      BY <1>0, <2>2 DEF Ev!eventBuffer
    <3> HIDE DEF n, b
    <3> QED
      BY <1>1, <2>2, <3>1 DEF Buffer
  <2> QED
    BY <2>1, <2>2
<1> HIDE DEF b
<1>3. /\ stRun.life = "claimed" /\ UNCHANGED <<log, lines, hook, conn, holes>>
      /\ evb' = IF stRun.resumed THEN Ev!Resumed(b) ELSE b
      /\ stRun' = [stRun EXCEPT !.life = "working", !.incs = evb'.inc]
  BY DEF Ev!Launch, b
<1>4. evb' \in Buffer /\ evb'.made /\ evb'.cur = b.cur /\ evb'.head = b.head /\ (stRun.resumed => ~evb'.term)
      /\ (~stRun.resumed => evb'.term = b.term)
  BY <1>2, <1>3 DEF Ev!Resumed, Buffer, Suspension
<1>5. stRun' \in StreamRun /\ stRun'.life = "working"
  <2>1. evb'.inc \in Nat
    BY <1>4 DEF Buffer
  <2> QED
    BY <1>0, <1>3, <2>1 DEF StreamRun, Life
<1>6. StreamTypes'
  BY <1>0, <1>3, <1>4, <1>5 DEF StreamTypes
<1>7. WriterInv' /\ Ev!DeletedIsGone'
  BY <1>5 DEF WriterInv, Ev!DeletedIsGone
<1>8. ~evb'.term
  BY <1>2, <1>3, <1>4 DEF StreamInv, Ev!TerminalAtRest
<1>9. Ev!TerminalAtRest'
  BY <1>5, <1>8 DEF Ev!TerminalAtRest
<1>10. Kept(evb') /\ DOMAIN evb'.cur \subseteq DOMAIN evb.cur /\ \A r \in DOMAIN evb'.cur : evb'.cur[r] = evb.cur[r]
  BY <1>2, <1>4, BufferKept DEF Kept
<1> QED
  BY <1>3, <1>4, <1>6, <1>7, <1>9, <1>10, SchedulerStep

\* A generation that is not launched, or is over, leaves its buffer marked.
LEMMA RestInv ==
  ASSUME StreamInv, Ev!LaunchFails \/ Ev!completeControl \/ Ev!ResumeRun \/ Ev!ClearLinkage
  PROVE  StreamInv'
<1>0. StreamTypes /\ stRun \in StreamRun
  BY StreamFacts DEF StreamInv
<1>1. UNCHANGED <<log, lines, hook, conn, holes>> /\ (Ev!MarkTerminal \/ UNCHANGED evb)
  BY DEF Ev!LaunchFails, Ev!completeControl, Ev!ResumeRun, Ev!ClearLinkage
<1>2. evb' \in Buffer /\ evb'.cur = evb.cur /\ evb'.head = evb.head /\ evb'.made = evb.made
      /\ (evb'.term = evb.term \/ evb'.term = TRUE)
  BY <1>1, MarkKeeps
<1>3. stRun' \in StreamRun /\ stRun'.mid = stRun.mid
  <2>1. CASE Ev!LaunchFails \/ Ev!completeControl
    BY <1>0, <2>1 DEF Ev!LaunchFails, Ev!completeControl, StreamRun, Life
  <2>2. CASE Ev!ClearLinkage
    BY <1>0, <2>2 DEF Ev!ClearLinkage, StreamRun
  <2>3. CASE Ev!ResumeRun
    <3> DEFINE n == stRun.resumes + 1
    <3>1. n \in Nat /\ stRun' = [stRun EXCEPT !.life = "claimed", !.resumed = TRUE, !.located = TRUE, !.resumes = n]
      BY <1>0, <2>3 DEF Ev!ResumeRun, StreamRun
    <3> HIDE DEF n
    <3> QED
      BY <1>0, <3>1 DEF StreamRun, Life
  <2> QED
    BY <2>1, <2>2, <2>3
<1>4. StreamTypes'
  BY <1>0, <1>1, <1>2, <1>3 DEF StreamTypes
<1>5. CASE Ev!LaunchFails
  <2>1. stRun.life = "claimed" /\ stRun.resumed /\ stRun'.life = "rest" /\ stRun'.resumed
    BY <1>0, <1>5 DEF Ev!LaunchFails, StreamRun
  <2>2. WriterInv' /\ Ev!DeletedIsGone' /\ Ev!TerminalAtRest'
    BY <1>1, <1>2, <1>3, <2>1 DEF StreamInv, WriterInv, Ev!DeletedIsGone, Ev!TerminalAtRest
  <2> QED
    BY <1>1, <1>2, <1>4, <2>2, SameReaders, SchedulerStep
<1>6. CASE Ev!completeControl
  <2>1. stRun.life = "working" /\ stRun'.life = "rest" /\ stRun.mid = 0 /\ hook = 0 /\ Ev!MarkTerminal
    BY <1>0, <1>6 DEF Ev!completeControl, StreamRun
  <2>2. evb'.made => evb'.term = TRUE
    BY <1>2, <2>1, StreamFacts DEF Ev!MarkTerminal, StreamInv, Buffer
  <2>3. WriterInv' /\ Ev!DeletedIsGone' /\ Ev!TerminalAtRest'
    BY <1>1, <1>2, <1>3, <2>1, <2>2 DEF WriterInv, Ev!DeletedIsGone, Ev!TerminalAtRest
  <2> QED
    BY <1>1, <1>2, <1>4, <2>3, SameReaders, SchedulerStep
<1>7. CASE Ev!ResumeRun
  <2>1. stRun.life = "rest" /\ stRun'.life = "claimed" /\ stRun'.resumed /\ UNCHANGED evb
    BY <1>0, <1>7 DEF Ev!ResumeRun, StreamRun
  <2>2. WriterInv' /\ Ev!DeletedIsGone' /\ Ev!TerminalAtRest'
    BY <1>1, <1>3, <2>1 DEF StreamInv, WriterInv, Ev!DeletedIsGone, Ev!TerminalAtRest
  <2> QED
    BY <1>1, <1>2, <1>4, <2>2, SameReaders, SchedulerStep
<1>8. CASE Ev!ClearLinkage
  <2>1. stRun.life = "gone" /\ stRun'.life = "gone" /\ UNCHANGED evb
    BY <1>0, <1>8 DEF Ev!ClearLinkage, StreamRun
  <2>2. WriterInv' /\ Ev!DeletedIsGone' /\ Ev!TerminalAtRest'
    BY <1>1, <1>3, <2>1 DEF StreamInv, WriterInv, Ev!DeletedIsGone, Ev!TerminalAtRest
  <2> QED
    BY <1>1, <1>2, <1>4, <2>2, SameReaders, SchedulerStep
<1> QED
  BY <1>5, <1>6, <1>7, <1>8

\* An event is on its way.
LEMMA StartingSteps ==
  ASSUME StreamInv, Ev!appendEvent \/ Ev!HookStarts
  PROVE  StreamInv'
<1> DEFINE n == stRun.events + 1
<1>0. StreamTypes /\ stRun \in StreamRun /\ n \in Nat /\ lines \in Seq(Nat) /\ hook \in Nat
  BY StreamFacts DEF StreamInv
<1>1. /\ stRun.life = "working" /\ UNCHANGED <<evb, log, conn, holes>> /\ lines' \in {lines, Ev!Stored(n)}
      /\ hook' \in {hook, n}
      /\ stRun' = [stRun EXCEPT !.events = n, !.mid = n] \/ stRun' = [stRun EXCEPT !.events = n]
  BY DEF Ev!appendEvent, Ev!HookStarts
<1> HIDE DEF n
<1>2. lines' \in Seq(Nat) /\ hook' \in Nat
  <2>1. Append(lines, n) \in Seq(Nat)
    BY <1>0
  <2> QED
    BY <1>0, <1>1, <2>1 DEF Ev!Stored
<1>3. stRun' \in StreamRun /\ stRun'.life = "working" /\ stRun'.resumed = stRun.resumed
  BY <1>0, <1>1 DEF StreamRun
<1>4. StreamTypes'
  BY <1>0, <1>1, <1>2, <1>3 DEF StreamTypes
<1>5. WriterInv' /\ Ev!DeletedIsGone' /\ Ev!TerminalAtRest'
  BY <1>1, <1>3 DEF StreamInv, WriterInv, Ev!DeletedIsGone, Ev!TerminalAtRest
<1>6. Kept(evb') /\ (~evb'.made => DOMAIN evb'.cur = {})
  BY <1>1, BufferKept
<1> QED
  BY <1>1, <1>4, <1>5, <1>6, SchedulerStep

LEMMA DeleteRunInv ==
  ASSUME StreamInv, Ev!DeleteRun
  PROVE  StreamInv'
<1>0. StreamTypes /\ stRun \in StreamRun /\ stRun.life = "rest"
  BY StreamFacts DEF StreamInv, Ev!DeleteRun
<1>1. /\ stRun' = [stRun EXCEPT !.life = "gone", !.located = FALSE] /\ lines' = <<>> /\ evb' = Ev!NoBuffer /\ log' = <<>>
      /\ UNCHANGED <<hook, conn, holes>>
  BY DEF Ev!DeleteRun
<1>2. stRun' \in StreamRun /\ stRun'.life = "gone" /\ stRun'.mid = stRun.mid
  BY <1>0, <1>1 DEF StreamRun, Life
<1>3. StreamTypes'
  BY <1>0, <1>1, <1>2, NoBufferIsOne DEF StreamTypes
<1>4. WriterInv' /\ Ev!DeletedIsGone' /\ Ev!TerminalAtRest'
  BY <1>0, <1>1, <1>2, NoBufferIsOne DEF StreamInv, WriterInv, Ev!DeletedIsGone, Ev!TerminalAtRest
<1>5. Kept(evb') /\ DOMAIN evb'.cur = {}
  BY <1>1, NoBufferIsOne DEF Kept
<1> QED
  BY <1>1, <1>3, <1>4, <1>5, SchedulerStep

-----------------------------------------------------------------------------
(* The clients' steps.                                                        *)

LEMMA ClientStep ==
  ASSUME StreamInv, NEW c \in Conns, NEW m \in Connection, Ev!Goes(c, m), Follows(m),
         \A r \in DOMAIN evb'.cur : r # c => r \in DOMAIN evb.cur /\ evb'.cur[r] = evb.cur[r],
         c \in DOMAIN evb'.cur => m.pc = "live" /\ AtCursor(c, m, evb')
  PROVE  ClientInv' /\ conn' \in [Conns -> Connection]
<1>1. conn \in [Conns -> Connection] /\ DOMAIN evb.cur \subseteq Conns
  BY StreamFacts, BufferFacts DEF StreamInv, StreamTypes
<1>2. conn' \in [Conns -> Connection] /\ conn'[c] = m /\ \A d \in Conns : d # c => conn'[d] = conn[d]
  BY <1>1 DEF Ev!Goes
<1>3. \A d \in Conns : Follows(conn'[d])
  BY <1>2 DEF StreamInv, ClientInv
<1>4. \A d \in DOMAIN evb'.cur : conn'[d].pc = "live" /\ AtCursor(d, conn'[d], evb')
  BY <1>1, <1>2 DEF StreamInv, ClientInv, AtCursor
<1> QED
  BY <1>2, <1>3, <1>4 DEF ClientInv

\* A client that goes, and nothing else does.
LEMMA ClientAlone ==
  ASSUME StreamInv, NEW c \in Conns, NEW m \in Connection, Ev!Goes(c, m), Follows(m),
         UNCHANGED <<evb, log, lines, hook, holes>>, stRun' \in StreamRun, stRun'.life = stRun.life,
         stRun'.resumed = stRun.resumed, stRun'.mid = stRun.mid,
         c \in DOMAIN evb.cur => m.pc = "live" /\ AtCursor(c, m, evb)
  PROVE  StreamInv'
<1>1. ClientInv' /\ conn' \in [Conns -> Connection]
  BY ClientStep
<1>2. StreamTypes'
  BY <1>1 DEF StreamInv, StreamTypes
<1>3. WriterInv' /\ Ev!DeletedIsGone' /\ Ev!TerminalAtRest' /\ Ev!NoHole' /\ BufferInv'
  BY DEF StreamInv, WriterInv, Ev!DeletedIsGone, Ev!TerminalAtRest, Ev!NoHole, BufferInv, Kept
<1> QED
  BY <1>1, <1>2, <1>3 DEF StreamInv

\* The connections a client may have.
LEMMA Connections ==
  ASSUME NEW m \in Connection
  PROVE  /\ Ev!Offline \in Connection /\ Follows(Ev!Offline)
         /\ [Ev!Offline EXCEPT !.mem = m.mem] \in Connection /\ Follows([Ev!Offline EXCEPT !.mem = m.mem])
         /\ [Ev!Offline EXCEPT !.mem = m.mem].pc = "off" /\ Ev!Offline.pc = "off"
<1>1. Ev!Offline \in Connection /\ Ev!Offline.pc = "off" /\ Ev!Offline.at = 0
  BY DEF Ev!Offline, Connection
<1>2. [Ev!Offline EXCEPT !.mem = m.mem] \in Connection /\ [Ev!Offline EXCEPT !.mem = m.mem].pc = "off"
      /\ [Ev!Offline EXCEPT !.mem = m.mem].at = 0
  BY <1>1, ConnectionFacts DEF Connection
<1> QED
  BY <1>1, <1>2 DEF Follows

LEMMA ClientFacts ==
  ASSUME StreamInv, NEW c \in Conns
  PROVE  /\ conn[c] \in Connection /\ Follows(conn[c])
         /\ c \in DOMAIN evb.cur => conn[c].pc = "live" /\ AtCursor(c, conn[c], evb)
BY StreamFacts DEF StreamInv, ClientInv

LEMMA ResolveInv ==
  ASSUME StreamInv, NEW c \in Conns, Ev!Resolve(c)
  PROVE  StreamInv'
<1> DEFINE me == conn[c]
           m == [me EXCEPT !.pc = "resolved", !.start = me.mem.n]
<1>1. me.pc = "off" /\ Ev!Goes(c, m) /\ UNCHANGED <<evb, log, lines, stRun, hook, holes>>
  BY DEF Ev!Resolve
<1>2. me \in Connection /\ Follows(me) /\ me.mem.n \in Nat /\ c \notin DOMAIN evb.cur
  BY <1>1, ClientFacts, ConnectionFacts
<1>3. m \in Connection /\ m.pc = "resolved" /\ m.start = me.mem.n /\ m.mem = me.mem /\ m.at = me.at
  BY <1>2 DEF Connection
<1>4. Follows(m)
  BY <1>1, <1>2, <1>3 DEF Follows
<1>5. stRun \in StreamRun
  BY StreamFacts DEF StreamInv
<1> HIDE DEF m
<1> QED
  BY <1>1, <1>2, <1>3, <1>4, <1>5, ClientAlone

LEMMA RegisterInv ==
  ASSUME StreamInv, NEW c \in Conns, Ev!Register(c)
  PROVE  StreamInv'
<1> DEFINE me == conn[c]
           n == IF me.start = 0 /\ evb.made THEN Len(log) ELSE me.start
           m == [me EXCEPT !.pc = "snap", !.start = n]
<1>1. /\ me.pc = "resolved" /\ stRun' = [stRun EXCEPT !.located = TRUE] /\ UNCHANGED <<evb, log, lines, hook, holes>>
      /\ Ev!Goes(c, Ev!Offline) \/ Ev!Goes(c, [me EXCEPT !.pc = "snap", !.start = IF @ = 0 /\ evb.made THEN Len(log) ELSE @])
  BY DEF Ev!Register, Ev!Forgets
<1>2. me \in Connection /\ Follows(me) /\ me.mem.n \in Nat /\ me.start \in Nat /\ c \notin DOMAIN evb.cur
      /\ Len(log) \in Nat
  BY <1>1, ClientFacts, ConnectionFacts, StreamFacts DEF StreamInv
<1>3. [me EXCEPT !.pc = "snap", !.start = IF @ = 0 /\ evb.made THEN Len(log) ELSE @] = m
  BY <1>2 DEF Connection
<1>4. n \in Nat /\ (me.start # 0 => n = me.start)
  BY <1>2
<1> HIDE DEF n
<1>5. m \in Connection /\ m.pc = "snap" /\ m.start = n /\ m.mem = me.mem /\ m.at = me.at
  BY <1>2, <1>4 DEF Connection
<1>6. Follows(m)
  BY <1>1, <1>2, <1>4, <1>5 DEF Follows
<1>7. stRun' \in StreamRun /\ stRun'.life = stRun.life /\ stRun'.resumed = stRun.resumed /\ stRun'.mid = stRun.mid
  BY <1>1, StreamFacts DEF StreamInv, StreamRun
<1> HIDE DEF m
<1>8. Ev!Goes(c, Ev!Offline) \/ Ev!Goes(c, m)
  BY <1>1, <1>3
<1> QED
  BY <1>1, <1>2, <1>5, <1>6, <1>7, <1>8, Connections, ClientAlone

LEMMA ReplayInv ==
  ASSUME StreamInv, NEW c \in Conns, Ev!Replay(c)
  PROVE  StreamInv'
<1> DEFINE me == conn[c]
           k == IF Ev!ListReplayEvents(me.start) = <<>> THEN me.mem ELSE [n |-> Len(lines), inc |-> 0]
           m == [me EXCEPT !.pc = "idle", !.mem = k]
<1>1. me.pc = "snap" /\ Ev!Goes(c, m) /\ UNCHANGED <<evb, log, lines, stRun, hook, holes>>
  BY DEF Ev!Replay
<1>2. me \in Connection /\ Follows(me) /\ c \notin DOMAIN evb.cur /\ Len(lines) \in Nat
      /\ me.mem \in [n : Nat, inc : Nat]
  BY <1>1, ClientFacts, ConnectionFacts, StreamFacts DEF StreamInv
<1>3. k \in [n : Nat, inc : Nat]
  BY <1>2
<1> HIDE DEF k
<1>4. m \in Connection /\ m.pc = "idle" /\ m.at = me.at
  BY <1>2, <1>3 DEF Connection
<1>5. Follows(m)
  BY <1>1, <1>2, <1>4 DEF Follows
<1>6. stRun \in StreamRun
  BY StreamFacts DEF StreamInv
<1> HIDE DEF m
<1> QED
  BY <1>1, <1>2, <1>4, <1>5, <1>6, ClientAlone

\* A client's step that moves its reader, or lets the collector take one away.
LEMMA ReaderStep ==
  ASSUME StreamInv, NEW c \in Conns, NEW m \in Connection, Ev!Goes(c, m), Follows(m),
         evb' \in Buffer, Kept(evb'), evb'.made = evb.made, evb'.term = evb.term,
         ~evb'.made => DOMAIN evb'.cur = {},
         UNCHANGED <<log, lines, hook>>, holes' = FALSE, stRun' \in StreamRun, stRun'.life = stRun.life,
         stRun'.resumed = stRun.resumed, stRun'.mid = stRun.mid,
         \A r \in DOMAIN evb'.cur : r # c => r \in DOMAIN evb.cur /\ evb'.cur[r] = evb.cur[r],
         c \in DOMAIN evb'.cur => m.pc = "live" /\ AtCursor(c, m, evb')
  PROVE  StreamInv'
<1>1. ClientInv' /\ conn' \in [Conns -> Connection]
  BY ClientStep
<1>2. StreamTypes'
  BY <1>1 DEF StreamInv, StreamTypes
<1>3. WriterInv' /\ Ev!DeletedIsGone' /\ Ev!TerminalAtRest' /\ Ev!NoHole'
  BY DEF StreamInv, WriterInv, Ev!DeletedIsGone, Ev!TerminalAtRest, Ev!NoHole
<1>4. BufferInv'
  BY DEF BufferInv, Kept
<1> QED
  BY <1>1, <1>2, <1>3, <1>4 DEF StreamInv

LEMMA PlacedCursors ==
  ASSUME NEW b \in Buffer, NEW c \in Conns, NEW s \in Nat
  PROVE  [r \in DOMAIN b.cur \cup {c} |-> IF r = c THEN s ELSE b.cur[r]] \in Cursors
<1> DEFINE f == [r \in DOMAIN b.cur \cup {c} |-> IF r = c THEN s ELSE b.cur[r]]
<1>1. f \in [DOMAIN b.cur \cup {c} -> Nat] /\ DOMAIN b.cur \cup {c} \subseteq Conns
  BY BufferFacts
<1> QED
  BY <1>1 DEF Cursors

LEMMA SubscribeInv ==
  ASSUME StreamInv, NEW c \in Conns, Ev!Subscribe(c)
  PROVE  StreamInv'
<1> DEFINE me == conn[c]
<1>1. me.pc = "snap" /\ evb.made /\ UNCHANGED <<log, lines, stRun, hook, holes>>
  BY DEF Ev!Subscribe
<1>2. me \in Connection /\ Follows(me) /\ c \notin DOMAIN evb.cur /\ evb \in Buffer /\ evb.head \in Nat
      /\ me.start \in Nat /\ stRun \in StreamRun /\ Len(log) \in Nat /\ ~holes /\ holes \in {holes}
  BY <1>1, ClientFacts, ConnectionFacts, StreamFacts, BufferFacts DEF StreamInv, Ev!NoHole
<1>3. CASE Ev!Accepts(me.start)
  <2> DEFINE f == [r \in DOMAIN evb.cur \cup {c} |-> IF r = c THEN me.start ELSE evb.cur[r]]
             m == [me EXCEPT !.pc = "live", !.at = 0]
  <2>1. evb' = [evb EXCEPT !.cur = f, !.left = "never", !.susp = "no"] /\ Ev!Goes(c, m)
    BY <1>3 DEF Ev!Subscribe, Ev!Readers
  <2>2. evb.head <= me.start
    BY <1>2, <1>3 DEF Ev!Accepts
  <2>3. f \in Cursors
    BY <1>2, PlacedCursors
  <2> HIDE DEF f
  <2>4. /\ evb' \in Buffer /\ evb'.cur = f /\ evb'.head = evb.head /\ evb'.made = evb.made
        /\ evb'.term = evb.term
    BY <1>2, <2>1, <2>3 DEF Buffer, Suspension, Leaving
  <2>5. /\ Kept(evb') /\ evb'.cur[c] = me.start
        /\ \A r \in DOMAIN evb'.cur : r # c => r \in DOMAIN evb.cur /\ evb'.cur[r] = evb.cur[r]
    <3> DEFINE st == me.start
    <3>1. evb'.cur = [r \in DOMAIN evb.cur \cup {c} |-> IF r = c THEN st ELSE evb.cur[r]]
      BY <2>4 DEF f
    <3>2. st \in Nat /\ evb.head <= st /\ Kept(evb)
      BY <1>2, <2>2, BufferKept
    <3> HIDE DEF st
    <3>3. /\ Kept(evb') /\ evb'.cur[c] = st
          /\ \A r \in DOMAIN evb'.cur : r # c => r \in DOMAIN evb.cur /\ evb'.cur[r] = evb.cur[r]
      <4>1. DOMAIN evb'.cur = DOMAIN evb.cur \cup {c} /\ evb'.cur[c] = st
            /\ \A r \in DOMAIN evb.cur : r # c => evb'.cur[r] = evb.cur[r]
        BY <3>1
      <4>2. evb'.head = evb.head
        BY <2>4
      <4> QED
        BY <3>2, <4>1, <4>2 DEF Kept
    <3> QED
      BY <3>3 DEF st
  <2>6. m \in Connection /\ m.pc = "live" /\ m.at = 0 /\ m.mem = me.mem
    BY <1>2 DEF Connection
  <2>7. Follows(m) /\ AtCursor(c, m, evb')
    BY <1>1, <1>2, <2>5, <2>6 DEF Follows, AtCursor
  <2> HIDE DEF m
  <2>8. holes' = FALSE
    BY <1>1 DEF StreamInv, Ev!NoHole
  <2> QED
    BY <1>1, <1>2, <2>1, <2>4, <2>5, <2>6, <2>7, <2>8, ReaderStep
<1>4. CASE ~Ev!Accepts(me.start)
  <2> DEFINE n == [me EXCEPT !.start = Len(log), !.retried = TRUE]
  <2>1. UNCHANGED evb /\ (Ev!Goes(c, Ev!Offline) \/ (me.mem.n = 0 /\ Ev!Goes(c, n)))
    BY <1>4 DEF Ev!Subscribe, Ev!Forgets
  <2>2. n \in Connection /\ n.pc = "snap" /\ n.mem = me.mem /\ n.at = me.at
    BY <1>1, <1>2 DEF Connection
  <2>3. ASSUME me.mem.n = 0 PROVE Follows(n)
    BY <1>1, <1>2, <2>2, <2>3 DEF Follows
  <2> HIDE DEF n
  <2> QED
    BY <1>1, <1>2, <2>1, <2>2, <2>3, Connections, ClientAlone
<1> QED
  BY <1>3, <1>4

LEMMA ReadInv ==
  ASSUME BatchAssumption, StreamInv, NEW c \in Conns, Ev!Read(c)
  PROVE  StreamInv'
<1> DEFINE me == conn[c]
<1>1. me.pc = "live" /\ me.at = 0 /\ UNCHANGED <<evb, log, lines, stRun, hook, holes>>
  BY DEF Ev!Read
<1>2. me \in Connection /\ Follows(me) /\ evb \in Buffer /\ evb.head \in Nat /\ stRun \in StreamRun
      /\ Len(log) \in Nat /\ me.mem.n \in Nat
  BY <1>1, ClientFacts, ConnectionFacts, StreamFacts, BufferFacts DEF StreamInv
<1>3. CASE Ev!Holds(c)
  <2> DEFINE k == evb.cur[c]
             a == Ev!Max({k, evb.head})
             h == Ev!Min({Len(log), a + Batch})
             m == [me EXCEPT !.at = a + 1, !.hi = h]
  <2>1. c \in DOMAIN evb.cur
    BY <1>3 DEF Ev!Holds, Ev!Readers
  <2>2. k \in Nat /\ evb.head <= k
    BY <1>2, <2>1, BufferFacts, BufferKept DEF Kept
  <2>3. AtCursor(c, me, evb)
    BY <2>1, ClientFacts
  <2>4. Ev!Goes(c, m)
    BY <1>3 DEF Ev!Read
  <2>5. a = k
    <3>1. a = IF k >= evb.head THEN k ELSE evb.head
      BY <1>2, <2>2, MaxOfTwo
    <3> QED
      BY <1>2, <2>2, <3>1
  <2> HIDE DEF a
  <2>6. k + 1 \in Nat /\ k + 1 # 0 /\ k + Batch \in Nat
    BY <2>2 DEF BatchAssumption
  <2>7. h \in Nat
    BY <1>2, <2>5, <2>6, MinOf
  <2>8. a + 1 = k + 1
    BY <2>5
  <2> HIDE DEF h
  <2>9. m \in Connection /\ m.pc = "live" /\ m.mem = me.mem /\ m.at = k + 1
    BY <1>1, <1>2, <2>6, <2>7, <2>8 DEF Connection
  <2>10. Follows(m) /\ AtCursor(c, m, evb)
    BY <1>1, <2>3, <2>6, <2>9 DEF Follows, AtCursor
  <2> HIDE DEF m
  <2> QED
    BY <1>1, <1>2, <2>4, <2>9, <2>10, ClientAlone
<1>4. CASE ~Ev!Holds(c)
  <2>1. c \notin DOMAIN evb.cur
    BY <1>4, BufferKept DEF Ev!Holds, Ev!Readers
  <2>2. Ev!Goes(c, [Ev!Offline EXCEPT !.mem = me.mem])
    BY <1>4 DEF Ev!Read, Ev!Hangs
  <2> QED
    BY <1>1, <1>2, <2>1, <2>2, Connections, ClientAlone
<1> QED
  BY <1>3, <1>4

\* A reader goes: what it leaves is collected.
LEMMA ClosedKeeps ==
  ASSUME StreamInv, NEW c \in Conns, NEW x \in Ev!Closed(c)
  PROVE  /\ x \in Buffer /\ Kept(x) /\ x.made = evb.made /\ x.term = evb.term /\ c \notin DOMAIN x.cur
         /\ (~x.made => DOMAIN x.cur = {})
         /\ \A r \in DOMAIN x.cur : r \in DOMAIN evb.cur /\ x.cur[r] = evb.cur[r]
<1>0. evb \in Buffer /\ Kept(evb) /\ (~evb.made => DOMAIN evb.cur = {}) /\ Len(log) \in Nat
  BY StreamFacts, BufferKept DEF StreamInv
<1>1. CASE ~Ev!Holds(c)
  BY <1>0, <1>1 DEF Ev!Closed, Ev!Holds, Ev!Readers
<1>2. CASE Ev!Holds(c)
  <2> DEFINE rest == [r \in Ev!Readers(evb) \ {c} |-> evb.cur[r]]
             left == IF DOMAIN rest = {} /\ ~evb.term THEN "fresh" ELSE evb.left
             b == [evb EXCEPT !.cur = rest, !.left = left]
  <2>1. x \in Ev!Collections(b, Len(log)) /\ evb.made
    BY <1>2 DEF Ev!Closed, Ev!Holds
  <2>2. rest \in Cursors
    <3>1. Ev!Readers(evb) \subseteq Conns /\ \A r \in Ev!Readers(evb) : evb.cur[r] \in Nat
      BY <1>0, BufferFacts DEF Ev!Readers
    <3>2. rest \in [Ev!Readers(evb) \ {c} -> Nat]
      BY <3>1
    <3> QED
      BY <3>1, <3>2 DEF Cursors
  <2>3. DOMAIN rest = DOMAIN evb.cur \ {c} /\ \A r \in DOMAIN rest : rest[r] = evb.cur[r]
    BY DEF Ev!Readers
  <2>4. left \in Leaving
    BY <1>0, BufferFacts DEF Leaving
  <2> HIDE DEF rest, left
  <2>5. b \in Buffer /\ b.cur = rest /\ b.head = evb.head /\ b.made = evb.made /\ b.term = evb.term
    BY <1>0, <2>2, <2>4 DEF Buffer
  <2> HIDE DEF b
  <2>6. Kept(b)
    BY <1>0, <2>3, <2>5 DEF Kept
  <2>7. Shrinks(b, x)
    BY <1>0, <2>1, <2>5, <2>6, CollectionsKeep
  <2>8. x.made
    BY <2>1, <2>5, <2>7 DEF Shrinks
  <2> QED
    BY <2>3, <2>5, <2>7, <2>8 DEF Shrinks
<1> QED
  BY <1>1, <1>2

\* A client that reads has written the event before.
LEMMA NothingSkipped ==
  ASSUME StreamInv, NEW c \in Conns, conn[c].pc = "live", conn[c].at # 0
  PROVE  ~Ev!Skips(c, conn[c].at) /\ conn[c].at \in Nat /\ stRun.incs \in Nat
BY ClientFacts, ConnectionFacts, StreamFacts DEF StreamInv, Ev!Skips, Follows

LEMMA DropInv ==
  ASSUME StreamInv, NEW c \in Conns, Ev!Drop(c)
  PROVE  StreamInv'
<1> DEFINE me == conn[c]
           k == [n |-> me.at, inc |-> stRun.incs]
           f == stRun.faults + 1
<1>1. me.pc \in {"live", "idle"} /\ stRun' = [stRun EXCEPT !.faults = f] /\ evb' \in Ev!Closed(c)
      /\ UNCHANGED <<log, lines, hook>>
  BY DEF Ev!Drop
<1>2. me \in Connection /\ Follows(me) /\ stRun \in StreamRun /\ me.at \in Nat /\ stRun.incs \in Nat /\ ~holes
  BY ClientFacts, ConnectionFacts, StreamFacts DEF StreamInv, Ev!NoHole
<1>3. f \in Nat
  BY <1>2 DEF StreamRun
<1> HIDE DEF f
<1>4. stRun' \in StreamRun /\ stRun'.life = stRun.life /\ stRun'.resumed = stRun.resumed /\ stRun'.mid = stRun.mid
  BY <1>1, <1>2, <1>3 DEF StreamRun
<1>5. /\ evb' \in Buffer /\ Kept(evb') /\ evb'.made = evb.made /\ evb'.term = evb.term /\ c \notin DOMAIN evb'.cur
      /\ (~evb'.made => DOMAIN evb'.cur = {})
      /\ \A r \in DOMAIN evb'.cur : r \in DOMAIN evb.cur /\ evb'.cur[r] = evb.cur[r]
  BY <1>1, ClosedKeeps
<1>6. ASSUME NEW m \in Connection, Ev!Goes(c, m), Follows(m), holes' = FALSE
      PROVE  StreamInv'
  BY <1>1, <1>4, <1>5, <1>6, ReaderStep
<1>7. CASE Ev!Hangs(c) /\ UNCHANGED holes
  <2>1. Ev!Goes(c, [Ev!Offline EXCEPT !.mem = me.mem])
    BY <1>7 DEF Ev!Hangs
  <2>2. holes' = FALSE
    BY <1>7 DEF StreamInv, Ev!NoHole
  <2> QED
    BY <1>2, <1>6, <2>1, <2>2, Connections
<1>8. CASE me.at # 0 /\ Ev!Goes(c, [Ev!Offline EXCEPT !.mem = k]) /\ holes' = (holes \/ Ev!Skips(c, me.at))
  <2>1. me.pc = "live"
    BY <1>1, <1>2, <1>8 DEF Follows
  <2>2. ~Ev!Skips(c, me.at)
    BY <1>8, <2>1, NothingSkipped
  <2>3. holes' = FALSE
    BY <1>2, <1>8, <2>2
  <2>4. k \in [n : Nat, inc : Nat]
    BY <1>2
  <2> HIDE DEF k
  <2> DEFINE m == [Ev!Offline EXCEPT !.mem = k]
  <2>5. m \in Connection /\ m.pc = "off" /\ m.at = 0
    BY <2>4 DEF Ev!Offline, Connection
  <2>6. Follows(m) /\ Ev!Goes(c, m)
    BY <1>8, <2>5 DEF Follows
  <2> HIDE DEF m
  <2> QED
    BY <1>6, <2>3, <2>5, <2>6
<1> QED
  BY <1>7, <1>8 DEF Ev!Drop

LEMMA WriteInv ==
  ASSUME StreamInv, NEW c \in Conns, Ev!Write(c)
  PROVE  StreamInv'
<1> DEFINE me == conn[c]
           s == me.at
           k == [n |-> me.at, inc |-> stRun.incs]
           a == IF me.at = me.hi THEN 0 ELSE me.at + 1
           m == [me EXCEPT !.mem = k, !.at = a]
<1>1. me.pc = "live" /\ s # 0 /\ Ev!Goes(c, m) /\ evb' \in Ev!AckedTo(c, s) /\ holes' = (holes \/ Ev!Skips(c, s))
      /\ UNCHANGED <<log, lines, stRun, hook>>
  BY DEF Ev!Write
<1>2. me \in Connection /\ stRun \in StreamRun /\ s \in Nat /\ stRun.incs \in Nat /\ ~holes /\ evb \in Buffer
      /\ Kept(evb) /\ (~evb.made => DOMAIN evb.cur = {}) /\ Len(log) \in Nat
  BY ClientFacts, ConnectionFacts, StreamFacts, BufferKept DEF StreamInv, Ev!NoHole
<1>3. holes' = FALSE
  BY <1>1, <1>2, NothingSkipped
<1>4. a \in Nat /\ (a # 0 => a = s + 1)
  BY <1>2
<1>5. k \in [n : Nat, inc : Nat] /\ k.n = s
  BY <1>2
<1> HIDE DEF a, k
<1>6. m \in Connection /\ m.pc = "live" /\ m.mem = k /\ m.at = a
  BY <1>1, <1>2, <1>4, <1>5 DEF Connection
<1> HIDE DEF m
<1>7. Follows(m)
  BY <1>4, <1>5, <1>6 DEF Follows
<1>8. ASSUME evb' \in Buffer, Kept(evb'), evb'.made = evb.made, evb'.term = evb.term, ~evb'.made => DOMAIN evb'.cur = {},
             \A r \in DOMAIN evb'.cur : r # c => r \in DOMAIN evb.cur /\ evb'.cur[r] = evb.cur[r],
             c \in DOMAIN evb'.cur => evb'.cur[c] = s
      PROVE  StreamInv'
  <2>1. c \in DOMAIN evb'.cur => AtCursor(c, m, evb')
    BY <1>4, <1>5, <1>6, <1>8 DEF AtCursor
  <2> QED
    BY <1>1, <1>2, <1>3, <1>6, <1>7, <1>8, <2>1, ReaderStep
<1>9. CASE ~Ev!Holds(c)
  <2>1. UNCHANGED evb /\ c \notin DOMAIN evb.cur
    BY <1>1, <1>2, <1>9 DEF Ev!AckedTo, Ev!Holds, Ev!Readers
  <2> QED
    BY <1>2, <1>8, <2>1
<1>10. CASE Ev!Holds(c)
  <2> DEFINE q == evb.cur[c]
             f == [evb.cur EXCEPT ![c] = s]
             b == [evb EXCEPT !.cur = f]
  <2>1. c \in DOMAIN evb.cur /\ evb.made
    BY <1>10 DEF Ev!Holds, Ev!Readers
  <2>2. q \in Nat /\ evb.head \in Nat /\ evb.head <= q /\ q + 1 = s
    BY <1>1, <1>2, <2>1, BufferFacts, ClientFacts DEF Kept, AtCursor
  <2>3. Ev!Max({q, s}) = s
    <3>1. Ev!Max({q, s}) = IF q >= s THEN q ELSE s
      BY <1>2, <2>2, MaxOfTwo
    <3> QED
      BY <1>2, <2>2, <3>1
  <2>4. evb' \in Ev!Collections([evb EXCEPT !.cur = [evb.cur EXCEPT ![c] = Ev!Max({q, s})]], Len(log))
    BY <1>1, <1>10 DEF Ev!AckedTo
  <2>5. evb' \in Ev!Collections(b, Len(log))
    BY <2>3, <2>4
  <2>6. f \in Cursors
    <3>1. DOMAIN evb.cur \subseteq Conns /\ \A r \in DOMAIN evb.cur : evb.cur[r] \in Nat
      BY <1>2, BufferFacts
    <3>2. evb.cur \in Cursors
      BY <1>2, BufferFacts
    <3>3. PICK R \in SUBSET Conns : evb.cur \in [R -> Nat]
      BY <3>2 DEF Cursors
    <3>4. f \in [R -> Nat]
      BY <1>2, <3>3
    <3> QED
      BY <3>4 DEF Cursors
  <2>7. DOMAIN f = DOMAIN evb.cur /\ f[c] = s /\ \A r \in DOMAIN f : r # c => f[r] = evb.cur[r]
    BY <2>1
  <2> HIDE DEF f
  <2>8. b \in Buffer /\ b.cur = f /\ b.head = evb.head /\ b.made = evb.made /\ b.term = evb.term
    BY <1>2, <2>6 DEF Buffer
  <2> HIDE DEF b
  <2>9. Kept(b)
    BY <1>2, <2>2, <2>7, <2>8 DEF Kept
  <2>10. Shrinks(b, evb')
    BY <1>2, <2>5, <2>8, <2>9, CollectionsKeep
  <2>11. /\ evb' \in Buffer /\ Kept(evb') /\ evb'.made = evb.made /\ evb'.term = evb.term
         /\ DOMAIN evb'.cur \subseteq DOMAIN f /\ \A r \in DOMAIN evb'.cur : evb'.cur[r] = f[r]
    BY <2>8, <2>10 DEF Shrinks
  <2>12. /\ \A r \in DOMAIN evb'.cur : r # c => r \in DOMAIN evb.cur /\ evb'.cur[r] = evb.cur[r]
         /\ c \in DOMAIN evb'.cur => evb'.cur[c] = s
    BY <2>7, <2>11
  <2> QED
    BY <1>8, <2>1, <2>11, <2>12
<1> QED
  BY <1>9, <1>10

LEMMA CrashInv ==
  ASSUME StreamInv, Ev!Crash
  PROVE  StreamInv'
<1> DEFINE f == stRun.faults + 1
<1>1. /\ stRun' = [stRun EXCEPT !.faults = f, !.life = "rest", !.mid = 0, !.located = FALSE]
      /\ stRun.life # "gone" /\ evb' = Ev!NoBuffer /\ log' = <<>> /\ hook' = 0
      /\ conn' = [c \in Conns |-> [Ev!Offline EXCEPT !.mem = conn[c].mem]]
      /\ UNCHANGED <<lines, holes>>
  BY DEF Ev!Crash
<1>2. stRun \in StreamRun /\ f \in Nat /\ lines \in Seq(Nat) /\ \A c \in Conns : conn[c] \in Connection
  BY StreamFacts DEF StreamInv, StreamRun
<1> HIDE DEF f
<1>3. stRun' \in StreamRun /\ stRun'.life = "rest" /\ stRun'.mid = 0
  BY <1>1, <1>2 DEF StreamRun, Life
<1>4. \A c \in Conns : conn'[c] \in Connection /\ Follows(conn'[c])
  BY <1>1, <1>2, Connections
<1>5. conn' \in [Conns -> Connection]
  BY <1>1, <1>4
<1>6. log' \in Seq(Nat) /\ hook' \in Nat
  BY <1>1
<1>7. StreamTypes'
  BY <1>1, <1>2, <1>3, <1>5, <1>6, NoBufferIsOne DEF StreamTypes
<1>8. BufferInv' /\ ClientInv'
  BY <1>1, <1>4, NoBufferIsOne DEF BufferInv, ClientInv, Kept
<1>9. WriterInv' /\ Ev!NoHole' /\ Ev!TerminalAtRest' /\ Ev!DeletedIsGone'
  BY <1>1, <1>3, <1>6, NoBufferIsOne DEF StreamInv, WriterInv, Ev!NoHole, Ev!TerminalAtRest, Ev!DeletedIsGone
<1> QED
  BY <1>7, <1>8, <1>9 DEF StreamInv

LEMMA StreamInitInv ==
  ASSUME Ev!Init
  PROVE  StreamInv
<1>1. stRun \in StreamRun /\ stRun.life = "claimed" /\ stRun.resumed = FALSE /\ stRun.mid = 0 /\ hook = 0
  BY DEF Ev!Init, StreamRun, Life
<1>2. evb = Ev!NoBuffer /\ log \in Seq(Nat) /\ lines \in Seq(Nat) /\ holes = FALSE /\ conn = [c \in Conns |-> Ev!Offline]
  BY DEF Ev!Init
<1>3. Ev!Offline \in Connection /\ Follows(Ev!Offline)
  BY DEF Ev!Offline, Connection, Follows
<1>4. StreamTypes
  BY <1>1, <1>2, <1>3, NoBufferIsOne DEF StreamTypes
<1>5. BufferInv /\ ClientInv
  BY <1>2, <1>3, NoBufferIsOne DEF BufferInv, ClientInv, Kept
<1>6. WriterInv /\ Ev!NoHole /\ Ev!TerminalAtRest /\ Ev!DeletedIsGone
  BY <1>1, <1>2, NoBufferIsOne DEF WriterInv, Ev!NoHole, Ev!TerminalAtRest, Ev!DeletedIsGone
<1> QED
  BY <1>4, <1>5, <1>6 DEF StreamInv

LEMMA StreamStutter ==
  ASSUME StreamInv, UNCHANGED Ev!vars
  PROVE  StreamInv'
BY DEF Ev!vars, StreamInv, StreamTypes, BufferInv, Kept, WriterInv, ClientInv, AtCursor, Ev!NoHole,
       Ev!TerminalAtRest,
       Ev!DeletedIsGone

LEMMA StreamNextInv ==
  ASSUME BatchAssumption, StreamInv, [Ev!Next]_Ev!vars
  PROVE  StreamInv'
<1>1. CASE UNCHANGED Ev!vars
  BY <1>1, StreamStutter
<1>2. CASE Ev!SuspensionExpires \/ Ev!GraceExpires
  BY <1>2, ExpirySteps
<1>3. CASE Ev!Launch
  BY <1>3, EnterInv
<1>4. CASE Ev!LaunchFails \/ Ev!completeControl \/ Ev!ResumeRun \/ Ev!ClearLinkage
  BY <1>4, RestInv
<1>5. CASE Ev!Delta \/ Ev!PublishEvent \/ Ev!appendHookEvent
  BY <1>5, PublishingSteps
<1>6. CASE Ev!appendEvent \/ Ev!HookStarts
  BY <1>6, StartingSteps
<1>7. CASE Ev!DeleteRun
  BY <1>7, DeleteRunInv
<1>8. CASE Ev!Crash
  BY <1>8, CrashInv
<1>9. ASSUME NEW c \in Conns, Ev!Resolve(c) \/ Ev!Register(c) \/ Ev!Replay(c)
      PROVE  StreamInv'
  BY <1>9, ResolveInv, RegisterInv, ReplayInv
<1>10. ASSUME NEW c \in Conns, Ev!Subscribe(c) \/ Ev!Read(c) \/ Ev!Write(c) \/ Ev!Drop(c)
       PROVE  StreamInv'
  BY <1>10, SubscribeInv, ReadInv, WriteInv, DropInv
<1> QED
  BY <1>1, <1>2, <1>3, <1>4, <1>5, <1>6, <1>7, <1>8, <1>9, <1>10 DEF Ev!Next

LEMMA StreamInvHolds ==
  ASSUME StreamInv
  PROVE  Ev!GraphEventsKept
BY DEF StreamInv, ClientInv, Ev!GraphEventsKept, Ev!ReadersAreServed, Ev!Readers

\* A client that returns is sent the next event, the collector rests with the run, no reader waits
\* without a connection, and a deleted run leaves nothing behind.
THEOREM StreamHolds ==
  ASSUME BatchAssumption
  PROVE  Ev!Spec => []Ev!GraphEventsKept
<1>1. Ev!Init => StreamInv
  BY StreamInitInv
<1>2. StreamInv /\ [Ev!Next]_Ev!vars => StreamInv'
  BY StreamNextInv
<1>3. StreamInv => Ev!GraphEventsKept
  BY StreamInvHolds
<1> QED
  BY <1>1, <1>2, <1>3, PTL DEF Ev!Spec

-----------------------------------------------------------------------------
(***************************************************************************)
(* The library, for any clients, payloads and bounds.  An update holds a   *)
(* copy of the version that its author saw (CopyInv), so that it writes    *)
(* over no other; who launches has the lock of the message and a Job       *)
(* without a run (LaunchInv).                                              *)
(***************************************************************************)
\* The model's name of a lock that is free is no client.
ClientAssumption == "none" \notin Clients

LibPc == {"idle", "migrate", "migrate again", "update", "delete", "launch", "bind"}
File == [at : Nat, refs : {"ids", "legacy"}, del : BOOLEAN]
Request == [pc : LibPc, saw : Nat, copy : File, payload : Payloads \cup {0}]
LibJob == [payload : Payloads \cup {0}, run : Nat, del : BOOLEAN]
Launches == [lock : Clients \cup {Lib!None}, asked : Nat, runs : Nat, faults : Nat]

LibTypes ==
  /\ wf \in File
  /\ author \in [Clients -> Request]
  /\ job \in LibJob
  /\ start \in Launches

\* An update holds a copy of the version that its author saw.
CopyInv == \A c \in Clients : author[c].pc = "update" => author[c].copy.at = author[c].saw

\* Whoever launches has the lock of the client message id, and binds a Job that has no run.
LaunchInv == \A c \in Clients :
  /\ author[c].pc \in {"launch", "bind"} => start.lock = c
  /\ author[c].pc = "bind" => job.run = 0

LibInv == LibTypes /\ CopyInv /\ LaunchInv /\ Lib!GraphLibraryKept

LEMMA LibInitInv ==
  ASSUME Lib!Init
  PROVE  LibInv
<1>1. wf \in File /\ Lib!Idle \in Request /\ job \in LibJob /\ start \in Launches
  <2>1. Lib!NoFile \in File
    BY DEF Lib!NoFile, File
  <2>2. wf \in File
    <3>1. [at |-> 1, refs |-> "legacy", del |-> FALSE] \in File
      BY DEF File
    <3> QED
      BY <2>1, <3>1 DEF Lib!Init
  <2>3. Lib!Idle \in Request
    BY <2>1 DEF Lib!Idle, Request, LibPc
  <2>4. job \in LibJob
    BY DEF Lib!Init, Lib!NoJob, LibJob
  <2>5. start \in Launches
    BY DEF Lib!Init, Launches
  <2> QED
    BY <2>2, <2>3, <2>4, <2>5
<1>2. \A c \in Clients : author[c] = Lib!Idle
  BY DEF Lib!Init
<1>3. author \in [Clients -> Request]
  BY <1>1 DEF Lib!Init
<1>4. CopyInv /\ LaunchInv
  BY <1>2 DEF CopyInv, LaunchInv, Lib!Idle
<1>5. Lib!GraphLibraryKept
  BY DEF Lib!Init, Lib!GraphLibraryKept, Lib!EditsMerge, Lib!StartedOnce
<1> QED
  BY <1>1, <1>3, <1>4, <1>5 DEF LibInv, LibTypes

\* A request moves one client.
LEMMA ClientGoes ==
  ASSUME LibTypes, NEW c \in Clients, NEW rec \in Request, Lib!Goes(c, rec)
  PROVE  /\ author' \in [Clients -> Request] /\ author'[c] = rec
         /\ \A d \in Clients : d # c => author'[d] = author[d]
BY DEF LibTypes, Lib!Goes

\* One that is answered waits for nothing any more.
LEMMA ClientAnswered ==
  ASSUME LibTypes, NEW c \in Clients, NEW saw \in Nat, Lib!Answered(c, saw)
  PROVE  /\ author' \in [Clients -> Request] /\ author'[c].pc = "idle"
         /\ \A d \in Clients : d # c => author'[d] = author[d]
<1>1. [Lib!Idle EXCEPT !.saw = saw] \in Request /\ [Lib!Idle EXCEPT !.saw = saw].pc = "idle"
  BY DEF Lib!Idle, Lib!NoFile, Request, File, LibPc
<1> QED
  BY <1>1, ClientGoes DEF Lib!Answered

\* One that reads the file remembers its copy.
LEMMA ClientLoads ==
  ASSUME LibTypes, NEW c \in Clients, NEW pc \in LibPc, Lib!Loads(c, pc)
  PROVE  /\ author' \in [Clients -> Request] /\ author'[c].pc = pc /\ author'[c].copy = wf
         /\ author'[c].saw = author[c].saw /\ \A d \in Clients : d # c => author'[d] = author[d]
<1> DEFINE rec == [author[c] EXCEPT !.pc = pc, !.copy = wf]
<1>1. author[c] \in Request /\ wf \in File
  BY DEF LibTypes
<1>2. rec \in Request /\ rec.pc = pc /\ rec.copy = wf /\ rec.saw = author[c].saw
  BY <1>1 DEF Request
<1>3. Lib!Goes(c, rec)
  BY DEF Lib!Loads
<1> QED
  BY <1>2, <1>3, ClientGoes

\* A request that does not launch: it is answered, or it has read the file.
LEMMA FileStep ==
  ASSUME LibInv, NEW c \in Clients, UNCHANGED <<job, start>>, author[c].pc \notin {"launch", "bind"}, wf' \in File,
         glSeen' = glSeen,
         \/ \E saw \in Nat : Lib!Answered(c, saw)
         \/ \E pc \in {"migrate", "migrate again", "delete"} : Lib!Loads(c, pc)
         \/ wf.at = author[c].saw /\ Lib!Loads(c, "update")
  PROVE  LibInv'
<1>0. LibTypes
  BY DEF LibInv
<1>1. /\ author' \in [Clients -> Request] /\ author'[c].pc \notin {"launch", "bind"}
      /\ author'[c].pc = "update" => author'[c].copy.at = author'[c].saw
      /\ \A d \in Clients : d # c => author'[d] = author[d]
  BY <1>0, ClientAnswered, ClientLoads DEF LibPc
<1> QED
  BY <1>1 DEF LibInv, LibTypes, CopyInv, LaunchInv, Lib!GraphLibraryKept, Lib!EditsMerge, Lib!StartedOnce

\* A step of the launch: the lock and the Job change with one client.
LEMMA LaunchStep ==
  ASSUME LibInv, NEW c \in Clients, UNCHANGED wf, job' \in LibJob, start' \in Launches, glSeen' = glSeen,
         author' \in [Clients -> Request], \A d \in Clients : d # c => author'[d] = author[d],
         author[c].pc \in {"launch", "bind"} \/ start.lock = Lib!None, ClientAssumption,
         \/ author'[c].pc = "idle"
         \/ author'[c].pc = "launch" /\ start'.lock = c
         \/ author'[c].pc = "bind" /\ start'.lock = c /\ job'.run = 0
  PROVE  LibInv'
<1>1. \A d \in Clients : d # c => author[d].pc \notin {"launch", "bind"}
  BY DEF LibInv, LaunchInv, ClientAssumption, Lib!None
<1>2. LibTypes'
  BY DEF LibInv, LibTypes
<1>3. CopyInv'
  BY DEF LibInv, CopyInv
<1>4. LaunchInv'
  BY <1>1 DEF LaunchInv
<1> QED
  BY <1>2, <1>3, <1>4 DEF LibInv, Lib!GraphLibraryKept, Lib!EditsMerge, Lib!StartedOnce

LEMMA LibNextInv ==
  ASSUME ClientAssumption, LibInv, [Lib!Next]_Lib!vars
  PROVE  LibInv'
<1>0. /\ LibTypes /\ wf \in File /\ job \in LibJob /\ start \in Launches
      /\ \A c \in Clients : author[c] \in Request
  BY DEF LibInv, LibTypes
<1>1. \A c \in Clients : author[c].saw \in Nat /\ author[c].copy \in File /\ author[c].copy.at \in Nat
                         /\ author[c].payload \in Payloads \cup {0}
  BY <1>0 DEF Request, File
<1>2. wf.at \in Nat /\ [wf EXCEPT !.del = TRUE] \in File /\ [Lib!NoFile EXCEPT !.at = 1] \in File
  BY <1>0 DEF File, Lib!NoFile
<1>3. ASSUME NEW c \in Clients, Lib!CreateWorkflow(c) PROVE LibInv'
  BY <1>2, <1>3, FileStep DEF Lib!CreateWorkflow
<1>4. ASSUME NEW c \in Clients, Lib!GetWorkflow(c) PROVE LibInv'
  BY <1>0, <1>2, <1>4, FileStep DEF Lib!GetWorkflow
<1>5. ASSUME NEW c \in Clients, Lib!normalizeLoadedWorkflow(c) PROVE LibInv'
  <2>1. [author[c].copy EXCEPT !.refs = "ids"] \in File
    BY <1>1 DEF File
  <2> QED
    BY <1>0, <1>1, <1>2, <1>5, <2>1, FileStep DEF Lib!normalizeLoadedWorkflow
<1>6. ASSUME NEW c \in Clients, Lib!UpdateWorkflow(c) PROVE LibInv'
  <2>1. wf' = wf /\ UNCHANGED <<job, start, glSeen>> /\ author[c].pc = "idle"
        /\ (Lib!Answered(c, 0) \/ (wf.at = author[c].saw /\ Lib!Loads(c, "update")))
    BY <1>6 DEF Lib!UpdateWorkflow, Lib!Unchanged
  <2> QED
    BY <1>0, <2>1, FileStep
<1>7. ASSUME NEW c \in Clients, Lib!UpdateIfUnchanged(c) PROVE LibInv'
  <2>1. author[c].pc = "update" /\ UNCHANGED <<job, start>>
    BY <1>7 DEF Lib!UpdateIfUnchanged
  <2>2. CASE ~Lib!Unchanged(author[c].saw)
    BY <1>0, <1>7, <2>1, <2>2, FileStep DEF Lib!UpdateIfUnchanged
  <2>3. CASE Lib!Unchanged(author[c].saw)
    <3>1. PICK refs \in {"ids", author[c].copy.refs} : wf' = [at |-> wf.at + 1, refs |-> refs, del |-> FALSE]
      BY <1>7, <2>3 DEF Lib!UpdateIfUnchanged
    <3>2. refs \in {"ids", "legacy"}
      BY <1>1 DEF File
    <3>3. wf' \in File /\ wf'.at \in Nat
      BY <1>2, <3>1, <3>2 DEF File
    <3>4. wf.at = author[c].copy.at /\ ~wf.del
      BY <2>1, <2>3 DEF Lib!Unchanged, Lib!Present, LibInv, CopyInv
    <3>5. glSeen' = glSeen
      BY <1>7, <2>3, <3>4 DEF Lib!UpdateIfUnchanged
    <3>6. Lib!Answered(c, wf'.at)
      BY <1>7, <2>3 DEF Lib!UpdateIfUnchanged
    <3> QED
      BY <2>1, <3>3, <3>5, <3>6, FileStep
  <2> QED
    BY <2>2, <2>3
<1>8. ASSUME NEW c \in Clients, Lib!DeleteWorkflow(c) PROVE LibInv'
  BY <1>0, <1>8, FileStep DEF Lib!DeleteWorkflow
<1>9. ASSUME NEW c \in Clients, Lib!SoftDelete(c) PROVE LibInv'
  BY <1>0, <1>2, <1>9, FileStep DEF Lib!SoftDelete
<1>10. ASSUME NEW c \in Clients, Lib!lockGraphStart(c) PROVE LibInv'
  <2>1. PICK p \in Payloads : Lib!Goes(c, [author[c] EXCEPT !.pc = "launch", !.payload = p])
    BY <1>10 DEF Lib!lockGraphStart
  <2>2. [author[c] EXCEPT !.pc = "launch", !.payload = p] \in Request
        /\ [author[c] EXCEPT !.pc = "launch", !.payload = p].pc = "launch"
    BY <1>0 DEF Request, LibPc
  <2>3. start' \in Launches /\ start'.lock = c /\ start.lock = Lib!None
    <3>1. start.lock = Lib!None /\ start' = [start EXCEPT !.lock = c, !.asked = @ + 1]
      BY <1>10 DEF Lib!lockGraphStart, Lib!LockFree
    <3>2. start.asked + 1 \in Nat
      BY <1>0 DEF Launches
    <3>3. [start EXCEPT !.lock = c, !.asked = @ + 1] \in Launches
      BY <1>0, <3>2 DEF Launches
    <3>4. start'.lock = c
      BY <1>0, <3>1 DEF Launches
    <3> QED
      BY <3>1, <3>3, <3>4
  <2>4. UNCHANGED <<wf, job, glSeen>>
    BY <1>10 DEF Lib!lockGraphStart
  <2> QED
    BY <1>0, <2>1, <2>2, <2>3, <2>4, ClientGoes, LaunchStep
<1>11. Lib!Unlocked \in Launches
  BY <1>0 DEF Lib!Unlocked, Launches
<1>12. ASSUME NEW c \in Clients, Lib!CreateRunJob(c) PROVE LibInv'
  <2>1. author[c].pc = "launch" /\ UNCHANGED <<wf, glSeen>> /\ start.lock = c
    BY <1>12 DEF Lib!CreateRunJob, LibInv, LaunchInv
  <2>2. CASE Lib!Replied(c) /\ start' = Lib!Unlocked /\ UNCHANGED job
    BY <1>0, <1>1, <1>11, <2>1, <2>2, ClientAnswered, LaunchStep DEF Lib!Replied
  <2>3. ASSUME Lib!Goes(c, [author[c] EXCEPT !.pc = "bind"]), UNCHANGED start, job' \in LibJob, job'.run = 0 PROVE LibInv'
    <3>1. [author[c] EXCEPT !.pc = "bind"] \in Request /\ [author[c] EXCEPT !.pc = "bind"].pc = "bind"
      BY <1>0 DEF Request, LibPc
    <3> QED
      BY <1>0, <2>1, <2>3, <3>1, ClientGoes, LaunchStep
  <2>4. Lib!Made(c) \in LibJob /\ Lib!Made(c).run = 0
    BY <1>1 DEF Lib!Made, Lib!NoJob, LibJob
  <2> QED
    BY <1>0, <1>12, <2>2, <2>3, <2>4 DEF Lib!CreateRunJob
<1>13. ASSUME NEW c \in Clients, Lib!StartGraphRun(c) PROVE LibInv'
  <2>1. author[c].pc = "bind" /\ job.run = 0 /\ UNCHANGED wf /\ glSeen' = glSeen
    BY <1>13 DEF Lib!StartGraphRun, LibInv, LaunchInv
  <2>2. start' \in Launches /\ job' \in LibJob
    <3>1. start.runs + 1 \in Nat
      BY <1>0 DEF Launches
    <3>2. [Lib!Unlocked EXCEPT !.runs = @ + 1] \in Launches
      BY <1>11 DEF Launches
    <3>3. [job EXCEPT !.run = start.runs + 1] \in LibJob
      BY <1>0, <3>1 DEF LibJob
    <3> QED
      BY <1>13, <3>2, <3>3 DEF Lib!StartGraphRun
  <2>3. Lib!Answered(c, author[c].saw)
    BY <1>13 DEF Lib!StartGraphRun, Lib!Replied
  <2> QED
    BY <1>0, <1>1, <2>1, <2>2, <2>3, ClientAnswered, LaunchStep
<1>14. ASSUME NEW c \in Clients, Lib!RollBack(c) PROVE LibInv'
  <2>1. author[c].pc = "bind" /\ job.run = 0 /\ UNCHANGED wf /\ glSeen' = glSeen
    BY <1>14 DEF Lib!RollBack, LibInv, LaunchInv
  <2>2. start' \in Launches
    <3>1. [Lib!Unlocked EXCEPT !.faults = @ + 1] \in Launches
      BY <1>11 DEF Launches
    <3> QED
      BY <1>11, <1>14, <3>1 DEF Lib!RollBack
  <2>3. job' \in LibJob
    <3>1. Lib!NoJob \in LibJob /\ [job EXCEPT !.del = TRUE] \in LibJob
      BY <1>0 DEF LibJob, Lib!NoJob
    <3> QED
      BY <1>0, <1>14, <3>1 DEF Lib!RollBack
  <2>4. Lib!Answered(c, author[c].saw)
    BY <1>14 DEF Lib!RollBack, Lib!Replied
  <2> QED
    BY <1>0, <1>1, <2>1, <2>2, <2>3, <2>4, ClientAnswered, LaunchStep
<1>15. ASSUME NEW c \in Clients, Lib!JobGone(c) PROVE LibInv'
  BY <1>0, <1>1, <1>11, <1>15, ClientAnswered, LaunchStep DEF Lib!JobGone, Lib!Replied
<1>16. CASE Lib!DeleteJob
  <2>1. job' \in LibJob /\ (job.run = 0 => job'.run = 0)
    BY <1>0, <1>16 DEF Lib!DeleteJob, LibJob, Lib!NoJob
  <2>2. UNCHANGED <<wf, author, start, glSeen>>
    BY <1>16 DEF Lib!DeleteJob
  <2> QED
    BY <2>1, <2>2 DEF LibInv, LibTypes, CopyInv, LaunchInv, Lib!GraphLibraryKept, Lib!EditsMerge,
                      Lib!StartedOnce
<1>17. CASE Lib!Crash
  <2>1. UNCHANGED <<wf, job, glSeen>> /\ author' = [c \in Clients |-> [Lib!Idle EXCEPT !.saw = author[c].saw]]
    BY <1>17 DEF Lib!Crash
  <2>2. \A c \in Clients : author'[c] \in Request /\ author'[c].pc = "idle"
    BY <1>1, <2>1 DEF Lib!Idle, Lib!NoFile, Request, File, LibPc
  <2>3. start' \in Launches
    BY <1>11, <1>17 DEF Lib!Crash, Launches
  <2> QED
    BY <2>1, <2>2, <2>3 DEF LibInv, LibTypes, CopyInv, LaunchInv, Lib!GraphLibraryKept, Lib!EditsMerge,
                            Lib!StartedOnce
<1>18. CASE UNCHANGED Lib!vars
  BY <1>18 DEF Lib!vars, LibInv, LibTypes, CopyInv, LaunchInv, Lib!GraphLibraryKept, Lib!EditsMerge,
               Lib!StartedOnce
<1> QED
  BY <1>3, <1>4, <1>5, <1>6, <1>7, <1>8, <1>9, <1>10, <1>12, <1>13, <1>14, <1>15, <1>16, <1>17, <1>18 DEF Lib!Next

\* No edit is lost or brings a deleted workflow back, and a repeated launch starts one run.
THEOREM LibraryHolds ==
  ASSUME ClientAssumption
  PROVE  Lib!Spec => []Lib!GraphLibraryKept
<1>1. Lib!Init => LibInv
  BY LibInitInv
<1>2. LibInv /\ [Lib!Next]_Lib!vars => LibInv'
  BY LibNextInv
<1>3. LibInv => Lib!GraphLibraryKept
  BY DEF LibInv
<1> QED
  BY <1>1, <1>2, <1>3, PTL DEF Lib!Spec
=============================================================================
