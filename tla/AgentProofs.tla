----------------------------- MODULE AgentProofs -----------------------------
(***************************************************************************)
(* What the cache of ACP Agents does have: only a late release closes an   *)
(* Agent that is leased, no Agent and no subprocess leaks, and a Run uses  *)
(* a subprocess of its own runtime that nobody closes under it; for any    *)
(* number of callers, sessions, Agents and subprocesses.                   *)
(*                                                                         *)
(* The count of an Agent's leases is the number of callers that hold one   *)
(* (LeaseInv), so whoever reads zero knows that nobody does.  An Agent     *)
(* that is evicted had none and, being out of the map, gets no more.       *)
(*                                                                         *)
(* The second part is about the other cache of the Agents' runtimes, that  *)
(* of what their probes found (AgentProbe).                                *)
(***************************************************************************)
EXTENDS AgentCache, Integers, SequenceTheorems, FiniteSetTheorems, TLAPS

CONSTANTS Models, Picks, ProbeAsks, ProbeEvents, Users, Managers
VARIABLES env, sess, valid, file, flight, who, cooling, pbSeen,
          agLife, agOwned, agClosed, agUse, agReserved, agMgr, agSeen

\* The other cache of the Agents' runtimes: what their probes found.
Probe == INSTANCE AgentProbe WITH MaxAsks <- ProbeAsks, MaxEvents <- ProbeEvents
\* The gate that an Agent's executions pass, and its deletion.
Gate == INSTANCE AgentGate

NameAssumption == IsFiniteSet(Callers) /\ Callers \cap Keys = {}

LeasePc == {"check", "leased", "slot", "conn", "open", "starting", "track", "session", "made",
            "acquire", "use", "failed", "release", "rebuild"}
AgentPc == LeasePc \cup {"take", "last", "rebuild-last", "deleted"}
CallerPc == AgentPc \cup {"idle", "create", "do", "wait", "delete"}
KeyPc == {"idle", "recheck", "open", "starting", "track", "session", "made", "evict", "failed"}
\* The Agent is of the runtime that was asked for; and so is the subprocess.
MatchedPc == LeasePc \ {"check", "failed", "release", "rebuild"}
ConnPc == {"starting", "track", "session", "made", "use"}

Agent == [key : Keys, type : Types, conn : Nat, cached : BOOLEAN, closed : BOOLEAN,
          refs : Int, running : Int, runner : Callers \cup {0}]
Conn == [type : Types, state : {"starting", "up"}, alive : BOOLEAN, marked : BOOLEAN,
         doomed : BOOLEAN, uses : Int, tracked : BOOLEAN]
Actor == [pc : CallerPc \cup KeyPc, key : Keys \cup {0}, type : Types \cup {0}, agent : Nat,
          new : Nat, conn : Nat, round : Nat, waiters : SUBSET Callers]

TypeInv ==
  /\ agents \in Seq(Agent) /\ conns \in Seq(Conn)
  /\ actor \in [Actors -> Actor]
  /\ maint \in [Types -> {"none", "closing", "exclusive"}] /\ poolClosing \in BOOLEAN

\* An actor's Agent and subprocess exist, and are of its runtime where it relies on it.
RowOK(o, r, as, cs) ==
  /\ r.pc \in (IF o \in Callers THEN CallerPc ELSE KeyPc)
  /\ r.pc # "idle" => r.type \in Types /\ r.key \in Keys
  /\ r.pc \in ConnPc => r.conn \in DOMAIN cs /\ cs[r.conn].type = r.type
  /\ o \in Callers /\ r.pc \in AgentPc => r.agent \in DOMAIN as
  /\ o \in Callers /\ r.pc \in MatchedPc => as[r.agent].type = r.type
  /\ r.pc = "evict" => /\ r.agent \in DOMAIN as /\ r.new \in DOMAIN as
                       /\ ~as[r.agent].cached /\ as[r.agent].refs = 0
ActorInv == \A o \in Actors : RowOK(o, actor[o], agents, conns)

\* Who waits for a flight is at its wait for it.
WaitInv ==
  \A k \in Keys : \A c \in actor[k].waiters : actor[c].pc = "wait" /\ actor[c].key = k

AgentInv ==
  \A a \in DOMAIN agents : /\ agents[a].conn \in DOMAIN conns
                           /\ conns[agents[a].conn].type = agents[a].type

Lessees(a) == {c \in Callers : actor[c].pc \in LeasePc /\ actor[c].agent = a}
LeaseInv == \A a \in DOMAIN agents : agents[a].refs = Cardinality(Lessees(a))

ConnInv ==
  /\ \A n \in DOMAIN conns : conns[n].uses > 0 => ~conns[n].marked
  /\ \A t \in Types : maint[t] # "none" =>
        \A n \in DOMAIN conns : conns[n].type = t /\ conns[n].alive =>
           conns[n].marked /\ maint[t] = "closing"

\* The two parts of NothingLeaks.
TendPc == {"last", "rebuild-last", "deleted", "evict"}
AgentsTended ==
  \A a \in DOMAIN agents :
     \/ agents[a].cached \/ agents[a].refs > 0 \/ agents[a].closed \/ a \in dropping
     \/ \E o \in Actors : actor[o].agent = a /\ actor[o].pc \in TendPc
ConnsTended ==
  \A n \in DOMAIN conns : conns[n].alive =>
     \/ conns[n].tracked /\ ~poolClosing
     \/ conns[n].doomed
     \/ \E o \in Actors : actor[o].conn = n /\ actor[o].pc \in {"starting", "track"}

Inv == /\ TypeInv /\ ActorInv /\ WaitInv /\ AgentInv /\ LeaseInv
       /\ AgentsTended /\ ConnsTended /\ ConnInv

LEMMA TendedIs == NothingLeaks <=> AgentsTended /\ ConnsTended
BY DEF NothingLeaks, AgentsTended, ConnsTended, TendPc

(***************************************************************************)
(* Sequences: what stays one, and of what length.                          *)
(***************************************************************************)
LEMMA SeqIs ==
  ASSUME NEW S, NEW s \in Seq(S)
  PROVE  /\ Len(s) \in Nat /\ DOMAIN s = 1 .. Len(s)
         /\ \A i \in DOMAIN s : s[i] \in S
BY LenProperties, ElementOfSeq

LEMMA Changed ==
  ASSUME NEW S, NEW s \in Seq(S), NEW t, t = [i \in DOMAIN s |-> t[i]],
         \A i \in DOMAIN s : t[i] \in S
  PROVE  t \in Seq(S) /\ DOMAIN t = DOMAIN s
<1>1. Len(s) \in Nat /\ DOMAIN s = 1 .. Len(s)
  BY SeqIs
<1>2. t \in [1 .. Len(s) -> S] /\ DOMAIN t = DOMAIN s
  BY <1>1
<1> QED
  BY <1>1, <1>2

LEMMA Appended ==
  ASSUME NEW S, NEW s \in Seq(S), NEW e \in S
  PROVE  /\ Append(s, e) \in Seq(S)
         /\ DOMAIN Append(s, e) = DOMAIN s \cup {Len(s) + 1}
         /\ Len(s) + 1 \notin DOMAIN s /\ Len(s) + 1 \in Nat
         /\ Append(s, e)[Len(s) + 1] = e
         /\ \A i \in DOMAIN s : Append(s, e)[i] = s[i]
<1>1. Len(s) \in Nat /\ DOMAIN s = 1 .. Len(s)
  BY SeqIs
<1>2. Append(s, e) \in Seq(S) /\ Len(Append(s, e)) = Len(s) + 1
  BY AppendProperties
<1>3. DOMAIN Append(s, e) = 1 .. (Len(s) + 1)
  BY <1>2, SeqIs
<1> QED
  BY <1>1, <1>2, <1>3, AppendProperties

(***************************************************************************)
(* What any step keeps, and what follows for those who take no part in it. *)
(***************************************************************************)
Grows ==
  /\ \A a \in DOMAIN agents :
        /\ a \in DOMAIN agents' /\ agents'[a].type = agents[a].type
        /\ ~agents[a].cached /\ agents[a].refs = 0 =>
              ~agents'[a].cached /\ agents'[a].refs = 0
  /\ \A n \in DOMAIN conns : n \in DOMAIN conns' /\ conns'[n].type = conns[n].type

LEMMA RowStays ==
  ASSUME Grows, NEW o, NEW r, RowOK(o, r, agents, conns)
  PROVE  RowOK(o, r, agents', conns')
BY DEF Grows, RowOK, MatchedPc, AgentPc

LEMMA LeasesStay ==
  ASSUME Inv, Grows,
         \A c \in Callers : /\ actor'[c].pc \in LeasePc <=> actor[c].pc \in LeasePc
                            /\ actor'[c].pc \in LeasePc => actor'[c].agent = actor[c].agent,
         \A a \in DOMAIN agents : agents'[a].refs = agents[a].refs,
         \A a \in DOMAIN agents' \ DOMAIN agents : agents'[a].refs = 0
  PROVE  LeaseInv'
<1> SUFFICES ASSUME NEW a \in DOMAIN agents'
             PROVE  agents'[a].refs = Cardinality(Lessees(a)')
  BY DEF LeaseInv
<1>1. Lessees(a)' = Lessees(a)
  BY DEF Lessees
<1>2. CASE a \in DOMAIN agents
  BY <1>1, <1>2 DEF Inv, LeaseInv
<1>3. CASE a \notin DOMAIN agents
  <2>1. Lessees(a) = {}
    BY <1>3 DEF Lessees, Inv, ActorInv, RowOK, Actors, AgentPc
  <2> QED
    BY <1>1, <1>3, <2>1, FS_EmptySet
<1> QED
  BY <1>2, <1>3

\* A caller comes to hold a lease of a, or gives it back; and the count goes with it.
LEMMA LeaseTaken ==
  ASSUME NameAssumption, Inv, NEW c \in Callers, NEW a \in DOMAIN agents,
         actor[c].pc \notin LeasePc, actor'[c].pc \in LeasePc, actor'[c].agent = a,
         \A d \in Callers \ {c} : actor'[d] = actor[d],
         DOMAIN agents' = DOMAIN agents,
         \A b \in DOMAIN agents : agents'[b].refs = IF b = a THEN agents[b].refs + 1 ELSE agents[b].refs
  PROVE  LeaseInv'
<1> SUFFICES ASSUME NEW b \in DOMAIN agents
             PROVE  agents'[b].refs = Cardinality(Lessees(b)')
  BY DEF LeaseInv
<1>1. agents[b].refs = Cardinality(Lessees(b)) /\ c \notin Lessees(b)
  BY DEF Inv, LeaseInv, Lessees
<1>2. IsFiniteSet(Lessees(b))
  BY FS_Subset DEF NameAssumption, Lessees
<1>3. CASE b = a
  <2>1. Lessees(b)' = Lessees(b) \cup {c}
    BY <1>3 DEF Lessees
  <2>2. Cardinality(Lessees(b) \cup {c}) = Cardinality(Lessees(b)) + 1
    BY <1>1, <1>2, <1>3, FS_AddElement
  <2>3. Cardinality(Lessees(b)') = Cardinality(Lessees(b)) + 1
    BY <2>1, <2>2
  <2> QED
    BY <1>1, <1>3, <2>3
<1>4. CASE b # a
  <2>1. Lessees(b)' = Lessees(b)
    BY <1>4 DEF Lessees
  <2> QED
    BY <1>1, <1>4, <2>1
<1> QED
  BY <1>3, <1>4

LEMMA LeaseGiven ==
  ASSUME NameAssumption, Inv, NEW c \in Callers, NEW a \in DOMAIN agents,
         actor[c].pc \in LeasePc, actor[c].agent = a, actor'[c].pc \notin LeasePc,
         \A d \in Callers \ {c} : actor'[d] = actor[d],
         DOMAIN agents' = DOMAIN agents,
         \A b \in DOMAIN agents : agents'[b].refs = IF b = a THEN agents[b].refs - 1 ELSE agents[b].refs
  PROVE  LeaseInv'
<1> SUFFICES ASSUME NEW b \in DOMAIN agents
             PROVE  agents'[b].refs = Cardinality(Lessees(b)')
  BY DEF LeaseInv
<1>1. agents[b].refs = Cardinality(Lessees(b)) /\ (c \in Lessees(b) <=> b = a)
  BY DEF Inv, LeaseInv, Lessees
<1>2. IsFiniteSet(Lessees(b))
  BY FS_Subset DEF NameAssumption, Lessees
<1>3. CASE b = a
  <2>1. Lessees(b)' = Lessees(b) \ {c}
    BY <1>3 DEF Lessees
  <2>2. Cardinality(Lessees(b) \ {c}) = Cardinality(Lessees(b)) - 1
    BY <1>1, <1>2, <1>3, FS_RemoveElement
  <2>3. Cardinality(Lessees(b)') = Cardinality(Lessees(b)) - 1
    BY <2>1, <2>2
  <2> QED
    BY <1>1, <1>3, <2>3
<1>4. CASE b # a
  <2>1. Lessees(b)' = Lessees(b)
    BY <1>1, <1>4 DEF Lessees
  <2> QED
    BY <1>1, <1>4, <2>1
<1> QED
  BY <1>3, <1>4

\* A count of leases is a number; while a lease is out it is not zero.
LEMMA RefsCount ==
  ASSUME NameAssumption, Inv, NEW a \in DOMAIN agents
  PROVE  /\ agents[a].refs \in Nat
         /\ \A c \in Lessees(a) : agents[a].refs > 0
<1>1. agents[a].refs = Cardinality(Lessees(a)) /\ IsFiniteSet(Lessees(a))
  BY FS_Subset DEF Inv, LeaseInv, NameAssumption, Lessees
<1> QED
  BY <1>1, FS_CardinalityType, FS_EmptySet

(***************************************************************************)
(* One actor takes a step, from another place than its wait for a flight.  *)
(***************************************************************************)
LEMMA OneWalks ==
  ASSUME NameAssumption, Inv, Grows, NEW o \in Actors, NEW r \in Actor,
         actor' = [actor EXCEPT ![o] = r], RowOK(o, r, agents', conns'),
         actor[o].pc # "wait", r.waiters \subseteq actor[o].waiters
  PROVE  /\ actor' \in [Actors -> Actor] /\ ActorInv' /\ WaitInv'
         /\ actor'[o] = r /\ \A p \in Actors \ {o} : actor'[p] = actor[p]
<1>1. actor \in [Actors -> Actor]
  BY DEF Inv, TypeInv
<1>2. /\ actor' \in [Actors -> Actor]
      /\ actor'[o] = r /\ \A p \in Actors \ {o} : actor'[p] = actor[p]
  BY <1>1
<1>3. ActorInv'
  <2> SUFFICES ASSUME NEW p \in Actors PROVE RowOK(p, actor'[p], agents', conns')
    BY DEF ActorInv
  <2>1. RowOK(p, actor[p], agents, conns)
    BY DEF Inv, ActorInv
  <2>2. RowOK(p, actor[p], agents', conns')
    BY <2>1, RowStays
  <2> QED
    BY <1>2, <2>2
<1>4. WaitInv'
  <2> SUFFICES ASSUME NEW k \in Keys, NEW c \in actor'[k].waiters
               PROVE  actor'[c].pc = "wait" /\ actor'[c].key = k
    BY DEF WaitInv
  <2>1. k \in Actors /\ c \in actor[k].waiters
    BY <1>2 DEF Actors
  <2>2. actor[c].pc = "wait" /\ actor[c].key = k /\ c \in Actors
    BY <1>1, <2>1 DEF Inv, WaitInv, Actors, Actor
  <2> QED
    BY <1>2, <2>2
<1> QED
  BY <1>2, <1>3, <1>4

LEMMA AgentsQuiet ==
  ASSUME NameAssumption, Inv, Grows, NEW o \in Actors, NEW r,
         actor'[o] = r, \A p \in Actors \ {o} : actor'[p] = actor[p],
         UNCHANGED <<agents, dropping>>, actor[o].pc \notin TendPc,
         o \in Callers => /\ r.pc \in LeasePc <=> actor[o].pc \in LeasePc
                          /\ r.pc \in LeasePc => r.agent = actor[o].agent
  PROVE  AgentInv' /\ LeaseInv' /\ AgentsTended'
<1>1. AgentInv'
  BY DEF Inv, AgentInv, Grows
<1>2. LeaseInv'
  BY LeasesStay DEF Actors
<1>3. AgentsTended'
  BY DEF Inv, AgentsTended
<1> QED
  BY <1>1, <1>2, <1>3

LEMMA ConnsQuiet ==
  ASSUME Inv, UNCHANGED <<conns, maint, poolClosing>>,
         \A p \in Actors : actor[p].pc \in {"starting", "track"} => actor'[p] = actor[p]
  PROVE  ConnInv' /\ ConnsTended'
BY DEF Inv, ConnInv, ConnsTended

LEMMA SameGrows == UNCHANGED <<agents, conns>> => Grows
BY DEF Grows

\* Only the actor has moved.
LEMMA Walks ==
  ASSUME NameAssumption, Inv, NEW o \in Actors, NEW r \in Actor,
         actor' = [actor EXCEPT ![o] = r], RowOK(o, r, agents, conns),
         actor[o].pc \notin TendPc \cup {"wait", "starting", "track"},
         r.waiters \subseteq actor[o].waiters,
         o \in Callers => /\ r.pc \in LeasePc <=> actor[o].pc \in LeasePc
                          /\ r.pc \in LeasePc => r.agent = actor[o].agent,
         UNCHANGED <<agents, conns, dropping, maint, poolClosing>>
  PROVE  Inv'
<1>1. Grows
  BY SameGrows
<1>2. RowOK(o, r, agents', conns')
  BY <1>1, RowStays
<1>3. /\ actor' \in [Actors -> Actor] /\ ActorInv' /\ WaitInv'
      /\ actor'[o] = r /\ \A p \in Actors \ {o} : actor'[p] = actor[p]
  BY <1>1, <1>2, OneWalks
<1>4. AgentInv' /\ LeaseInv' /\ AgentsTended'
  BY <1>1, <1>3, AgentsQuiet
<1>5. ConnInv' /\ ConnsTended'
  BY <1>3, ConnsQuiet
<1>6. TypeInv'
  BY <1>3 DEF Inv, TypeInv
<1> QED
  BY <1>3, <1>4, <1>5, <1>6 DEF Inv

\* The actor moves and the agents change, as the last four assumptions say.
LEMMA AgentSteps ==
  ASSUME NameAssumption, Inv, Grows, NEW o \in Actors, NEW r \in Actor,
         actor' = [actor EXCEPT ![o] = r], RowOK(o, r, agents', conns'),
         actor[o].pc \notin {"wait", "starting", "track"},
         r.waiters \subseteq actor[o].waiters,
         UNCHANGED <<conns, maint, poolClosing>>,
         agents' \in Seq(Agent), AgentInv', LeaseInv', AgentsTended'
  PROVE  Inv'
<1>3. /\ actor' \in [Actors -> Actor] /\ ActorInv' /\ WaitInv'
      /\ actor'[o] = r /\ \A p \in Actors \ {o} : actor'[p] = actor[p]
  BY OneWalks
<1>5. ConnInv' /\ ConnsTended'
  BY <1>3, ConnsQuiet
<1>6. TypeInv'
  BY <1>3 DEF Inv, TypeInv
<1> QED
  BY <1>3, <1>5, <1>6 DEF Inv

\* The actor moves and the subprocesses change.
LEMMA ConnSteps ==
  ASSUME NameAssumption, Inv, Grows, NEW o \in Actors, NEW r \in Actor,
         actor' = [actor EXCEPT ![o] = r], RowOK(o, r, agents', conns'),
         actor[o].pc \notin TendPc \cup {"wait"}, r.waiters \subseteq actor[o].waiters,
         o \in Callers => /\ r.pc \in LeasePc <=> actor[o].pc \in LeasePc
                          /\ r.pc \in LeasePc => r.agent = actor[o].agent,
         UNCHANGED <<agents, dropping, maint, poolClosing>>,
         conns' \in Seq(Conn), ConnInv', ConnsTended'
  PROVE  Inv'
<1>3. /\ actor' \in [Actors -> Actor] /\ ActorInv' /\ WaitInv'
      /\ actor'[o] = r /\ \A p \in Actors \ {o} : actor'[p] = actor[p]
  BY OneWalks
<1>4. AgentInv' /\ LeaseInv' /\ AgentsTended'
  BY <1>3, AgentsQuiet
<1>6. TypeInv'
  BY <1>3 DEF Inv, TypeInv
<1> QED
  BY <1>3, <1>4, <1>6 DEF Inv

LEMMA Facts ==
  ASSUME Inv, NEW o \in Actors
  PROVE  actor[o] \in Actor /\ RowOK(o, actor[o], agents, conns)
BY DEF Inv, TypeInv, ActorInv

\* What becomes of an Agent when one of its fields changes.
LEMMA Counted ==
  ASSUME NEW b \in Agent, NEW n \in Int, NEW d, d = [b EXCEPT !.refs = n]
  PROVE  /\ d \in Agent /\ d.refs = n /\ d.type = b.type /\ d.conn = b.conn
         /\ d.cached = b.cached /\ d.closed = b.closed
BY DEF Agent

\* One Agent is changed.
LEMMA AgentEdited ==
  ASSUME Inv, NEW a \in DOMAIN agents, NEW b \in Agent, agents' = [agents EXCEPT ![a] = b],
         UNCHANGED conns, b.type = agents[a].type,
         b.conn \in DOMAIN conns, conns[b.conn].type = b.type,
         ~agents[a].cached /\ agents[a].refs = 0 => ~b.cached /\ b.refs = 0
  PROVE  /\ agents' \in Seq(Agent) /\ DOMAIN agents' = DOMAIN agents
         /\ agents'[a] = b /\ \A d \in DOMAIN agents \ {a} : agents'[d] = agents[d]
         /\ Grows /\ AgentInv'
<1>1. agents \in Seq(Agent) /\ \A d \in DOMAIN agents : agents[d] \in Agent
  BY SeqIs DEF Inv, TypeInv
<1>2. /\ agents' = [d \in DOMAIN agents |-> agents'[d]]
      /\ agents'[a] = b /\ \A d \in DOMAIN agents \ {a} : agents'[d] = agents[d]
  OBVIOUS
<1>3. \A d \in DOMAIN agents : agents'[d] \in Agent
  BY <1>1, <1>2
<1>4. agents' \in Seq(Agent) /\ DOMAIN agents' = DOMAIN agents
  BY <1>1, <1>2, <1>3, Changed
<1>5. Grows
  BY <1>2, <1>4 DEF Grows
<1>6. AgentInv'
  BY <1>2, <1>4 DEF Inv, AgentInv
<1> QED
  BY <1>2, <1>4, <1>5, <1>6

LEMMA AgentIs ==
  ASSUME Inv, NEW a \in DOMAIN agents
  PROVE  /\ agents[a] \in Agent /\ a \in Nat
         /\ agents[a].conn \in DOMAIN conns /\ conns[agents[a].conn].type = agents[a].type
BY SeqIs DEF Inv, TypeInv, AgentInv

\* Nobody lets go of an Agent that he had to see to.
LEMMA TendedStay ==
  ASSUME Inv, DOMAIN agents' = DOMAIN agents, UNCHANGED dropping,
         \A p \in Actors : actor[p].pc \in TendPc =>
             actor'[p].pc \in TendPc /\ actor'[p].agent = actor[p].agent,
         \A a \in DOMAIN agents :
            /\ agents[a].cached => agents'[a].cached
            /\ agents[a].refs > 0 => agents'[a].refs > 0
            /\ agents[a].closed => agents'[a].closed
  PROVE  AgentsTended'
<1> SUFFICES ASSUME NEW a \in DOMAIN agents
             PROVE  \/ agents'[a].cached \/ agents'[a].refs > 0 \/ agents'[a].closed
                    \/ a \in dropping
                    \/ \E o \in Actors : actor'[o].agent = a /\ actor'[o].pc \in TendPc
  BY DEF AgentsTended
<1>1. \/ agents[a].cached \/ agents[a].refs > 0 \/ agents[a].closed \/ a \in dropping
      \/ \E o \in Actors : actor[o].agent = a /\ actor[o].pc \in TendPc
  BY DEF Inv, AgentsTended
<1> QED
  BY <1>1

(***************************************************************************)
(* Leasing.                                                                *)
(***************************************************************************)
InMap == {a \in DOMAIN agents : agents[a].cached}

\* A lease is taken of an Agent that is in the map.
LEMMA TakesLease ==
  ASSUME NameAssumption, Inv, NEW c \in Callers, NEW a \in InMap, NEW r \in Actor,
         Ref(a), actor' = [actor EXCEPT ![c] = r],
         actor[c].pc \in {"idle", "create", "take"}, r.pc = "check", r.agent = a,
         r.type \in Types, r.key \in Keys, r.waiters \subseteq actor[c].waiters,
         UNCHANGED <<conns, dropping, maint, poolClosing>>
  PROVE  Inv'
<1>0. PICK n : n = agents[a].refs + 1
  OBVIOUS
<1>b. PICK b : b = [agents[a] EXCEPT !.refs = n]
  OBVIOUS
<1>1. c \in Actors /\ actor \in [Actors -> Actor] /\ a \in DOMAIN agents
  BY DEF Inv, TypeInv, Actors, InMap
<1>2. agents[a] \in Agent /\ agents[a].refs \in Nat
      /\ agents[a].conn \in DOMAIN conns /\ conns[agents[a].conn].type = agents[a].type
  BY <1>1, AgentIs, RefsCount
<1>3. /\ b \in Agent /\ b.refs = agents[a].refs + 1 /\ b.type = agents[a].type
      /\ b.conn = agents[a].conn /\ b.cached = agents[a].cached /\ b.closed = agents[a].closed
  <2>1. n \in Int /\ agents[a] \in Agent
    BY <1>0, <1>2
  <2>2. /\ b \in Agent /\ b.refs = n /\ b.type = agents[a].type
        /\ b.conn = agents[a].conn /\ b.cached = agents[a].cached /\ b.closed = agents[a].closed
    BY <1>b, <2>1, Counted
  <2> QED
    BY <1>0, <2>2
<1>4. agents' = [agents EXCEPT ![a] = b]
  BY <1>0, <1>b DEF Ref
<1>5. /\ agents' \in Seq(Agent) /\ DOMAIN agents' = DOMAIN agents
      /\ agents'[a] = b /\ \A d \in DOMAIN agents \ {a} : agents'[d] = agents[d]
      /\ Grows /\ AgentInv'
  <2>1. ~agents[a].cached => FALSE
    BY DEF InMap
  <2> QED
    BY <1>1, <1>2, <1>3, <1>4, <2>1, AgentEdited
<1>6. RowOK(c, r, agents', conns')
  BY <1>1, <1>5 DEF RowOK, CallerPc, AgentPc, LeasePc, MatchedPc, ConnPc
<1>7. LeaseInv'
  <2>1. actor'[c] = r /\ \A d \in Callers \ {c} : actor'[d] = actor[d]
    BY <1>1 DEF Actors
  <2>2. actor[c].pc \notin LeasePc /\ r.pc \in LeasePc
    BY DEF LeasePc
  <2>3. \A d \in DOMAIN agents : agents'[d].refs = IF d = a THEN agents[d].refs + 1 ELSE agents[d].refs
    BY <1>3, <1>5
  <2> QED
    BY <1>1, <1>5, <2>1, <2>2, <2>3, LeaseTaken
<1>8. AgentsTended'
  <2>0. \A d \in DOMAIN agents :
          /\ agents[d].cached => agents'[d].cached
          /\ agents[d].refs > 0 => agents'[d].refs > 0
          /\ agents[d].closed => agents'[d].closed
    BY <1>2, <1>3, <1>5
  <2>1. \A p \in Actors : actor[p].pc \in TendPc => actor'[p] = actor[p]
    BY <1>1 DEF TendPc
  <2> QED
    BY <1>5, <2>0, <2>1, TendedStay
<1> QED
  BY <1>1, <1>5, <1>6, <1>7, <1>8, AgentSteps

LEMMA AskInv ==
  ASSUME NameAssumption, Inv, NEW c \in Callers, NEW k \in Keys, NEW t \in Types, Ask(c, k, t)
  PROVE  Inv'
<1>1. c \in Actors /\ actor[c] \in Actor
  BY Facts DEF Actors
<1>2. ASSUME NEW a \in Box(k), Ref(a),
             actor' = [actor EXCEPT ![c] = [Free EXCEPT !.pc = "check", !.key = k, !.type = t, !.agent = a]]
      PROVE  Inv'
  <2> DEFINE r == [Free EXCEPT !.pc = "check", !.key = k, !.type = t, !.agent = a]
  <2>1. a \in InMap /\ a \in Nat
    BY <1>2, AgentIs DEF Box, InMap
  <2>2. /\ r \in Actor /\ r.pc = "check" /\ r.agent = a /\ r.key = k /\ r.type = t
        /\ r.waiters = {}
    BY <2>1 DEF Free, Actor, CallerPc, AgentPc, LeasePc
  <2>3. /\ actor[c].pc \in {"idle", "create", "take"} /\ r.waiters \subseteq actor[c].waiters
        /\ actor' = [actor EXCEPT ![c] = r] /\ UNCHANGED <<conns, dropping, maint, poolClosing>>
    BY <1>2, <2>2 DEF Ask, At
  <2> HIDE DEF r
  <2> QED
    BY <1>2, <2>1, <2>2, <2>3, TakesLease
<1>3. ASSUME actor' = [actor EXCEPT ![c] = [Free EXCEPT !.pc = "create", !.key = k, !.type = t, !.round = 1]],
             UNCHANGED agents
      PROVE  Inv'
  <2> DEFINE r == [Free EXCEPT !.pc = "create", !.key = k, !.type = t, !.round = 1]
  <2>1. /\ r \in Actor /\ r.pc = "create" /\ r.key = k /\ r.type = t /\ r.waiters = {}
    BY DEF Free, Actor, CallerPc
  <2>2. actor' = [actor EXCEPT ![c] = r]
    BY <1>3
  <2> HIDE DEF r
  <2>3. RowOK(c, r, agents, conns)
    BY <2>1 DEF RowOK, CallerPc, AgentPc, LeasePc, MatchedPc, ConnPc
  <2>4. /\ actor[c].pc \notin TendPc \cup {"wait", "starting", "track"}
        /\ actor[c].pc \notin LeasePc /\ r.pc \notin LeasePc
    BY <2>1 DEF Ask, At, TendPc, LeasePc
  <2> QED
    BY <1>1, <1>3, <2>1, <2>2, <2>3, <2>4, Walks DEF Ask
<1> QED
  BY <1>2, <1>3 DEF Ask

LEMMA Moved ==
  ASSUME NEW r \in Actor, NEW pc \in CallerPc \cup KeyPc, NEW s, s = [r EXCEPT !.pc = pc]
  PROVE  /\ s \in Actor /\ s.pc = pc /\ s.key = r.key /\ s.type = r.type /\ s.agent = r.agent
         /\ s.new = r.new /\ s.conn = r.conn /\ s.round = r.round /\ s.waiters = r.waiters
BY DEF Actor

\* The actor goes on, and nothing else happens.
LEMMA WalksTo ==
  ASSUME NameAssumption, Inv, NEW o \in Actors, NEW pc \in CallerPc \cup KeyPc, To(o, pc),
         actor[o].pc \notin TendPc \cup {"wait", "starting", "track"},
         RowOK(o, [actor[o] EXCEPT !.pc = pc], agents, conns),
         pc \in LeasePc <=> actor[o].pc \in LeasePc,
         UNCHANGED <<agents, conns, dropping, maint, poolClosing>>
  PROVE  Inv'
<1>0. PICK r : r = [actor[o] EXCEPT !.pc = pc]
  OBVIOUS
<1>1. actor[o] \in Actor
  BY Facts
<1>2. r \in Actor /\ r.pc = pc /\ r.agent = actor[o].agent /\ r.waiters = actor[o].waiters
  BY <1>0, <1>1, Moved
<1>3. actor' = [actor EXCEPT ![o] = r] /\ RowOK(o, r, agents, conns)
  BY <1>0 DEF To
<1> QED
  BY <1>2, <1>3, Walks

\* Several actors move, and nothing else happens.
LEMMA AllWalk ==
  ASSUME NameAssumption, Inv, UNCHANGED <<agents, conns, dropping, maint, poolClosing>>,
         actor' \in [Actors -> Actor], ActorInv', WaitInv',
         \A p \in Actors : actor[p].pc \in TendPc \cup {"starting", "track"} =>
            /\ actor'[p].pc = actor[p].pc /\ actor'[p].agent = actor[p].agent
            /\ actor'[p].conn = actor[p].conn,
         \A c \in Callers : /\ actor'[c].pc \in LeasePc <=> actor[c].pc \in LeasePc
                            /\ actor'[c].pc \in LeasePc => actor'[c].agent = actor[c].agent
  PROVE  Inv'
<1>1. TypeInv' /\ AgentInv' /\ ConnInv'
  BY DEF Inv, TypeInv, AgentInv, ConnInv
<1>2. LeaseInv'
  BY SameGrows, LeasesStay
<1>3. AgentsTended'
  BY TendedStay
<1>4. ConnsTended'
  BY DEF Inv, ConnsTended
<1> QED
  BY <1>1, <1>2, <1>3, <1>4 DEF Inv

LEMMA CheckInv ==
  ASSUME NameAssumption, Inv, NEW c \in Callers, Check(c)
  PROVE  Inv'
<1>1. PICK pc \in {"leased", "release", "rebuild"} :
        To(c, pc) /\ (pc = "leased" => agents[actor[c].agent].type = actor[c].type)
  BY DEF Check, Mismatch
<1>2. c \in Actors /\ actor[c] \in Actor /\ RowOK(c, actor[c], agents, conns) /\ actor[c].pc = "check"
  BY Facts DEF Actors, Check, At
<1>3. RowOK(c, [actor[c] EXCEPT !.pc = pc], agents, conns)
  <2>0. PICK r : r = [actor[c] EXCEPT !.pc = pc]
    OBVIOUS
  <2>1. /\ r.pc = pc /\ r.key = actor[c].key /\ r.type = actor[c].type /\ r.agent = actor[c].agent
    BY <1>2, <2>0, Moved DEF CallerPc, AgentPc, LeasePc
  <2> QED
    BY <1>1, <1>2, <2>0, <2>1 DEF RowOK, CallerPc, AgentPc, LeasePc, MatchedPc, ConnPc
<1>4. /\ pc \in CallerPc /\ pc \in LeasePc /\ actor[c].pc \in LeasePc
      /\ actor[c].pc \notin TendPc \cup {"wait", "starting", "track"}
  BY <1>2 DEF CallerPc, AgentPc, LeasePc, TendPc
<1> QED
  BY <1>1, <1>2, <1>3, <1>4, WalksTo DEF Check

LEMMA CreateHitInv ==
  ASSUME NameAssumption, Inv, NEW c \in Callers, CreateHit(c)
  PROVE  Inv'
<1>1. c \in Actors /\ actor[c] \in Actor /\ RowOK(c, actor[c], agents, conns) /\ actor[c].pc = "create"
  BY Facts DEF Actors, CreateHit, At
<1>2. PICK a \in Box(actor[c].key) :
         Ref(a) /\ actor' = [actor EXCEPT ![c].pc = "check", ![c].agent = a]
  BY DEF CreateHit
<1>3. a \in InMap /\ a \in Nat
  BY AgentIs DEF Box, InMap
<1>4. PICK r : r = [actor[c] EXCEPT !.pc = "check", !.agent = a]
  OBVIOUS
<1>5. /\ r \in Actor /\ r.pc = "check" /\ r.agent = a /\ r.key = actor[c].key
      /\ r.type = actor[c].type /\ r.waiters = actor[c].waiters
  BY <1>1, <1>3, <1>4 DEF Actor, CallerPc, AgentPc, LeasePc
<1>6. actor' = [actor EXCEPT ![c] = r]
  BY <1>1, <1>2, <1>4 DEF Inv, TypeInv
<1>7. r.type \in Types /\ r.key \in Keys
  BY <1>1, <1>5 DEF RowOK
<1>8. UNCHANGED <<conns, dropping, maint, poolClosing>>
  BY DEF CreateHit
<1> QED
  BY <1>1, <1>2, <1>3, <1>5, <1>6, <1>7, <1>8, TakesLease

LEMMA CreateMissInv ==
  ASSUME NameAssumption, Inv, NEW c \in Callers, CreateMiss(c)
  PROVE  Inv'
<1>1. c \in Actors /\ actor[c] \in Actor /\ RowOK(c, actor[c], agents, conns) /\ actor[c].pc = "create"
  BY Facts DEF Actors, CreateMiss, At
<1>2. RowOK(c, [actor[c] EXCEPT !.pc = "do"], agents, conns)
  BY <1>1 DEF RowOK, Actor, CallerPc, AgentPc, LeasePc, MatchedPc, ConnPc
<1>3. /\ "do" \in CallerPc /\ "do" \notin LeasePc /\ actor[c].pc \notin LeasePc
      /\ actor[c].pc \notin TendPc \cup {"wait", "starting", "track"}
  BY <1>1 DEF CallerPc, AgentPc, LeasePc, TendPc
<1> QED
  BY <1>1, <1>2, <1>3, WalksTo DEF CreateMiss

\* A flight that is not there begins, or a flight has one more waiter.
LEMMA DoInv ==
  ASSUME NameAssumption, Inv, NEW c \in Callers, Do(c)
  PROVE  Inv'
<1>1. c \in Actors /\ actor[c] \in Actor /\ RowOK(c, actor[c], agents, conns) /\ actor[c].pc = "do"
  BY Facts DEF Actors, Do, At
<1>2. PICK k : k = actor[c].key
  OBVIOUS
<1>3. k \in Keys /\ k \in Actors /\ k \notin Callers /\ actor[c].type \in Types
  BY <1>1, <1>2 DEF RowOK, Actors, NameAssumption
<1>4. actor[k] \in Actor /\ RowOK(k, actor[k], agents, conns)
  BY <1>3, Facts
<1>5. PICK fl : fl = IF At(k, "idle")
                             THEN [Free EXCEPT !.pc = "recheck", !.key = k, !.type = actor[c].type]
                             ELSE actor[k]
  OBVIOUS
<1>6. PICK f : f = [fl EXCEPT !.waiters = @ \cup {c}]
  OBVIOUS
<1>7. fl \in Actor /\ (~At(k, "idle") => fl = actor[k])
      /\ (At(k, "idle") => fl.waiters = {} /\ fl.pc = "recheck" /\ fl.type = actor[c].type
                           /\ fl.key = k)
  BY <1>3, <1>4, <1>5 DEF Actor, Free, KeyPc
<1>8. /\ f \in Actor /\ f.pc = fl.pc /\ f.key = fl.key /\ f.type = fl.type
      /\ f.agent = fl.agent /\ f.new = fl.new /\ f.conn = fl.conn
      /\ f.waiters = fl.waiters \cup {c}
  BY <1>6, <1>7 DEF Actor
<1>9. PICK r : r = [actor[c] EXCEPT !.pc = "wait"]
  OBVIOUS
<1>10. /\ r \in Actor /\ r.pc = "wait" /\ r.key = k /\ r.type = actor[c].type
  BY <1>1, <1>2, <1>9 DEF Actor, CallerPc
<1>11. actor \in [Actors -> Actor]
  BY DEF Inv, TypeInv
<1>12. actor' = [actor EXCEPT ![c] = r, ![k] = f]
  BY <1>1, <1>2, <1>3, <1>5, <1>6, <1>9, <1>11 DEF Do
<1>13. /\ actor' \in [Actors -> Actor] /\ actor'[c] = r /\ actor'[k] = f
       /\ \A p \in Actors \ {c, k} : actor'[p] = actor[p]
  BY <1>1, <1>3, <1>8, <1>10, <1>11, <1>12
<1>14. UNCHANGED <<agents, conns, dropping, maint, poolClosing>>
  BY DEF Do
<1>15. RowOK(c, r, agents, conns)
  BY <1>3, <1>10 DEF RowOK, CallerPc, AgentPc, LeasePc, MatchedPc, ConnPc
<1>16. RowOK(k, f, agents, conns)
  <2>1. CASE At(k, "idle")
    BY <1>3, <1>7, <1>8, <2>1 DEF RowOK, KeyPc, ConnPc
  <2>2. CASE ~At(k, "idle")
    BY <1>3, <1>4, <1>7, <1>8, <2>2 DEF RowOK
  <2> QED
    BY <2>1, <2>2
<1>17. ActorInv'
  BY <1>13, <1>14, <1>15, <1>16 DEF Inv, ActorInv
<1>18. WaitInv'
  <2> SUFFICES ASSUME NEW l \in Keys, NEW d \in actor'[l].waiters
               PROVE  actor'[d].pc = "wait" /\ actor'[d].key = l
    BY DEF WaitInv
  <2>1. l \in Actors /\ l # c
    BY DEF Actors, NameAssumption
  <2>2. CASE d = c
    <3>1. l = k
      <4> SUFFICES ASSUME l # k PROVE FALSE
        OBVIOUS
      <4>1. d \in actor[l].waiters
        BY <1>13, <2>1
      <4> QED
        BY <1>1, <2>2, <4>1 DEF Inv, WaitInv
    <3> QED
      BY <1>10, <1>13, <2>2, <3>1
  <2>3. CASE d # c
    <3>1. d \in actor[l].waiters
      BY <1>7, <1>8, <1>13, <2>1, <2>3
    <3>2. d \in Callers /\ actor[d].pc = "wait" /\ actor[d].key = l
      BY <1>11, <2>1, <3>1 DEF Inv, WaitInv, Actor
    <3> QED
      BY <1>3, <1>13, <2>3, <3>2 DEF Actors
  <2> QED
    BY <2>2, <2>3
<1>19. \A p \in Actors : actor[p].pc \in TendPc \cup {"starting", "track"} =>
            /\ actor'[p].pc = actor[p].pc /\ actor'[p].agent = actor[p].agent
            /\ actor'[p].conn = actor[p].conn
  BY <1>1, <1>7, <1>8, <1>13 DEF TendPc, At
<1>20. \A d \in Callers : /\ actor'[d].pc \in LeasePc <=> actor[d].pc \in LeasePc
                          /\ actor'[d].pc \in LeasePc => actor'[d].agent = actor[d].agent
  BY <1>1, <1>3, <1>10, <1>13 DEF LeasePc, Actors
<1> QED
  BY <1>13, <1>14, <1>17, <1>18, <1>19, <1>20, AllWalk

\* The caller gives up its wait; the fl goes on.
LEMMA AbandonInv ==
  ASSUME NameAssumption, Inv, NEW c \in Callers, Abandon(c)
  PROVE  Inv'
<1>1. c \in Actors /\ actor[c] \in Actor /\ RowOK(c, actor[c], agents, conns) /\ actor[c].pc = "wait"
  BY Facts DEF Actors, Abandon, At
<1>2. PICK k : k = actor[c].key
  OBVIOUS
<1>3. k \in Keys /\ k \in Actors /\ k \notin Callers
  BY <1>1, <1>2 DEF RowOK, Actors, NameAssumption
<1>4. actor[k] \in Actor /\ RowOK(k, actor[k], agents, conns)
  BY <1>3, Facts
<1>5. PICK f : f = [actor[k] EXCEPT !.waiters = @ \ {c}]
  OBVIOUS
<1>6. /\ f \in Actor /\ f.pc = actor[k].pc /\ f.key = actor[k].key /\ f.type = actor[k].type
      /\ f.agent = actor[k].agent /\ f.new = actor[k].new /\ f.conn = actor[k].conn
      /\ f.waiters = actor[k].waiters \ {c}
  BY <1>4, <1>5 DEF Actor
<1>7. Free \in Actor /\ Free.pc = "idle"
  BY DEF Free, Actor, CallerPc
<1>8. actor \in [Actors -> Actor]
  BY DEF Inv, TypeInv
<1>9. actor' = [actor EXCEPT ![c] = Free, ![k] = f]
  BY <1>1, <1>2, <1>3, <1>5, <1>8 DEF Abandon
<1>10. /\ actor' \in [Actors -> Actor] /\ actor'[c] = Free /\ actor'[k] = f
       /\ \A p \in Actors \ {c, k} : actor'[p] = actor[p]
  BY <1>1, <1>3, <1>6, <1>7, <1>8, <1>9
<1>11. UNCHANGED <<agents, conns, dropping, maint, poolClosing>>
  BY DEF Abandon
<1>12. RowOK(c, Free, agents, conns)
  BY <1>7 DEF RowOK, CallerPc, AgentPc, LeasePc, MatchedPc, ConnPc
<1>13. RowOK(k, f, agents, conns)
  BY <1>3, <1>4, <1>6 DEF RowOK
<1>14. ActorInv'
  BY <1>10, <1>11, <1>12, <1>13 DEF Inv, ActorInv
<1>15. WaitInv'
  <2> SUFFICES ASSUME NEW l \in Keys, NEW d \in actor'[l].waiters
               PROVE  actor'[d].pc = "wait" /\ actor'[d].key = l
    BY DEF WaitInv
  <2>1. l \in Actors /\ l # c
    BY DEF Actors, NameAssumption
  <2>2. d \in actor[l].waiters /\ (l = k => d # c)
    BY <1>6, <1>10, <2>1
  <2>3. d \in Callers /\ actor[d].pc = "wait" /\ actor[d].key = l
    BY <1>8, <2>1, <2>2 DEF Inv, WaitInv, Actor
  <2>4. d # c
    BY <1>2, <2>2, <2>3
  <2> QED
    BY <1>3, <1>10, <2>3, <2>4 DEF Actors
<1>16. \A p \in Actors : actor[p].pc \in TendPc \cup {"starting", "track"} =>
            /\ actor'[p].pc = actor[p].pc /\ actor'[p].agent = actor[p].agent
            /\ actor'[p].conn = actor[p].conn
  BY <1>1, <1>6, <1>10 DEF TendPc
<1>17. \A d \in Callers : /\ actor'[d].pc \in LeasePc <=> actor[d].pc \in LeasePc
                          /\ actor'[d].pc \in LeasePc => actor'[d].agent = actor[d].agent
  BY <1>1, <1>3, <1>7, <1>10 DEF LeasePc, Actors
<1> QED
  BY <1>10, <1>11, <1>14, <1>15, <1>16, <1>17, AllWalk

LEMMA FreeOK == Free \in Actor /\ Free.waiters = {} /\ Free.pc = "idle"
                /\ \A as, cs : \A o \in Actors : RowOK(o, Free, as, cs)
BY DEF Free, Actor, RowOK, CallerPc, KeyPc, AgentPc, LeasePc, MatchedPc, ConnPc

LEMMA TakeInv ==
  ASSUME NameAssumption, Inv, NEW c \in Callers, Take(c)
  PROVE  Inv'
<1>1. c \in Actors /\ actor[c] \in Actor /\ RowOK(c, actor[c], agents, conns) /\ actor[c].pc = "take"
  BY Facts DEF Actors, Take, At
<1>2. UNCHANGED <<conns, dropping, maint, poolClosing>>
  BY DEF Take
<1>3. actor[c].agent \in DOMAIN agents /\ actor[c].type \in Types /\ actor[c].key \in Keys
  BY <1>1 DEF RowOK, AgentPc
<1>4. ASSUME actor[c].agent \in InMap, Ref(actor[c].agent), To(c, "check")
      PROVE  Inv'
  <2>1. PICK r : r = [actor[c] EXCEPT !.pc = "check"]
    OBVIOUS
  <2>2. /\ r \in Actor /\ r.pc = "check" /\ r.agent = actor[c].agent /\ r.key = actor[c].key
        /\ r.type = actor[c].type /\ r.waiters = actor[c].waiters
    BY <1>1, <2>1, Moved DEF CallerPc, AgentPc, LeasePc
  <2>3. actor' = [actor EXCEPT ![c] = r]
    BY <1>4, <2>1 DEF To
  <2> QED
    BY <1>1, <1>2, <1>3, <1>4, <2>2, <2>3, TakesLease
<1>5. ASSUME actor' = [actor EXCEPT ![c] = Free], UNCHANGED agents
      PROVE  Inv'
  <2>1. /\ actor[c].pc \notin TendPc \cup {"wait", "starting", "track"}
        /\ actor[c].pc \notin LeasePc /\ Free.pc \notin LeasePc
    BY <1>1, FreeOK DEF TendPc, LeasePc
  <2> QED
    BY <1>1, <1>2, <1>5, <2>1, FreeOK, Walks
<1> QED
  BY <1>3, <1>4, <1>5 DEF Take, InMap

(***************************************************************************)
(* What the other changes of an Agent do.                                  *)
(***************************************************************************)
LEMMA AgentsEdited ==
  ASSUME Inv, UNCHANGED conns, agents' = [d \in DOMAIN agents |-> agents'[d]],
         \A d \in DOMAIN agents :
            /\ agents'[d] \in Agent /\ agents'[d].type = agents[d].type
            /\ agents'[d].conn = agents[d].conn /\ agents'[d].refs = agents[d].refs
            /\ agents'[d].cached => agents[d].cached
  PROVE  /\ agents' \in Seq(Agent) /\ DOMAIN agents' = DOMAIN agents /\ Grows /\ AgentInv'
<1>1. agents \in Seq(Agent)
  BY DEF Inv, TypeInv
<1>2. agents' \in Seq(Agent) /\ DOMAIN agents' = DOMAIN agents
  BY <1>1, Changed
<1>3. Grows
  BY <1>2 DEF Grows
<1>4. AgentInv'
  BY <1>2 DEF Inv, AgentInv
<1> QED
  BY <1>2, <1>3, <1>4

LEMMA ShutIs ==
  ASSUME Inv, NEW as, agents' = Shut(as), UNCHANGED conns
  PROVE  /\ agents' \in Seq(Agent) /\ DOMAIN agents' = DOMAIN agents /\ Grows /\ AgentInv'
         /\ \A d \in DOMAIN agents :
               /\ agents'[d].refs = agents[d].refs
               /\ agents[d].cached => agents'[d].cached
               /\ agents[d].closed => agents'[d].closed
               /\ d \in as => agents'[d].closed
               /\ d \notin as => agents'[d] = agents[d]
<1>1. \A d \in DOMAIN agents : agents[d] \in Agent
  BY AgentIs
<1>2. /\ agents' = [d \in DOMAIN agents |-> agents'[d]]
      /\ \A d \in DOMAIN agents :
            agents'[d] = IF d \in as THEN [agents[d] EXCEPT !.closed = TRUE] ELSE agents[d]
  BY DEF Shut
<1>3. \A d \in DOMAIN agents :
         /\ agents'[d] \in Agent /\ agents'[d].type = agents[d].type
         /\ agents'[d].conn = agents[d].conn /\ agents'[d].refs = agents[d].refs
         /\ agents'[d].cached = agents[d].cached
         /\ d \in as => agents'[d].closed = TRUE
         /\ d \notin as => agents'[d] = agents[d]
  <2> SUFFICES ASSUME NEW d \in DOMAIN agents
               PROVE  /\ agents'[d] \in Agent /\ agents'[d].type = agents[d].type
                      /\ agents'[d].conn = agents[d].conn /\ agents'[d].refs = agents[d].refs
                      /\ agents'[d].cached = agents[d].cached
                      /\ d \in as => agents'[d].closed = TRUE
                      /\ d \notin as => agents'[d] = agents[d]
    OBVIOUS
  <2>1. CASE d \in as
    BY <1>1, <1>2, <2>1 DEF Agent
  <2>2. CASE d \notin as
    BY <1>1, <1>2, <2>2
  <2> QED
    BY <2>1, <2>2
<1> QED
  BY <1>2, <1>3, AgentsEdited

LEMMA UncachedIs ==
  ASSUME Inv, NEW as \in SUBSET DOMAIN agents, UNCHANGED conns,
         agents' = [d \in DOMAIN agents |-> IF d \in as THEN [agents[d] EXCEPT !.cached = FALSE]
                                            ELSE agents[d]]
  PROVE  /\ agents' \in Seq(Agent) /\ DOMAIN agents' = DOMAIN agents /\ Grows /\ AgentInv'
         /\ \A d \in DOMAIN agents :
               /\ agents'[d].refs = agents[d].refs
               /\ agents[d].closed => agents'[d].closed
               /\ d \in as => ~agents'[d].cached
               /\ d \notin as => agents'[d] = agents[d]
<1>1. \A d \in DOMAIN agents : agents[d] \in Agent
  BY AgentIs
<1>2. /\ agents' = [d \in DOMAIN agents |-> agents'[d]]
      /\ \A d \in DOMAIN agents :
            agents'[d] = IF d \in as THEN [agents[d] EXCEPT !.cached = FALSE] ELSE agents[d]
  OBVIOUS
<1>3. \A d \in DOMAIN agents :
         /\ agents'[d] \in Agent /\ agents'[d].type = agents[d].type
         /\ agents'[d].conn = agents[d].conn /\ agents'[d].refs = agents[d].refs
         /\ agents'[d].closed = agents[d].closed
         /\ d \in as => agents'[d].cached = FALSE
         /\ d \notin as => agents'[d] = agents[d]
  BY <1>1, <1>2 DEF Agent
<1> QED
  BY <1>2, <1>3, AgentsEdited

(***************************************************************************)
(* Releasing and dropping.                                                 *)
(***************************************************************************)
\* Where a Release goes: it sees to the Agent if its lease was the last.
LEMMA ReleaseInv ==
  ASSUME NameAssumption, Inv, NEW c \in Callers, Release(c)
  PROVE  Inv'
<1>1. /\ c \in Actors /\ actor[c] \in Actor /\ RowOK(c, actor[c], agents, conns)
      /\ actor[c].pc \in {"release", "rebuild"} /\ actor \in [Actors -> Actor]
  BY Facts DEF Actors, Release, Inv, TypeInv
<1>2. PICK a : a = actor[c].agent
  OBVIOUS
<1>3. a \in DOMAIN agents /\ actor[c].type \in Types /\ actor[c].key \in Keys
  BY <1>1, <1>2 DEF RowOK, AgentPc, LeasePc
<1>4. /\ agents[a] \in Agent /\ agents[a].refs \in Nat
      /\ agents[a].conn \in DOMAIN conns /\ conns[agents[a].conn].type = agents[a].type
  BY <1>3, AgentIs, RefsCount
<1>5. agents[a].refs > 0
  <2>1. c \in Lessees(a)
    BY <1>1, <1>2 DEF Lessees, LeasePc
  <2> QED
    BY <1>3, <2>1, RefsCount
<1>6. PICK n : n = agents[a].refs - 1
  OBVIOUS
<1>7. PICK b : b = [agents[a] EXCEPT !.refs = n]
  OBVIOUS
<1>8. /\ b \in Agent /\ b.refs = n /\ b.type = agents[a].type /\ b.conn = agents[a].conn
      /\ b.cached = agents[a].cached /\ b.closed = agents[a].closed
  <2>1. n \in Int /\ agents[a] \in Agent
    BY <1>4, <1>6
  <2> QED
    BY <1>7, <2>1, Counted
<1>9. agents' = [agents EXCEPT ![a] = b]
  BY <1>2, <1>6, <1>7 DEF Release
<1>10. UNCHANGED <<conns, dropping, maint, poolClosing>>
  BY DEF Release
<1>11. /\ agents' \in Seq(Agent) /\ DOMAIN agents' = DOMAIN agents
       /\ agents'[a] = b /\ \A d \in DOMAIN agents \ {a} : agents'[d] = agents[d]
       /\ Grows /\ AgentInv'
  <2>1. ~agents[a].cached /\ agents[a].refs = 0 => ~b.cached /\ b.refs = 0
    BY <1>4, <1>5
  <2>2. b.conn \in DOMAIN conns /\ conns[b.conn].type = b.type
    BY <1>4, <1>8
  <2> QED
    BY <1>3, <1>8, <1>9, <1>10, <2>1, <2>2, AgentEdited
<1>12. PICK pc \in {"idle", "delete", "last", "rebuild-last"} :
         /\ To(c, pc)
         /\ agents[a].refs = 1 => pc \in {"last", "rebuild-last"}
  BY <1>1, <1>2 DEF Release, At
<1>13. PICK r : r = [actor[c] EXCEPT !.pc = pc]
  OBVIOUS
<1>14. /\ r \in Actor /\ r.pc = pc /\ r.agent = a /\ r.key = actor[c].key
       /\ r.type = actor[c].type /\ r.waiters = actor[c].waiters
  BY <1>1, <1>2, <1>13, Moved DEF CallerPc, AgentPc, LeasePc
<1>15. actor' = [actor EXCEPT ![c] = r]
  BY <1>12, <1>13 DEF To
<1>16. /\ actor'[c] = r /\ \A p \in Actors \ {c} : actor'[p] = actor[p]
  BY <1>1, <1>14, <1>15
<1>17. RowOK(c, r, agents', conns')
  BY <1>3, <1>11, <1>14 DEF RowOK, CallerPc, AgentPc, LeasePc, MatchedPc, ConnPc
<1>18. LeaseInv'
  <2>1. /\ actor[c].pc \in LeasePc /\ r.pc \notin LeasePc
        /\ \A d \in Callers \ {c} : actor'[d] = actor[d]
    BY <1>1, <1>14, <1>16 DEF LeasePc, Actors
  <2>2. \A d \in DOMAIN agents : agents'[d].refs = IF d = a THEN agents[d].refs - 1 ELSE agents[d].refs
    BY <1>6, <1>8, <1>11
  <2> QED
    BY <1>2, <1>3, <1>11, <1>16, <2>1, <2>2, LeaseGiven
<1>19. AgentsTended'
  <2> SUFFICES ASSUME NEW d \in DOMAIN agents
               PROVE  \/ agents'[d].cached \/ agents'[d].refs > 0 \/ agents'[d].closed
                      \/ d \in dropping
                      \/ \E o \in Actors : actor'[o].agent = d /\ actor'[o].pc \in TendPc
    BY <1>10, <1>11 DEF AgentsTended
  <2>1. CASE d = a /\ agents[a].refs = 1
    BY <1>1, <1>12, <1>14, <1>16, <2>1 DEF TendPc
  <2>2. CASE d = a /\ agents[a].refs # 1
    BY <1>4, <1>5, <1>6, <1>8, <1>11, <2>2
  <2>3. CASE d # a
    <3>1. \/ agents[d].cached \/ agents[d].refs > 0 \/ agents[d].closed \/ d \in dropping
          \/ \E o \in Actors : actor[o].agent = d /\ actor[o].pc \in TendPc
      BY DEF Inv, AgentsTended
    <3>2. agents'[d] = agents[d]
      BY <1>11, <2>3
    <3>3. \A o \in Actors : actor[o].pc \in TendPc => actor'[o] = actor[o]
      BY <1>1, <1>16 DEF TendPc
    <3> QED
      BY <3>1, <3>2, <3>3
  <2> QED
    BY <2>1, <2>2, <2>3
<1>20. actor[c].pc \notin {"wait", "starting", "track"}
  BY <1>1
<1> QED
  BY <1>1, <1>10, <1>11, <1>14, <1>15, <1>17, <1>18, <1>19, <1>20, AgentSteps

\* The caller has seen to the Agent it tended: who goes on from there may leave it.
LEMMA Tended ==
  ASSUME NameAssumption, Inv, NEW c \in Callers, NEW r \in Actor, NEW a \in DOMAIN agents,
         actor[c].pc \in {"last", "rebuild-last", "deleted"}, actor[c].agent = a,
         \/ agents' = agents /\ (agents[a].cached \/ agents[a].refs > 0)
         \/ agents' = Shut({a}),
         actor' = [actor EXCEPT ![c] = r], r.pc \in {"idle", "create", "delete"},
         r.pc # "idle" => r.type \in Types /\ r.key \in Keys,
         r.waiters \subseteq actor[c].waiters, UNCHANGED <<conns, dropping, maint, poolClosing>>
  PROVE  Inv'
<1>1. c \in Actors /\ actor[c] \in Actor /\ actor \in [Actors -> Actor]
  BY Facts DEF Actors, Inv, TypeInv
<1>2. /\ actor'[c] = r /\ \A p \in Actors \ {c} : actor'[p] = actor[p]
  BY <1>1
<1>3. /\ agents' \in Seq(Agent) /\ DOMAIN agents' = DOMAIN agents /\ Grows /\ AgentInv'
      /\ \A d \in DOMAIN agents :
            /\ agents'[d].refs = agents[d].refs
            /\ agents[d].cached => agents'[d].cached
            /\ agents[d].closed => agents'[d].closed
  <2>1. CASE agents' = agents
    BY <2>1, SameGrows DEF Inv, TypeInv, AgentInv
  <2>2. CASE agents' = Shut({a})
    BY <2>2, ShutIs
  <2> QED
    BY <2>1, <2>2
<1>4. agents'[a].cached \/ agents'[a].refs > 0 \/ agents'[a].closed
  <2>1. CASE agents' = agents /\ (agents[a].cached \/ agents[a].refs > 0)
    BY <2>1
  <2>2. CASE agents' = Shut({a})
    BY <2>2, ShutIs
  <2> QED
    BY <2>1, <2>2
<1>5. RowOK(c, r, agents', conns')
  BY <1>1 DEF RowOK, CallerPc, AgentPc, LeasePc, MatchedPc, ConnPc
<1>6. LeaseInv'
  <2>1. \A d \in Callers : /\ actor'[d].pc \in LeasePc <=> actor[d].pc \in LeasePc
                           /\ actor'[d].pc \in LeasePc => actor'[d].agent = actor[d].agent
    BY <1>2 DEF LeasePc, Actors
  <2> QED
    BY <1>3, <2>1, LeasesStay
<1>7. AgentsTended'
  <2> SUFFICES ASSUME NEW d \in DOMAIN agents
               PROVE  \/ agents'[d].cached \/ agents'[d].refs > 0 \/ agents'[d].closed
                      \/ d \in dropping
                      \/ \E o \in Actors : actor'[o].agent = d /\ actor'[o].pc \in TendPc
    BY <1>3 DEF AgentsTended
  <2>1. \/ agents[d].cached \/ agents[d].refs > 0 \/ agents[d].closed \/ d \in dropping
        \/ \E o \in Actors : actor[o].agent = d /\ actor[o].pc \in TendPc
    BY DEF Inv, AgentsTended
  <2>2. CASE d # a
    BY <1>2, <1>3, <2>1, <2>2
  <2> QED
    BY <1>4, <2>2
<1>8. actor[c].pc \notin {"wait", "starting", "track"}
  OBVIOUS
<1> QED
  BY <1>1, <1>3, <1>5, <1>6, <1>7, <1>8, AgentSteps

LEMMA ReleaseLastInv ==
  ASSUME NameAssumption, Inv, NEW c \in Callers, ReleaseLast(c)
  PROVE  Inv'
<1>1. /\ c \in Actors /\ actor[c] \in Actor /\ RowOK(c, actor[c], agents, conns)
      /\ actor[c].pc \in {"last", "rebuild-last"}
  BY Facts DEF Actors, ReleaseLast
<1>2. actor[c].agent \in DOMAIN agents /\ actor[c].type \in Types /\ actor[c].key \in Keys
  BY <1>1 DEF RowOK, AgentPc
<1>3. PICK pc \in {"idle", "delete"} : To(c, pc)
  BY DEF ReleaseLast
<1>4. PICK r : r = [actor[c] EXCEPT !.pc = pc]
  OBVIOUS
<1>5. /\ r \in Actor /\ r.pc = pc /\ r.key = actor[c].key
      /\ r.type = actor[c].type /\ r.waiters = actor[c].waiters
  BY <1>1, <1>4, Moved DEF CallerPc
<1>6. actor' = [actor EXCEPT ![c] = r]
  BY <1>3, <1>4 DEF To
<1>7. /\ \/ agents' = agents /\ (agents[actor[c].agent].cached \/ agents[actor[c].agent].refs > 0)
         \/ agents' = Shut({actor[c].agent})
      /\ UNCHANGED <<conns, dropping, maint, poolClosing>>
  BY DEF ReleaseLast
<1> QED
  BY <1>1, <1>2, <1>5, <1>6, <1>7, Tended

\* Where a rebuild goes on from its deletion.
LEMMA AfterDeleteIs ==
  ASSUME Inv, NEW c \in Callers, actor[c].pc # "idle"
  PROVE  \E r \in Actor : /\ r = AfterDelete(c) /\ r.pc \in {"idle", "create"}
                          /\ r.pc # "idle" => r.type \in Types /\ r.key \in Keys
                          /\ r.waiters \subseteq actor[c].waiters
                          /\ RowOK(c, r, agents, conns)
<1>1. c \in Actors /\ actor[c] \in Actor /\ RowOK(c, actor[c], agents, conns)
  BY Facts DEF Actors
<1>2. CASE actor[c].round = 2
  BY <1>1, <1>2, FreeOK DEF AfterDelete
<1>3. CASE actor[c].round # 2
  <2>0. PICK n : n = actor[c].round + 1
    OBVIOUS
  <2>n. n \in Nat
    BY <1>1, <2>0 DEF Actor
  <2>1. PICK r : r = [actor[c] EXCEPT !.pc = "create", !.agent = 0, !.round = n]
    OBVIOUS
  <2>2. /\ r \in Actor /\ r.pc = "create" /\ r.key = actor[c].key /\ r.type = actor[c].type
        /\ r.waiters = actor[c].waiters
    BY <1>1, <2>n, <2>1 DEF Actor, CallerPc
  <2>3. r = AfterDelete(c)
    BY <1>3, <2>0, <2>1 DEF AfterDelete
  <2>4. RowOK(c, r, agents, conns)
    BY <1>1, <2>2 DEF RowOK, CallerPc, AgentPc, LeasePc, MatchedPc, ConnPc
  <2> QED
    BY <1>1, <2>2, <2>3, <2>4 DEF RowOK
<1> QED
  BY <1>2, <1>3

LEMMA DeletedStaleInv ==
  ASSUME NameAssumption, Inv, NEW c \in Callers, DeletedStale(c)
  PROVE  Inv'
<1>1. /\ c \in Actors /\ actor[c] \in Actor /\ RowOK(c, actor[c], agents, conns)
      /\ actor[c].pc = "deleted"
  BY Facts DEF Actors, DeletedStale, At
<1>2. PICK a \in DOMAIN agents : a = actor[c].agent
  BY <1>1 DEF RowOK, AgentPc
<1>3. PICK r \in Actor : /\ r = AfterDelete(c) /\ r.pc \in {"idle", "create"}
                         /\ r.pc # "idle" => r.type \in Types /\ r.key \in Keys
                         /\ r.waiters \subseteq actor[c].waiters
  BY <1>1, AfterDeleteIs
<1>4. agents[a].refs \in Nat
  BY RefsCount
<1>5. /\ \/ agents' = agents /\ (agents[a].cached \/ agents[a].refs > 0)
         \/ agents' = Shut({a})
      /\ UNCHANGED <<conns, dropping, maint, poolClosing>>
      /\ actor' = [actor EXCEPT ![c] = r]
  <2>1. CASE agents[a].refs = 0
    BY <1>2, <1>3, <2>1 DEF DeletedStale
  <2>2. CASE agents[a].refs # 0
    BY <1>2, <1>3, <1>4, <2>2 DEF DeletedStale
  <2> QED
    BY <2>1, <2>2
<1>6. actor[c].pc \in {"last", "rebuild-last", "deleted"} /\ r.pc \in {"idle", "create", "delete"}
  BY <1>1, <1>3
<1> QED
  BY <1>2, <1>3, <1>5, <1>6, Tended

LEMMA DeleteStaleInv ==
  ASSUME NameAssumption, Inv, NEW c \in Callers, DeleteStale(c)
  PROVE  Inv'
<1>1. /\ c \in Actors /\ actor[c] \in Actor /\ RowOK(c, actor[c], agents, conns)
      /\ actor[c].pc = "delete" /\ actor \in [Actors -> Actor]
  BY Facts DEF Actors, DeleteStale, At, Inv, TypeInv
<1>2. UNCHANGED <<conns, dropping, maint, poolClosing>>
  BY DEF DeleteStale
<1>3. ASSUME NEW a \in Box(actor[c].key), agents' = [agents EXCEPT ![a].cached = FALSE],
             actor' = [actor EXCEPT ![c].pc = "deleted", ![c].agent = a]
      PROVE  Inv'
  <2>1. a \in DOMAIN agents /\ a \in Nat /\ actor[c].type \in Types /\ actor[c].key \in Keys
    BY <1>1, AgentIs DEF Box, RowOK
  <2>2. agents' = [d \in DOMAIN agents |-> IF d \in {a} THEN [agents[d] EXCEPT !.cached = FALSE]
                                            ELSE agents[d]]
    BY <1>3, <2>1
  <2>3. /\ agents' \in Seq(Agent) /\ DOMAIN agents' = DOMAIN agents /\ Grows /\ AgentInv'
        /\ \A d \in DOMAIN agents :
              /\ agents'[d].refs = agents[d].refs
              /\ agents[d].closed => agents'[d].closed
              /\ d \notin {a} => agents'[d] = agents[d]
    BY <1>2, <2>1, <2>2, UncachedIs
  <2>4. PICK r : r = [actor[c] EXCEPT !.pc = "deleted", !.agent = a]
    OBVIOUS
  <2>5. /\ r \in Actor /\ r.pc = "deleted" /\ r.key = actor[c].key /\ r.type = actor[c].type
        /\ r.agent = a /\ r.waiters = actor[c].waiters
    BY <1>1, <2>1, <2>4 DEF Actor, CallerPc, AgentPc
  <2>6. actor' = [actor EXCEPT ![c] = r]
    BY <1>1, <1>3, <2>4
  <2>7. /\ actor'[c] = r /\ \A p \in Actors \ {c} : actor'[p] = actor[p]
    BY <1>1, <2>6
  <2>8. RowOK(c, r, agents', conns')
    BY <1>1, <2>1, <2>3, <2>5 DEF RowOK, CallerPc, AgentPc, LeasePc, MatchedPc, ConnPc
  <2>9. LeaseInv'
    <3>1. \A d \in Callers : /\ actor'[d].pc \in LeasePc <=> actor[d].pc \in LeasePc
                             /\ actor'[d].pc \in LeasePc => actor'[d].agent = actor[d].agent
      BY <1>1, <2>5, <2>7 DEF LeasePc, Actors
    <3> QED
      BY <2>3, <3>1, LeasesStay
  <2>10. AgentsTended'
    <3> SUFFICES ASSUME NEW d \in DOMAIN agents
                 PROVE  \/ agents'[d].cached \/ agents'[d].refs > 0 \/ agents'[d].closed
                        \/ d \in dropping
                        \/ \E o \in Actors : actor'[o].agent = d /\ actor'[o].pc \in TendPc
      BY <1>2, <2>3 DEF AgentsTended
    <3>1. \/ agents[d].cached \/ agents[d].refs > 0 \/ agents[d].closed \/ d \in dropping
          \/ \E o \in Actors : actor[o].agent = d /\ actor[o].pc \in TendPc
      BY DEF Inv, AgentsTended
    <3>2. CASE d # a
      <4>1. \A o \in Actors : actor[o].pc \in TendPc => actor'[o] = actor[o]
        BY <1>1, <2>7 DEF TendPc
      <4>2. agents'[d] = agents[d]
        BY <2>3, <3>2
      <4> QED
        BY <3>1, <4>1, <4>2
    <3>3. CASE d = a
      BY <1>1, <2>5, <2>7, <3>3 DEF TendPc
    <3> QED
      BY <3>2, <3>3
  <2>11. actor[c].pc \notin {"wait", "starting", "track"}
    BY <1>1
  <2> QED
    BY <1>1, <1>2, <2>3, <2>5, <2>6, <2>8, <2>9, <2>10, <2>11, AgentSteps
<1>4. ASSUME actor' = [actor EXCEPT ![c] = AfterDelete(c)], UNCHANGED agents
      PROVE  Inv'
  <2>1. PICK r \in Actor : /\ r = AfterDelete(c) /\ r.pc \in {"idle", "create"}
                           /\ r.waiters \subseteq actor[c].waiters
                           /\ RowOK(c, r, agents, conns)
    BY <1>1, AfterDeleteIs
  <2>2. /\ actor[c].pc \notin TendPc \cup {"wait", "starting", "track"}
        /\ actor[c].pc \notin LeasePc /\ r.pc \notin LeasePc
    BY <1>1, <2>1 DEF TendPc, LeasePc
  <2>3. actor' = [actor EXCEPT ![c] = r]
    BY <1>4, <2>1
  <2> QED
    BY <1>1, <1>2, <1>4, <2>1, <2>2, <2>3, Walks
<1> QED
  BY <1>3, <1>4 DEF DeleteStale

LEMMA LeasingInv ==
  ASSUME NameAssumption, Inv, NEW c \in Callers, Leasing(c)
  PROVE  Inv'
BY AskInv, CheckInv, CreateHitInv, CreateMissInv, DoInv, AbandonInv, TakeInv, ReleaseInv,
   ReleaseLastInv, DeleteStaleInv, DeletedStaleInv DEF Leasing

(***************************************************************************)
(* Subprocesses.                                                           *)
(***************************************************************************)
LEMMA ConnIs ==
  ASSUME Inv, NEW n \in DOMAIN conns
  PROVE  conns[n] \in Conn /\ n \in Nat
BY SeqIs DEF Inv, TypeInv

LEMMA ConnsEdited ==
  ASSUME Inv, UNCHANGED agents, conns' = [n \in DOMAIN conns |-> conns'[n]],
         \A n \in DOMAIN conns : conns'[n] \in Conn /\ conns'[n].type = conns[n].type
  PROVE  conns' \in Seq(Conn) /\ DOMAIN conns' = DOMAIN conns /\ Grows
<1>1. conns \in Seq(Conn)
  BY DEF Inv, TypeInv
<1>2. conns' \in Seq(Conn) /\ DOMAIN conns' = DOMAIN conns
  BY <1>1, Changed
<1> QED
  BY <1>2 DEF Grows

\* An actor changes one subprocess, and starts nothing new.
LEMMA ConnStep ==
  ASSUME NameAssumption, Inv, NEW o \in Actors, NEW r \in Actor, NEW n \in DOMAIN conns,
         NEW d \in Conn, actor' = [actor EXCEPT ![o] = r], conns' = [conns EXCEPT ![n] = d],
         RowOK(o, r, agents, conns),
         actor[o].pc \notin TendPc \cup {"wait"}, r.waiters \subseteq actor[o].waiters,
         o \in Callers => /\ r.pc \in LeasePc <=> actor[o].pc \in LeasePc
                          /\ r.pc \in LeasePc => r.agent = actor[o].agent,
         actor[o].pc \in {"starting", "track"} => actor[o].conn = n,
         d.type = conns[n].type, d.alive => conns[n].alive,
         d.uses > 0 => ~d.marked, conns[n].marked => d.marked,
         d.alive => \/ d.tracked /\ ~poolClosing
                    \/ d.doomed
                    \/ \E p \in Actors : actor'[p].conn = n /\ actor'[p].pc \in {"starting", "track"},
         UNCHANGED <<agents, dropping, maint, poolClosing>>
  PROVE  Inv'
<1>1. /\ conns'[n] = d /\ \A m \in DOMAIN conns \ {n} : conns'[m] = conns[m]
      /\ conns' = [m \in DOMAIN conns |-> conns'[m]]
  OBVIOUS
<1>2. conns' \in Seq(Conn) /\ DOMAIN conns' = DOMAIN conns /\ Grows
  <2>1. \A m \in DOMAIN conns : conns'[m] \in Conn /\ conns'[m].type = conns[m].type
    BY <1>1, ConnIs
  <2> QED
    BY <1>1, <2>1, ConnsEdited
<1>3. RowOK(o, r, agents', conns')
  BY <1>2, RowStays
<1>4. actor \in [Actors -> Actor]
  BY DEF Inv, TypeInv
<1>5. ConnInv'
  <2>1. \A m \in DOMAIN conns : conns'[m].uses > 0 => ~conns'[m].marked
    BY <1>1 DEF Inv, ConnInv
  <2>2. ASSUME NEW t \in Types, maint[t] # "none", NEW m \in DOMAIN conns,
               conns'[m].type = t, conns'[m].alive
        PROVE  conns'[m].marked /\ maint[t] = "closing"
    <3>1. conns[m].type = t /\ conns[m].alive
      BY <1>1, <2>2
    <3>2. conns[m].marked /\ maint[t] = "closing"
      BY <2>2, <3>1 DEF Inv, ConnInv
    <3> QED
      BY <1>1, <3>2
  <2> QED
    BY <1>2, <2>1, <2>2 DEF ConnInv
<1>6. ConnsTended'
  <2> SUFFICES ASSUME NEW m \in DOMAIN conns, conns'[m].alive
               PROVE  \/ conns'[m].tracked /\ ~poolClosing
                      \/ conns'[m].doomed
                      \/ \E p \in Actors : actor'[p].conn = m /\ actor'[p].pc \in {"starting", "track"}
    BY <1>2 DEF ConnsTended
  <2>1. CASE m = n
    BY <1>1, <2>1
  <2>2. CASE m # n
    <3>1. conns'[m] = conns[m]
      BY <1>1, <2>2
    <3>2. \/ conns[m].tracked /\ ~poolClosing
          \/ conns[m].doomed
          \/ \E p \in Actors : actor[p].conn = m /\ actor[p].pc \in {"starting", "track"}
      BY <3>1 DEF Inv, ConnsTended
    <3>3. \A p \in Actors : actor[p].conn = m /\ actor[p].pc \in {"starting", "track"} =>
             actor'[p] = actor[p]
      BY <1>4, <2>2
    <3> QED
      BY <3>1, <3>2, <3>3
  <2> QED
    BY <2>1, <2>2
<1> QED
  BY <1>2, <1>3, <1>5, <1>6, ConnSteps

LEMMA OpenInv ==
  ASSUME NameAssumption, Inv, NEW o \in Actors, Open(o)
  PROVE  Inv'
<1>1. /\ actor[o] \in Actor /\ RowOK(o, actor[o], agents, conns) /\ actor[o].pc = "open"
      /\ actor \in [Actors -> Actor] /\ conns \in Seq(Conn)
  BY Facts DEF Open, At, Inv, TypeInv
<1>2. UNCHANGED <<agents, dropping, maint, poolClosing>>
  BY DEF Open
<1>3. PICK t \in Types : t = actor[o].type
  BY <1>1 DEF RowOK
<1>4. PICK e : e = [type |-> t, state |-> "starting", alive |-> TRUE,
                   marked |-> FALSE, doomed |-> FALSE, uses |-> 0, tracked |-> FALSE]
  OBVIOUS
<1>5. /\ e \in Conn /\ e.type = t /\ e.uses = 0
  BY <1>4 DEF Conn
<1>6. actor[o].pc \notin TendPc \cup {"wait", "starting", "track"} /\ actor[o].pc \in LeasePc
  BY <1>1 DEF TendPc, LeasePc
<1>7. ASSUME maint[t] = "none", conns' = Append(conns, e),
             actor' = [actor EXCEPT ![o].pc = "starting", ![o].conn = Len(conns) + 1]
      PROVE  Inv'
  <2>1. PICK n : n = Len(conns) + 1
    OBVIOUS
  <2>2. /\ conns' \in Seq(Conn) /\ DOMAIN conns' = DOMAIN conns \cup {n}
        /\ n \notin DOMAIN conns /\ n \in Nat /\ conns'[n] = e
        /\ \A m \in DOMAIN conns : conns'[m] = conns[m]
    BY <1>1, <1>5, <1>7, <2>1, Appended
  <2>3. Grows
    BY <1>2, <2>2 DEF Grows
  <2>4. PICK r : r = [actor[o] EXCEPT !.pc = "starting", !.conn = n]
    OBVIOUS
  <2>5. /\ r \in Actor /\ r.pc = "starting" /\ r.conn = n /\ r.key = actor[o].key
        /\ r.type = t /\ r.agent = actor[o].agent /\ r.waiters = actor[o].waiters
    BY <1>1, <1>3, <2>2, <2>4 DEF Actor, KeyPc
  <2>6. actor' = [actor EXCEPT ![o] = r]
    BY <1>1, <1>7, <2>1, <2>4
  <2>7. actor'[o] = r /\ \A p \in Actors \ {o} : actor'[p] = actor[p]
    BY <1>1, <2>6
  <2>8. RowOK(o, r, agents', conns')
    BY <1>1, <1>2, <1>3, <1>5, <2>2, <2>5
       DEF RowOK, CallerPc, KeyPc, AgentPc, LeasePc, MatchedPc, ConnPc
  <2>9. ConnInv'
    <3>1. \A m \in DOMAIN conns' : conns'[m].uses > 0 => ~conns'[m].marked
      BY <1>5, <2>2 DEF Inv, ConnInv
    <3>2. ASSUME NEW u \in Types, maint[u] # "none", NEW m \in DOMAIN conns',
                 conns'[m].type = u, conns'[m].alive
          PROVE  conns'[m].marked /\ maint[u] = "closing"
      <4>1. m \in DOMAIN conns
        BY <1>5, <1>7, <2>2, <3>2
      <4>2. conns'[m] = conns[m]
        BY <2>2, <4>1
      <4>3. conns[m].type = u /\ conns[m].alive
        BY <3>2, <4>2
      <4>4. conns[m].marked /\ maint[u] = "closing"
        BY <3>2, <4>1, <4>3 DEF Inv, ConnInv
      <4> QED
        BY <4>2, <4>4
    <3> QED
      BY <1>2, <3>1, <3>2 DEF ConnInv
  <2>10. ConnsTended'
    <3> SUFFICES ASSUME NEW m \in DOMAIN conns', conns'[m].alive
                 PROVE  \/ conns'[m].tracked /\ ~poolClosing
                        \/ conns'[m].doomed
                        \/ \E p \in Actors : actor'[p].conn = m /\ actor'[p].pc \in {"starting", "track"}
      BY <1>2 DEF ConnsTended
    <3>1. CASE m = n
      BY <2>5, <2>7, <3>1
    <3>2. CASE m # n
      <4>1. conns'[m] = conns[m] /\ m \in DOMAIN conns
        BY <2>2, <3>2
      <4>2. \/ conns[m].tracked /\ ~poolClosing
            \/ conns[m].doomed
            \/ \E p \in Actors : actor[p].conn = m /\ actor[p].pc \in {"starting", "track"}
        BY <4>1 DEF Inv, ConnsTended
      <4>3. \A p \in Actors : actor[p].pc \in {"starting", "track"} => actor'[p] = actor[p]
        BY <1>1, <2>7
      <4> QED
        BY <4>1, <4>2, <4>3
    <3> QED
      BY <3>1, <3>2
  <2>11. actor[o].pc \notin TendPc \cup {"wait"} /\ r.pc \in LeasePc
    BY <1>6, <2>5 DEF LeasePc
  <2> QED
    BY <1>2, <1>6, <2>2, <2>3, <2>5, <2>6, <2>8, <2>9, <2>10, <2>11, ConnSteps
<1>8. ASSUME To(o, "failed"), UNCHANGED conns
      PROVE  Inv'
  <2>1. RowOK(o, [actor[o] EXCEPT !.pc = "failed"], agents, conns)
    BY <1>1 DEF RowOK, Actor, CallerPc, KeyPc, AgentPc, LeasePc, MatchedPc, ConnPc
  <2>2. "failed" \in KeyPc /\ "failed" \in LeasePc
    BY DEF KeyPc, LeasePc
  <2> QED
    BY <1>2, <1>6, <1>8, <2>1, <2>2, WalksTo
<1> QED
  BY <1>3, <1>4, <1>7, <1>8 DEF Open

\* The starter moves on with its subprocess, that it may have seen dead.
LEMMA StarterSteps ==
  ASSUME NameAssumption, Inv, NEW o \in Actors, NEW pc \in {"track", "session", "failed"},
         actor[o].pc \in {"starting", "track", "session"}, To(o, pc), NEW d \in Conn,
         conns' = [conns EXCEPT ![actor[o].conn] = d],
         d.type = conns[actor[o].conn].type, d.uses = conns[actor[o].conn].uses,
         d.marked = conns[actor[o].conn].marked, d.alive => conns[actor[o].conn].alive,
         d.alive => pc = "track" \/ (d.tracked /\ ~poolClosing),
         UNCHANGED <<agents, dropping, maint, poolClosing>>
  PROVE  Inv'
<1>1. /\ actor[o] \in Actor /\ RowOK(o, actor[o], agents, conns) /\ actor \in [Actors -> Actor]
  BY Facts DEF Inv, TypeInv
<1>2. PICK n \in DOMAIN conns : n = actor[o].conn
  BY <1>1 DEF RowOK, ConnPc
<1>3. PICK r : r = [actor[o] EXCEPT !.pc = pc]
  OBVIOUS
<1>4. /\ r \in Actor /\ r.pc = pc /\ r.key = actor[o].key /\ r.type = actor[o].type
      /\ r.agent = actor[o].agent /\ r.conn = actor[o].conn /\ r.waiters = actor[o].waiters
  BY <1>1, <1>3, Moved DEF KeyPc
<1>5. actor' = [actor EXCEPT ![o] = r]
  BY <1>3 DEF To
<1>6. RowOK(o, r, agents, conns)
  BY <1>1, <1>4 DEF RowOK, CallerPc, KeyPc, AgentPc, LeasePc, MatchedPc, ConnPc
<1>7. /\ actor[o].pc \notin TendPc \cup {"wait"}
      /\ actor[o].pc \in LeasePc /\ r.pc \in LeasePc
  BY <1>4 DEF TendPc, LeasePc
<1>8. d.uses > 0 => ~d.marked
  BY <1>2 DEF Inv, ConnInv
<1>9. actor'[o] = r
  BY <1>1, <1>5
<1>10. d.alive => \/ d.tracked /\ ~poolClosing
                  \/ d.doomed
                  \/ \E p \in Actors : actor'[p].conn = n /\ actor'[p].pc \in {"starting", "track"}
  BY <1>2, <1>4, <1>9
<1>11. conns[n].marked => d.marked
  BY <1>2
<1> QED
  BY <1>2, <1>4, <1>5, <1>6, <1>7, <1>8, <1>10, <1>11, ConnStep

LEMMA ConnUp ==
  ASSUME NEW b \in Conn, NEW d, d = [b EXCEPT !.state = "up"]
  PROVE  /\ d \in Conn /\ d.type = b.type /\ d.uses = b.uses /\ d.marked = b.marked
         /\ d.alive => b.alive
BY DEF Conn

LEMMA ConnTracked ==
  ASSUME NEW b \in Conn, NEW d, d = [b EXCEPT !.tracked = TRUE]
  PROVE  /\ d \in Conn /\ d.type = b.type /\ d.uses = b.uses /\ d.marked = b.marked
         /\ d.alive => b.alive
         /\ d.tracked
BY DEF Conn

LEMMA ConnDead ==
  ASSUME NEW b \in Conn, NEW d,
         \/ d = [b EXCEPT !.alive = FALSE]
         \/ d = [b EXCEPT !.state = "up", !.alive = FALSE]
         \/ d = [b EXCEPT !.tracked = FALSE, !.alive = FALSE]
         \/ d = [b EXCEPT !.alive = FALSE, !.doomed = FALSE]
  PROVE  /\ d \in Conn /\ d.type = b.type /\ d.uses = b.uses /\ d.marked = b.marked
         /\ ~d.alive
BY DEF Conn

LEMMA StartedInv ==
  ASSUME NameAssumption, Inv, NEW o \in Actors, Started(o)
  PROVE  Inv'
<1>1. /\ RowOK(o, actor[o], agents, conns) /\ actor[o].pc = "starting" /\ conns \in Seq(Conn)
      /\ UNCHANGED <<agents, dropping, maint, poolClosing>>
  BY Facts DEF Started, At, Inv, TypeInv
<1>2. PICK n \in DOMAIN conns : n = actor[o].conn
  BY <1>1 DEF RowOK, ConnPc
<1>3. PICK b \in Conn : b = conns[n]
  BY ConnIs
<1>4. CASE conns' = [conns EXCEPT ![n].state = "up"] /\ To(o, "track")
  <2>1. PICK d : d = [b EXCEPT !.state = "up"]
    OBVIOUS
  <2>2. /\ d \in Conn /\ d.type = b.type /\ d.uses = b.uses /\ d.marked = b.marked
        /\ d.alive => b.alive
    BY <2>1, ConnUp
  <2>3. conns' = [conns EXCEPT ![n] = d]
    BY <1>3, <1>4, <2>1
  <2> QED
    BY <1>1, <1>2, <1>3, <1>4, <2>2, <2>3, StarterSteps
<1>5. CASE conns' = [conns EXCEPT ![n].state = "up", ![n].alive = FALSE] /\ To(o, "failed")
  <2>1. PICK d : d = [b EXCEPT !.state = "up", !.alive = FALSE]
    OBVIOUS
  <2>2. /\ d \in Conn /\ d.type = b.type /\ d.uses = b.uses /\ d.marked = b.marked
        /\ ~d.alive
    BY <2>1, ConnDead
  <2>3. conns' = [conns EXCEPT ![n] = d]
    BY <1>1, <1>3, <1>5, <2>1
  <2> QED
    BY <1>1, <1>2, <1>3, <1>5, <2>2, <2>3, StarterSteps
<1> QED
  BY <1>2, <1>4, <1>5 DEF Started

LEMMA TrackInv ==
  ASSUME NameAssumption, Inv, NEW o \in Actors, Track(o)
  PROVE  Inv'
<1>1. /\ RowOK(o, actor[o], agents, conns) /\ actor[o].pc = "track" /\ conns \in Seq(Conn)
      /\ UNCHANGED <<agents, dropping, maint, poolClosing>>
  BY Facts DEF Track, At, Inv, TypeInv
<1>2. PICK n \in DOMAIN conns : n = actor[o].conn
  BY <1>1 DEF RowOK, ConnPc
<1>3. PICK b \in Conn : b = conns[n]
  BY ConnIs
<1>4. b.alive \in BOOLEAN
  BY <1>3 DEF Conn
<1>5. CASE poolClosing
  <2>1. PICK d : d = [b EXCEPT !.tracked = FALSE, !.alive = FALSE]
    OBVIOUS
  <2>2. /\ d \in Conn /\ d.type = b.type /\ d.uses = b.uses /\ d.marked = b.marked
        /\ ~d.alive
    BY <2>1, ConnDead
  <2>3. conns' = [conns EXCEPT ![n] = d]
    BY <1>1, <1>2, <1>3, <1>5, <2>1 DEF Track
  <2>4. To(o, "failed")
    BY <1>5 DEF Track
  <2> QED
    BY <1>1, <1>2, <1>3, <2>2, <2>3, <2>4, StarterSteps
<1>6. CASE ~poolClosing
  <2>1. PICK d : d = [b EXCEPT !.tracked = TRUE]
    OBVIOUS
  <2>2. /\ d \in Conn /\ d.type = b.type /\ d.uses = b.uses /\ d.marked = b.marked
        /\ d.alive => b.alive
        /\ d.tracked
    BY <2>1, ConnTracked
  <2>3. [b EXCEPT !.tracked = TRUE, !.alive = b.alive] = d
    BY <2>1 DEF Conn
  <2>4. conns' = [conns EXCEPT ![n].tracked = TRUE, ![n].alive = b.alive]
    BY <1>2, <1>3, <1>4, <1>6 DEF Track
  <2>5. conns' = [conns EXCEPT ![n] = d]
    BY <1>1, <1>3, <2>3, <2>4
  <2>6. To(o, "session")
    BY <1>6 DEF Track
  <2> QED
    BY <1>1, <1>2, <1>3, <1>6, <2>2, <2>5, <2>6, StarterSteps
<1> QED
  BY <1>5, <1>6

LEMMA SessionInv ==
  ASSUME NameAssumption, Inv, NEW o \in Actors, Session(o)
  PROVE  Inv'
<1>1. /\ RowOK(o, actor[o], agents, conns) /\ actor[o].pc = "session" /\ conns \in Seq(Conn)
      /\ UNCHANGED <<agents, dropping, maint, poolClosing>> /\ actor[o] \in Actor
  BY Facts DEF Session, At, Inv, TypeInv
<1>2. PICK n \in DOMAIN conns : n = actor[o].conn
  BY <1>1 DEF RowOK, ConnPc
<1>3. PICK b \in Conn : b = conns[n]
  BY ConnIs
<1>4. CASE To(o, "made") /\ UNCHANGED conns
  <2>1. RowOK(o, [actor[o] EXCEPT !.pc = "made"], agents, conns)
    BY <1>1 DEF RowOK, Actor, CallerPc, KeyPc, AgentPc, LeasePc, MatchedPc, ConnPc
  <2>2. "made" \in KeyPc /\ "made" \in LeasePc /\ actor[o].pc \in LeasePc
        /\ actor[o].pc \notin TendPc \cup {"wait", "starting", "track"}
    BY <1>1 DEF KeyPc, LeasePc, TendPc
  <2> QED
    BY <1>1, <1>4, <2>1, <2>2, WalksTo
<1>5. CASE conns' = [conns EXCEPT ![n].alive = FALSE] /\ To(o, "failed")
  <2>1. PICK d : d = [b EXCEPT !.alive = FALSE]
    OBVIOUS
  <2>2. /\ d \in Conn /\ d.type = b.type /\ d.uses = b.uses /\ d.marked = b.marked
        /\ ~d.alive
    BY <2>1, ConnDead
  <2>3. conns' = [conns EXCEPT ![n] = d]
    BY <1>1, <1>3, <1>5, <2>1
  <2> QED
    BY <1>1, <1>2, <1>3, <1>5, <2>2, <2>3, StarterSteps
<1> QED
  BY <1>2, <1>4, <1>5 DEF Session

LEMMA OpeningInv ==
  ASSUME NameAssumption, Inv, NEW o \in Actors, Opening(o)
  PROVE  Inv'
BY OpenInv, StartedInv, TrackInv, SessionInv DEF Opening

(***************************************************************************)
(* The flight of a session.                                                *)
(***************************************************************************)
\* A flight lands: it is over, and who waited for it goes on.
LEMMA Lands ==
  ASSUME NameAssumption, Inv, NEW k \in Keys, Grows, Land(k, 0) \/ \E a \in DOMAIN agents' \cap Nat : Land(k, a)
  PROVE  /\ actor' \in [Actors -> Actor] /\ ActorInv' /\ WaitInv'
         /\ \A p \in Actors \ {k} : actor[p].pc # "wait" => actor'[p] = actor[p]
         /\ \A c \in Callers : actor[c].pc = "wait" => actor'[c].pc \notin LeasePc
<1>1. PICK a \in (DOMAIN agents' \cap Nat) \cup {0} : Land(k, a)
  OBVIOUS
<1>2. actor \in [Actors -> Actor] /\ k \in Actors
  BY DEF Inv, TypeInv, Actors
<1>3. /\ actor' = [p \in Actors |-> actor'[p]] /\ actor'[k] = Free
      /\ \A p \in Actors \ {k} :
            actor'[p] = IF p \in actor[k].waiters
                        THEN IF a = 0 THEN Free ELSE [actor[p] EXCEPT !.pc = "take", !.agent = a]
                        ELSE actor[p]
  BY <1>1, <1>2 DEF Land
<1>4. ASSUME NEW p \in actor[k].waiters
      PROVE  /\ p \in Callers /\ p \in Actors /\ p # k /\ actor[p].pc = "wait" /\ actor[p].key = k
             /\ actor'[p] \in Actor /\ actor'[p].pc \in {"idle", "take"}
             /\ RowOK(p, actor'[p], agents', conns')
  <2>1. p \in Callers /\ actor[p].pc = "wait" /\ actor[p].key = k
    BY <1>2 DEF Inv, WaitInv, Actor
  <2>2. p \in Actors /\ p # k
    BY <2>1 DEF Actors, NameAssumption
  <2>3. actor[p] \in Actor /\ RowOK(p, actor[p], agents, conns)
    BY <2>2, Facts
  <2>4. CASE a = 0
    <3>1. actor'[p] = Free
      BY <1>3, <2>2, <2>4
    <3>2. RowOK(p, Free, agents', conns')
      BY <2>2, FreeOK
    <3> QED
      BY <2>1, <2>2, <3>1, <3>2, FreeOK
  <2>5. CASE a # 0
    <3>0. a \in Nat
      BY <1>1
    <3>1. PICK r : r = [actor[p] EXCEPT !.pc = "take", !.agent = a]
      OBVIOUS
    <3>2. /\ r \in Actor /\ r.pc = "take" /\ r.agent = a /\ r.type = actor[p].type
          /\ r.key = actor[p].key
      BY <2>3, <3>0, <3>1 DEF Actor, CallerPc, AgentPc
    <3>3. actor'[p] = r
      BY <1>3, <2>2, <2>5, <3>1
    <3>4. RowOK(p, r, agents', conns')
      BY <1>1, <2>1, <2>3, <2>5, <3>2 DEF RowOK, CallerPc, AgentPc, LeasePc, MatchedPc, ConnPc
    <3> QED
      BY <2>1, <2>2, <3>2, <3>3, <3>4
  <2> QED
    BY <2>4, <2>5
<1>5. \A p \in Actors \ {k} : p \notin actor[k].waiters => actor'[p] = actor[p]
  BY <1>3
<1>6. actor' \in [Actors -> Actor]
  <2>1. ASSUME NEW p \in Actors PROVE actor'[p] \in Actor
    <3>1. CASE p = k
      BY <1>3, <3>1, FreeOK
    <3>2. CASE p # k /\ p \notin actor[k].waiters
      BY <1>5, <3>2, Facts
    <3> QED
      BY <1>4, <3>1, <3>2
  <2> QED
    BY <1>3, <2>1
<1>7. ActorInv'
  <2> SUFFICES ASSUME NEW p \in Actors PROVE RowOK(p, actor'[p], agents', conns')
    BY DEF ActorInv
  <2>1. CASE p = k
    BY <1>2, <1>3, <2>1, FreeOK
  <2>2. CASE p # k /\ p \notin actor[k].waiters
    BY <1>5, <2>2, Facts, RowStays
  <2> QED
    BY <1>4, <2>1, <2>2
<1>8. WaitInv'
  <2> SUFFICES ASSUME NEW l \in Keys, NEW d \in actor'[l].waiters
               PROVE  actor'[d].pc = "wait" /\ actor'[d].key = l
    BY DEF WaitInv
  <2>1. l \in Actors /\ l \notin Callers
    BY DEF Actors, NameAssumption
  <2>2. l # k
    BY <1>3, FreeOK
  <2>3. l \notin actor[k].waiters
    BY <1>4, <2>1
  <2>4. d \in actor[l].waiters
    BY <1>5, <2>1, <2>2, <2>3
  <2>5. d \in Callers /\ actor[d].pc = "wait" /\ actor[d].key = l
    BY <1>2, <2>1, <2>4 DEF Inv, WaitInv, Actor
  <2>6. d \notin actor[k].waiters
    BY <1>4, <2>2, <2>5
  <2>7. d # k /\ d \in Actors
    BY <2>5 DEF NameAssumption, Actors
  <2> QED
    BY <1>5, <2>5, <2>6, <2>7
<1>9. \A p \in Actors \ {k} : actor[p].pc # "wait" => actor'[p] = actor[p]
  BY <1>4, <1>5
<1>10. ASSUME NEW c \in Callers, actor[c].pc = "wait" PROVE actor'[c].pc \notin LeasePc
  <2>1. c \in Actors /\ c # k
    BY DEF Actors, NameAssumption
  <2> QED
    BY <1>4, <1>5, <1>10, <2>1 DEF LeasePc
<1> QED
  BY <1>6, <1>7, <1>8, <1>9, <1>10

\* A flight lands and the agents change, as the last four assumptions say.
LEMMA LandSteps ==
  ASSUME NameAssumption, Inv, NEW k \in Keys, Grows,
         Land(k, 0) \/ \E a \in DOMAIN agents' \cap Nat : Land(k, a),
         actor[k].pc \notin {"starting", "track"}, UNCHANGED <<conns, dropping, maint, poolClosing>>,
         agents' \in Seq(Agent), AgentInv',
         \A a \in DOMAIN agents : agents'[a].refs = agents[a].refs,
         \A a \in DOMAIN agents' \ DOMAIN agents :
            agents'[a].refs = 0 /\ (agents'[a].cached \/ agents'[a].closed),
         \A a \in DOMAIN agents :
            /\ agents[a].cached => agents'[a].cached
            /\ agents[a].closed => agents'[a].closed
            /\ actor[k].pc \in TendPc /\ actor[k].agent = a => agents'[a].closed
  PROVE  Inv'
<1>1. /\ actor' \in [Actors -> Actor] /\ ActorInv' /\ WaitInv'
      /\ \A p \in Actors \ {k} : actor[p].pc # "wait" => actor'[p] = actor[p]
      /\ \A c \in Callers : actor[c].pc = "wait" => actor'[c].pc \notin LeasePc
  BY Lands
<1>2. TypeInv'
  BY <1>1 DEF Inv, TypeInv
<1>3. LeaseInv'
  <2>1. \A c \in Callers : /\ actor'[c].pc \in LeasePc <=> actor[c].pc \in LeasePc
                           /\ actor'[c].pc \in LeasePc => actor'[c].agent = actor[c].agent
    BY <1>1 DEF LeasePc, Actors, NameAssumption
  <2> QED
    BY <2>1, LeasesStay
<1>4. AgentsTended'
  <2> SUFFICES ASSUME NEW d \in DOMAIN agents'
               PROVE  \/ agents'[d].cached \/ agents'[d].refs > 0 \/ agents'[d].closed
                      \/ d \in dropping
                      \/ \E o \in Actors : actor'[o].agent = d /\ actor'[o].pc \in TendPc
    BY DEF AgentsTended
  <2>1. CASE d \notin DOMAIN agents
    BY <2>1
  <2>2. CASE d \in DOMAIN agents
    <3>1. \/ agents[d].cached \/ agents[d].refs > 0 \/ agents[d].closed \/ d \in dropping
          \/ \E o \in Actors : actor[o].agent = d /\ actor[o].pc \in TendPc
      BY <2>2 DEF Inv, AgentsTended
    <3>2. CASE agents[d].cached \/ agents[d].closed
      BY <2>2, <3>2
    <3>3. CASE agents[d].refs > 0
      BY <2>2, <3>3
    <3>4. ASSUME NEW o \in Actors, actor[o].agent = d, actor[o].pc \in TendPc
          PROVE  agents'[d].closed \/ (actor'[o].agent = d /\ actor'[o].pc \in TendPc)
      BY <1>1, <2>2, <3>4 DEF TendPc
    <3> QED
      BY <3>1, <3>2, <3>3, <3>4
  <2> QED
    BY <2>1, <2>2
<1>5. ConnsTended'
  <2>1. \A p \in Actors : actor[p].pc \in {"starting", "track"} => actor'[p] = actor[p]
    BY <1>1
  <2> QED
    BY <2>1, ConnsQuiet
<1>6. ConnInv'
  BY DEF Inv, ConnInv
<1> QED
  BY <1>1, <1>2, <1>3, <1>4, <1>5, <1>6 DEF Inv

LEMMA NewIs ==
  ASSUME Inv, NEW k \in Keys, actor[k].pc = "made", NEW new,
         new = New(k, TRUE) \/ new = New(k, FALSE)
  PROVE  /\ new \in Agent /\ new.type = actor[k].type /\ new.conn \in DOMAIN conns
         /\ conns[new.conn].type = new.type
         /\ new.refs = 0 /\ (new.cached \/ new.closed)
<1>1. k \in Actors
  BY DEF Actors
<1>2. /\ actor[k] \in Actor /\ actor[k].type \in Types /\ actor[k].conn \in DOMAIN conns
      /\ conns[actor[k].conn].type = actor[k].type
  BY <1>1, Facts DEF RowOK, ConnPc
<1>3. actor[k].conn \in Nat
  BY <1>2 DEF Actor
<1>4. CASE new = New(k, TRUE)
  BY <1>2, <1>3, <1>4 DEF New, Agent
<1>5. CASE new = New(k, FALSE)
  <2>1. new = [key |-> k, type |-> actor[k].type, conn |-> actor[k].conn, cached |-> FALSE,
               closed |-> TRUE, refs |-> 0, running |-> 0, runner |-> 0]
    BY Zenon, <1>5 DEF New
  <2> QED
    BY <1>2, <1>3, <2>1 DEF Agent
<1> QED
  BY <1>4, <1>5

\* An Agent is built, next to the others of which one may have left the map.
LEMMA Built ==
  ASSUME Inv, NEW new \in Agent, new.conn \in DOMAIN conns, conns[new.conn].type = new.type,
         NEW base \in Seq(Agent), DOMAIN base = DOMAIN agents,
         \A d \in DOMAIN agents :
            /\ base[d].type = agents[d].type /\ base[d].conn = agents[d].conn
            /\ base[d].refs = agents[d].refs
            /\ base[d].cached => agents[d].cached,
         agents' = Append(base, new), UNCHANGED conns
  PROVE  /\ agents' \in Seq(Agent) /\ DOMAIN agents' = DOMAIN agents \cup {Len(agents) + 1}
         /\ Len(agents) + 1 \notin DOMAIN agents /\ Len(agents) + 1 \in Nat
         /\ agents'[Len(agents) + 1] = new
         /\ \A d \in DOMAIN agents : agents'[d] = base[d]
         /\ Grows /\ AgentInv'
<1>1. Len(base) = Len(agents)
  BY SeqIs DEF Inv, TypeInv
<1>2. PICK n : n = Len(agents) + 1
  OBVIOUS
<1>3. /\ agents' \in Seq(Agent) /\ DOMAIN agents' = DOMAIN agents \cup {n}
      /\ n \notin DOMAIN agents /\ n \in Nat /\ agents'[n] = new
      /\ \A d \in DOMAIN agents : agents'[d] = base[d]
  BY <1>1, <1>2, Appended
<1>4. Grows
  BY <1>3 DEF Grows
<1>5. AgentInv'
  BY <1>3 DEF Inv, AgentInv
<1> QED
  BY <1>2, <1>3, <1>4, <1>5

\* The agents when one of them has left the map.
LEMMA Without ==
  ASSUME Inv, NEW v \in DOMAIN agents
  PROVE  \E base \in Seq(Agent) :
            /\ base = [agents EXCEPT ![v].cached = FALSE]
            /\ DOMAIN base = DOMAIN agents
            /\ \A d \in DOMAIN agents :
                  /\ base[d].type = agents[d].type /\ base[d].conn = agents[d].conn
                  /\ base[d].refs = agents[d].refs
                  /\ base[d].cached => agents[d].cached
                  /\ agents[d].closed => base[d].closed
                  /\ d # v => base[d] = agents[d]
            /\ ~base[v].cached
<1>0. PICK base : base = [agents EXCEPT ![v].cached = FALSE]
  OBVIOUS
<1>1. /\ agents \in Seq(Agent) /\ \A d \in DOMAIN agents : agents[d] \in Agent
  BY AgentIs DEF Inv, TypeInv
<1>2. /\ base = [d \in DOMAIN agents |-> base[d]] /\ DOMAIN base = DOMAIN agents
      /\ base[v] = [agents[v] EXCEPT !.cached = FALSE]
      /\ \A d \in DOMAIN agents \ {v} : base[d] = agents[d]
  BY <1>0, <1>1, SeqIs
<1>3. /\ base[v] \in Agent /\ base[v].type = agents[v].type
      /\ base[v].conn = agents[v].conn /\ base[v].refs = agents[v].refs
      /\ base[v].closed = agents[v].closed /\ base[v].cached = FALSE
  BY <1>1, <1>2 DEF Agent
<1>4. base \in Seq(Agent)
  <2>1. base = [agents EXCEPT ![v] = base[v]]
    BY <1>2
  <2>2. v \in 1 .. Len(agents) /\ base[v] \in Agent
    BY <1>1, <1>3, SeqIs
  <2> QED
    BY ONLY <1>1, <2>1, <2>2, ExceptSeq
<1> QED
  BY <1>0, <1>2, <1>3, <1>4

LEMMA RecheckInv ==
  ASSUME NameAssumption, Inv, NEW k \in Keys, Recheck(k)
  PROVE  Inv'
<1>1. /\ k \in Actors /\ k \notin Callers /\ actor[k] \in Actor /\ actor[k].pc = "recheck"
      /\ RowOK(k, actor[k], agents, conns)
      /\ UNCHANGED <<agents, conns, dropping, maint, poolClosing>>
  BY Facts DEF Recheck, At, Actors, NameAssumption
<1>2. CASE \E a \in Box(k) : Land(k, a)
  <2>1. PICK a \in Box(k) : Land(k, a)
    BY <1>2
  <2>2. a \in DOMAIN agents' \cap Nat
    BY <1>1, AgentIs DEF Box
  <2>3. agents' \in Seq(Agent) /\ AgentInv' /\ Grows
    BY <1>1, SameGrows DEF Inv, TypeInv, AgentInv
  <2>4. actor[k].pc \notin TendPc
    BY <1>1 DEF TendPc
  <2> QED
    BY <1>1, <2>1, <2>2, <2>3, <2>4, LandSteps
<1>3. CASE To(k, "open")
  <2>1. RowOK(k, [actor[k] EXCEPT !.pc = "open"], agents, conns)
    BY <1>1 DEF RowOK, Actor, KeyPc, ConnPc
  <2>2. PICK r : r = [actor[k] EXCEPT !.pc = "open"]
    OBVIOUS
  <2>3. r \in Actor /\ r.waiters = actor[k].waiters
    BY <1>1, <2>2, Moved DEF KeyPc
  <2>4. actor' = [actor EXCEPT ![k] = r]
    BY <1>3, <2>2 DEF To
  <2>5. actor[k].pc \notin TendPc \cup {"wait", "starting", "track"}
    BY <1>1 DEF TendPc
  <2> QED
    BY <1>1, <2>1, <2>2, <2>3, <2>4, <2>5, Walks
<1> QED
  BY <1>2, <1>3 DEF Recheck

LEMMA InsertInv ==
  ASSUME NameAssumption, Inv, NEW k \in Keys, Insert(k) \/ NoRoom(k)
  PROVE  Inv'
<1>1. /\ actor[k].pc = "made" /\ agents \in Seq(Agent)
      /\ UNCHANGED <<conns, dropping, maint, poolClosing>>
  BY DEF Insert, NoRoom, At, Inv, TypeInv
<1>2. PICK new : /\ new = New(k, TRUE) \/ new = New(k, FALSE)
                 /\ agents' = Append(agents, new)
                 /\ Land(k, 0) \/ Land(k, Len(agents) + 1)
  <2>1. CASE Insert(k)
    BY <2>1 DEF Insert
  <2>2. CASE NoRoom(k)
    BY <2>2 DEF NoRoom
  <2> QED
    BY <2>1, <2>2
<1>n. /\ new \in Agent /\ new.conn \in DOMAIN conns /\ conns[new.conn].type = new.type
      /\ new.refs = 0 /\ (new.cached \/ new.closed)
  BY <1>1, <1>2, NewIs
<1>4. /\ agents' \in Seq(Agent) /\ DOMAIN agents' = DOMAIN agents \cup {Len(agents) + 1}
      /\ Len(agents) + 1 \notin DOMAIN agents /\ Len(agents) + 1 \in Nat
      /\ agents'[Len(agents) + 1] = new
      /\ \A d \in DOMAIN agents : agents'[d] = agents[d]
      /\ Grows /\ AgentInv'
  BY <1>1, <1>2, <1>n, Built
<1>5. \A a \in DOMAIN agents' \ DOMAIN agents :
         agents'[a].refs = 0 /\ (agents'[a].cached \/ agents'[a].closed)
  BY <1>n, <1>4
<1>6. actor[k].pc \notin TendPc \cup {"starting", "track"}
  BY <1>1 DEF TendPc
<1>7. Land(k, 0) \/ \E a \in DOMAIN agents' \cap Nat : Land(k, a)
  BY <1>2, <1>4
<1>8. \A a \in DOMAIN agents :
         /\ agents'[a].refs = agents[a].refs
         /\ agents[a].cached => agents'[a].cached
         /\ agents[a].closed => agents'[a].closed
         /\ actor[k].pc \in TendPc /\ actor[k].agent = a => agents'[a].closed
  BY <1>4, <1>6
<1> QED
  BY <1>1, <1>4, <1>5, <1>6, <1>7, <1>8, LandSteps

LEMMA EvictInv ==
  ASSUME NameAssumption, Inv, NEW k \in Keys, Evict(k)
  PROVE  Inv'
<1>1. /\ k \in Actors /\ k \notin Callers /\ actor[k] \in Actor /\ actor[k].pc = "made"
      /\ RowOK(k, actor[k], agents, conns) /\ actor \in [Actors -> Actor]
      /\ UNCHANGED <<conns, dropping, maint, poolClosing>> /\ agents \in Seq(Agent)
  BY Facts DEF Evict, At, Actors, NameAssumption, Inv, TypeInv
<1>2. PICK v \in Idlers :
         /\ agents' = Append([agents EXCEPT ![v].cached = FALSE], New(k, TRUE))
         /\ actor' = [actor EXCEPT ![k].pc = "evict", ![k].agent = v, ![k].new = Len(agents) + 1]
  BY DEF Evict
<1>a. PICK new : new = New(k, TRUE)
  OBVIOUS
<1>n. /\ new \in Agent /\ new.conn \in DOMAIN conns /\ conns[new.conn].type = new.type
      /\ new.refs = 0 /\ (new.cached \/ new.closed)
  BY <1>1, <1>a, NewIs
<1>3. v \in DOMAIN agents /\ v \in Nat /\ agents[v].refs = 0
  BY AgentIs DEF Idlers
<1>4. PICK n : n = Len(agents) + 1
  OBVIOUS
<1>5. PICK base \in Seq(Agent) :
         /\ base = [agents EXCEPT ![v].cached = FALSE]
         /\ DOMAIN base = DOMAIN agents
         /\ \A d \in DOMAIN agents :
               /\ base[d].type = agents[d].type /\ base[d].conn = agents[d].conn
               /\ base[d].refs = agents[d].refs
               /\ base[d].cached => agents[d].cached
               /\ agents[d].closed => base[d].closed
               /\ d # v => base[d] = agents[d]
         /\ ~base[v].cached
  BY <1>3, Without
<1>6. base \in Seq(Agent)
  OBVIOUS
<1>7. /\ agents' \in Seq(Agent) /\ DOMAIN agents' = DOMAIN agents \cup {n}
      /\ n \notin DOMAIN agents /\ n \in Nat
      /\ agents'[n] = new
      /\ \A d \in DOMAIN agents : agents'[d] = base[d]
      /\ Grows /\ AgentInv'
  <2>1. agents' = Append(base, new) /\ UNCHANGED conns
    BY <1>1, <1>2, <1>a, <1>5
  <2>2. /\ DOMAIN base = DOMAIN agents
        /\ \A d \in DOMAIN agents :
              /\ base[d].type = agents[d].type /\ base[d].conn = agents[d].conn
              /\ base[d].refs = agents[d].refs
              /\ base[d].cached => agents[d].cached
    BY <1>5
  <2>3. new \in Agent /\ new.conn \in DOMAIN conns /\ conns[new.conn].type = new.type
    BY <1>n
  <2>4. /\ agents' \in Seq(Agent) /\ DOMAIN agents' = DOMAIN agents \cup {Len(agents) + 1}
        /\ Len(agents) + 1 \notin DOMAIN agents /\ Len(agents) + 1 \in Nat
        /\ agents'[Len(agents) + 1] = new
        /\ \A d \in DOMAIN agents : agents'[d] = base[d]
        /\ Grows /\ AgentInv'
    BY ONLY Inv, base \in Seq(Agent), <2>1, <2>2, <2>3, Built
  <2> QED
    BY <1>4, <2>4
<1>8. PICK r : r = [actor[k] EXCEPT !.pc = "evict", !.agent = v, !.new = n]
  OBVIOUS
<1>9. /\ r \in Actor /\ r.pc = "evict" /\ r.key = actor[k].key /\ r.type = actor[k].type
      /\ r.agent = v /\ r.new = n /\ r.waiters = actor[k].waiters
  BY <1>1, <1>3, <1>7, <1>8 DEF Actor, KeyPc
<1>10. actor' = [actor EXCEPT ![k] = r]
  BY <1>1, <1>2, <1>4, <1>8
<1>11. /\ actor'[k] = r /\ \A p \in Actors \ {k} : actor'[p] = actor[p]
  BY <1>1, <1>10
<1>12. RowOK(k, r, agents', conns')
  BY <1>1, <1>3, <1>5, <1>6, <1>7, <1>9 DEF RowOK, KeyPc, ConnPc
<1>13. LeaseInv'
  <2>1. \A c \in Callers : actor'[c] = actor[c]
    BY <1>1, <1>11 DEF Actors
  <2>2. \A a \in DOMAIN agents' \ DOMAIN agents : agents'[a].refs = 0
    BY <1>7, <1>n
  <2> QED
    BY <1>5, <1>6, <1>7, <2>1, <2>2, LeasesStay
<1>14. AgentsTended'
  <2> SUFFICES ASSUME NEW d \in DOMAIN agents'
               PROVE  \/ agents'[d].cached \/ agents'[d].refs > 0 \/ agents'[d].closed
                      \/ d \in dropping
                      \/ \E o \in Actors : actor'[o].agent = d /\ actor'[o].pc \in TendPc
    BY <1>1 DEF AgentsTended
  <2>1. CASE d = n
    BY <1>7, <1>n, <2>1
  <2>2. CASE d = v
    BY <1>1, <1>9, <1>11, <2>2 DEF TendPc
  <2>3. CASE d # n /\ d # v
    <3>1. d \in DOMAIN agents /\ agents'[d] = agents[d]
      BY <1>5, <1>6, <1>7, <2>3
    <3>2. \/ agents[d].cached \/ agents[d].refs > 0 \/ agents[d].closed \/ d \in dropping
          \/ \E o \in Actors : actor[o].agent = d /\ actor[o].pc \in TendPc
      BY <3>1 DEF Inv, AgentsTended
    <3>3. \A o \in Actors : actor[o].pc \in TendPc => actor'[o] = actor[o]
      BY <1>1, <1>11 DEF TendPc
    <3> QED
      BY <3>1, <3>2, <3>3
  <2> QED
    BY <2>1, <2>2, <2>3
<1>15. actor[k].pc \notin {"wait", "starting", "track"}
  BY <1>1
<1> QED
  BY <1>1, <1>7, <1>9, <1>10, <1>12, <1>13, <1>14, <1>15, AgentSteps

LEMMA CloseEvictedInv ==
  ASSUME NameAssumption, Inv, NEW k \in Keys, CloseEvicted(k)
  PROVE  Inv'
<1>1. /\ k \in Actors /\ actor[k] \in Actor /\ actor[k].pc = "evict"
      /\ RowOK(k, actor[k], agents, conns)
      /\ UNCHANGED <<conns, dropping, maint, poolClosing>>
  BY Facts DEF CloseEvicted, At, Actors
<1>2. agents' = Shut({actor[k].agent}) /\ Land(k, actor[k].new)
  BY DEF CloseEvicted
<1>3. /\ agents' \in Seq(Agent) /\ DOMAIN agents' = DOMAIN agents /\ Grows /\ AgentInv'
      /\ \A d \in DOMAIN agents :
            /\ agents'[d].refs = agents[d].refs
            /\ agents[d].cached => agents'[d].cached
            /\ agents[d].closed => agents'[d].closed
            /\ d \in {actor[k].agent} => agents'[d].closed
  BY <1>1, <1>2, ShutIs
<1>4. actor[k].new \in DOMAIN agents' \cap Nat
  BY <1>1, <1>3, AgentIs DEF RowOK
<1> QED
  BY <1>1, <1>2, <1>3, <1>4, LandSteps

LEMMA FlightFailsInv ==
  ASSUME NameAssumption, Inv, NEW k \in Keys, FlightFails(k)
  PROVE  Inv'
<1>1. /\ actor[k].pc = "failed" /\ Land(k, 0)
      /\ UNCHANGED <<agents, conns, dropping, maint, poolClosing>>
  BY DEF FlightFails, At
<1>2. agents' \in Seq(Agent) /\ AgentInv' /\ Grows
  BY <1>1, SameGrows DEF Inv, TypeInv, AgentInv
<1>3. actor[k].pc \notin TendPc \cup {"starting", "track"}
  BY <1>1 DEF TendPc
<1> QED
  BY <1>1, <1>2, <1>3, LandSteps

LEMMA FlightInv ==
  ASSUME NameAssumption, Inv, NEW k \in Keys, Flight(k)
  PROVE  Inv'
BY RecheckInv, EvictInv, InsertInv, CloseEvictedInv, FlightFailsInv DEF Flight

(***************************************************************************)
(* A Run.                                                                  *)
(***************************************************************************)
\* The Run of a lessee: its Agent keeps its place in the cache and its leases.
LEMMA RunSteps ==
  ASSUME NameAssumption, Inv, NEW c \in Callers, NEW r \in Actor, NEW a \in DOMAIN agents,
         NEW b \in Agent, agents' = [agents EXCEPT ![a] = b], actor' = [actor EXCEPT ![c] = r],
         b.type = agents[a].type, b.conn \in DOMAIN conns, conns[b.conn].type = b.type,
         b.refs = agents[a].refs, agents[a].closed => b.closed,
         agents[a].cached => b.cached, b.cached => agents[a].cached,
         actor[c].pc \in LeasePc, r.pc \in LeasePc, actor[c].agent = a, r.agent = a,
         r.waiters \subseteq actor[c].waiters, RowOK(c, r, agents, conns),
         UNCHANGED <<dropping, maint, poolClosing>>,
         conns' \in Seq(Conn), DOMAIN conns' = DOMAIN conns,
         \A n \in DOMAIN conns : conns'[n].type = conns[n].type,
         ConnInv', ConnsTended'
  PROVE  Inv'
<1>1. /\ agents \in Seq(Agent) /\ \A d \in DOMAIN agents : agents[d] \in Agent
      /\ c \in Actors /\ actor \in [Actors -> Actor]
  BY SeqIs DEF Inv, TypeInv, Actors
<1>2. /\ agents' = [d \in DOMAIN agents |-> agents'[d]]
      /\ agents'[a] = b /\ \A d \in DOMAIN agents \ {a} : agents'[d] = agents[d]
  OBVIOUS
<1>3. agents' \in Seq(Agent) /\ DOMAIN agents' = DOMAIN agents
  <2>1. \A d \in DOMAIN agents : agents'[d] \in Agent
    BY <1>1, <1>2
  <2> QED
    BY <1>1, <1>2, <2>1, Changed
<1>4. Grows
  BY <1>2, <1>3 DEF Grows
<1>5. AgentInv'
  BY <1>2, <1>3 DEF Inv, AgentInv
<1>6. actor'[c] = r /\ \A p \in Actors \ {c} : actor'[p] = actor[p]
  BY <1>1
<1>7. RowOK(c, r, agents', conns')
  BY <1>4, RowStays
<1>8. LeaseInv'
  <2>1. \A d \in Callers : /\ actor'[d].pc \in LeasePc <=> actor[d].pc \in LeasePc
                           /\ actor'[d].pc \in LeasePc => actor'[d].agent = actor[d].agent
    BY <1>6 DEF Actors
  <2>2. \A d \in DOMAIN agents : agents'[d].refs = agents[d].refs
    BY <1>2
  <2> QED
    BY <1>3, <1>4, <2>1, <2>2, LeasesStay
<1>9. AgentsTended'
  <2>1. \A p \in Actors : actor[p].pc \in TendPc => actor'[p] = actor[p]
    BY <1>6 DEF TendPc, LeasePc
  <2>2. \A d \in DOMAIN agents :
          /\ agents[d].cached => agents'[d].cached
          /\ agents[d].refs > 0 => agents'[d].refs > 0
          /\ agents[d].closed => agents'[d].closed
    BY <1>2
  <2> QED
    BY <1>3, <2>1, <2>2, TendedStay
<1>10. actor' \in [Actors -> Actor] /\ ActorInv' /\ WaitInv'
  <2>1. actor[c].pc # "wait"
    BY DEF LeasePc
  <2> QED
    BY <1>1, <1>4, <1>7, <2>1, OneWalks
<1>11. TypeInv'
  BY <1>3, <1>10 DEF Inv, TypeInv
<1> QED
  BY <1>5, <1>8, <1>9, <1>10, <1>11 DEF Inv

\* The same, when no subprocess changes.
LEMMA RunStepsQuietly ==
  ASSUME NameAssumption, Inv, NEW c \in Callers, NEW r \in Actor, NEW a \in DOMAIN agents,
         NEW b \in Agent, agents' = [agents EXCEPT ![a] = b], actor' = [actor EXCEPT ![c] = r],
         b.type = agents[a].type, b.conn \in DOMAIN conns, conns[b.conn].type = b.type,
         b.refs = agents[a].refs, agents[a].closed => b.closed,
         agents[a].cached => b.cached, b.cached => agents[a].cached,
         actor[c].pc \in LeasePc, r.pc \in LeasePc, actor[c].agent = a, r.agent = a,
         r.waiters \subseteq actor[c].waiters, RowOK(c, r, agents, conns),
         actor[c].pc \notin {"starting", "track"},
         UNCHANGED <<conns, dropping, maint, poolClosing>>
  PROVE  Inv'
<1>1. conns' \in Seq(Conn) /\ actor \in [Actors -> Actor]
  BY DEF Inv, TypeInv
<1>2. \A p \in Actors : actor[p].pc \in {"starting", "track"} => actor'[p] = actor[p]
  BY <1>1
<1>3. ConnInv' /\ ConnsTended'
  BY <1>2, ConnsQuiet
<1> QED
  BY <1>1, <1>3, RunSteps

\* What a Run changes of its Agent.
LEMMA RunEdits ==
  ASSUME NEW b \in Agent, NEW n \in Int, NEW m \in Nat, NEW w \in Callers \cup {0}, NEW d,
         \/ d = [b EXCEPT !.running = n]
         \/ d = [b EXCEPT !.runner = w]
         \/ d = [b EXCEPT !.running = n, !.runner = w]
         \/ d = [b EXCEPT !.conn = m]
  PROVE  /\ d \in Agent /\ d.type = b.type /\ d.refs = b.refs
         /\ d.conn = b.conn \/ d.conn = m
         /\ d.cached = b.cached /\ d.closed = b.closed
BY DEF Agent

\* It leaves the Agent: the count of Runs goes down, and the turn is given back.
LEMMA Leaves ==
  ASSUME Inv, NEW c \in Callers, NEW a \in DOMAIN agents, NEW b, b = Leave(c, agents[a])
  PROVE  /\ b \in Agent /\ b.type = agents[a].type /\ b.refs = agents[a].refs
         /\ b.conn = agents[a].conn
         /\ b.cached = agents[a].cached /\ b.closed = agents[a].closed
<1>1. PICK e \in Agent : e = agents[a]
  BY AgentIs
<1>2. PICK n : n = e.running - 1
  OBVIOUS
<1>3. PICK w : w = IF e.runner = c THEN 0 ELSE e.runner
  OBVIOUS
<1>4. n \in Int /\ w \in Callers \cup {0}
  BY <1>2, <1>3 DEF Agent
<1>5. b = [e EXCEPT !.running = n, !.runner = w]
  BY <1>1, <1>2, <1>3 DEF Leave
<1> QED
  BY <1>1, <1>4, <1>5 DEF Agent

LEMMA EnterInv ==
  ASSUME NameAssumption, Inv, NEW c \in Callers, Enter(c)
  PROVE  Inv'
<1>1. /\ c \in Actors /\ actor[c] \in Actor /\ RowOK(c, actor[c], agents, conns)
      /\ actor[c].pc = "leased" /\ UNCHANGED <<conns, dropping, maint, poolClosing>>
  BY Facts DEF Actors, Enter, At
<1>2. PICK a \in DOMAIN agents : a = actor[c].agent
  BY <1>1 DEF RowOK, AgentPc, LeasePc
<1>3. CASE agents' = [agents EXCEPT ![a].running = @ + 1] /\ To(c, "slot")
  <2>1. PICK e \in Agent : e = agents[a] /\ e.conn \in DOMAIN conns /\ conns[e.conn].type = e.type
    BY AgentIs
  <2>2. PICK n : n = e.running + 1
    OBVIOUS
  <2>3. PICK b : b = [e EXCEPT !.running = n]
    OBVIOUS
  <2>4. /\ b \in Agent /\ b.type = e.type /\ b.refs = e.refs /\ b.conn = e.conn
        /\ b.cached = e.cached /\ b.closed = e.closed
    <3>1. n \in Int
      BY <2>2 DEF Agent
    <3> QED
      BY <2>3, <3>1 DEF Agent
  <2>5. agents' = [agents EXCEPT ![a] = b]
    BY <1>3, <2>1, <2>2, <2>3
  <2>6. PICK r : r = [actor[c] EXCEPT !.pc = "slot"]
    OBVIOUS
  <2>7. /\ r \in Actor /\ r.pc = "slot" /\ r.key = actor[c].key /\ r.type = actor[c].type
        /\ r.agent = a /\ r.waiters = actor[c].waiters
    BY <1>1, <1>2, <2>6, Moved DEF CallerPc, AgentPc, LeasePc
  <2>8. actor' = [actor EXCEPT ![c] = r]
    BY <1>3, <2>6 DEF To
  <2>9. RowOK(c, r, agents, conns)
    BY <1>1, <1>2, <2>7 DEF RowOK, CallerPc, AgentPc, LeasePc, MatchedPc, ConnPc
  <2>10. actor[c].pc \in LeasePc /\ r.pc \in LeasePc /\ actor[c].pc \notin {"starting", "track"}
    BY <1>1, <2>7 DEF LeasePc
  <2> QED
    BY <1>1, <1>2, <2>1, <2>4, <2>5, <2>7, <2>8, <2>9, <2>10, RunStepsQuietly
<1>4. CASE UNCHANGED agents /\ To(c, "release")
  <2>1. RowOK(c, [actor[c] EXCEPT !.pc = "release"], agents, conns)
    <3>1. PICK r : r = [actor[c] EXCEPT !.pc = "release"]
      OBVIOUS
    <3>2. /\ r.pc = "release" /\ r.key = actor[c].key /\ r.type = actor[c].type
          /\ r.agent = actor[c].agent
      BY <1>1, <3>1, Moved DEF CallerPc, AgentPc, LeasePc
    <3> QED
      BY <1>1, <3>1, <3>2 DEF RowOK, CallerPc, AgentPc, LeasePc, MatchedPc, ConnPc
  <2>2. /\ "release" \in CallerPc /\ "release" \in LeasePc /\ actor[c].pc \in LeasePc
        /\ actor[c].pc \notin TendPc \cup {"wait", "starting", "track"}
    BY <1>1 DEF CallerPc, AgentPc, LeasePc, TendPc
  <2> QED
    BY <1>1, <1>4, <2>1, <2>2, WalksTo
<1> QED
  BY <1>2, <1>3, <1>4 DEF Enter

LEMMA SlotInv ==
  ASSUME NameAssumption, Inv, NEW c \in Callers, Slot(c)
  PROVE  Inv'
<1>1. /\ c \in Actors /\ actor[c] \in Actor /\ RowOK(c, actor[c], agents, conns)
      /\ actor[c].pc = "slot" /\ UNCHANGED <<conns, dropping, maint, poolClosing>>
      /\ actor \in [Actors -> Actor]
  BY Facts DEF Actors, Slot, At, Inv, TypeInv
<1>2. PICK a \in DOMAIN agents : a = actor[c].agent
  BY <1>1 DEF RowOK, AgentPc, LeasePc
<1>3. PICK e \in Agent : e = agents[a] /\ e.conn \in DOMAIN conns /\ conns[e.conn].type = e.type
  BY AgentIs
<1>4. PICK r \in Actor :
         /\ actor' = [actor EXCEPT ![c] = r] /\ r.pc \in {"conn", "release"}
         /\ r.key = actor[c].key /\ r.type = actor[c].type
         /\ r.agent = a /\ r.waiters = actor[c].waiters
  <2>1. CASE actor' = [actor EXCEPT ![c].pc = "conn", ![c].round = 1]
    <3>1. PICK r : r = [actor[c] EXCEPT !.pc = "conn", !.round = 1]
      OBVIOUS
    <3>2. /\ r \in Actor /\ r.pc = "conn" /\ r.key = actor[c].key /\ r.type = actor[c].type
          /\ r.agent = a /\ r.waiters = actor[c].waiters
      BY <1>1, <1>2, <3>1 DEF Actor, CallerPc, AgentPc, LeasePc
    <3>3. actor' = [actor EXCEPT ![c] = r]
      BY <1>1, <2>1, <3>1
    <3> QED
      BY <3>2, <3>3
  <2>2. CASE To(c, "release")
    <3>1. PICK r : r = [actor[c] EXCEPT !.pc = "release"]
      OBVIOUS
    <3>2. /\ r \in Actor /\ r.pc = "release" /\ r.key = actor[c].key /\ r.type = actor[c].type
          /\ r.agent = a /\ r.waiters = actor[c].waiters
      BY <1>1, <1>2, <3>1, Moved DEF CallerPc, AgentPc, LeasePc
    <3> QED
      BY <2>2, <3>1, <3>2 DEF To
  <2> QED
    BY <2>1, <2>2 DEF Slot
<1>5. PICK b \in Agent :
         /\ agents' = [agents EXCEPT ![a] = b]
         /\ b.type = e.type /\ b.refs = e.refs /\ b.conn = e.conn
         /\ b.cached = e.cached /\ b.closed = e.closed
  <2>1. CASE agents' = [agents EXCEPT ![a].runner = c]
    <3>1. PICK b : b = [e EXCEPT !.runner = c]
      OBVIOUS
    <3>2. /\ b \in Agent /\ b.type = e.type /\ b.refs = e.refs /\ b.conn = e.conn
          /\ b.cached = e.cached /\ b.closed = e.closed
      BY <3>1 DEF Agent
    <3> QED
      BY <1>3, <2>1, <3>1, <3>2
  <2>2. CASE agents' = [agents EXCEPT ![a] = Leave(c, @)]
    <3>1. PICK b : b = Leave(c, agents[a])
      OBVIOUS
    <3> QED
      BY <1>3, <2>2, <3>1, Leaves
  <2> QED
    BY <1>2, <2>1, <2>2 DEF Slot
<1>6. RowOK(c, r, agents, conns)
  BY <1>1, <1>2, <1>4 DEF RowOK, CallerPc, AgentPc, LeasePc, MatchedPc, ConnPc
<1>7. actor[c].pc \in LeasePc /\ r.pc \in LeasePc /\ actor[c].pc \notin {"starting", "track"}
  BY <1>1, <1>4 DEF LeasePc
<1> QED
  BY <1>1, <1>2, <1>3, <1>4, <1>5, <1>6, <1>7, RunStepsQuietly

LEMMA ReconnectInv ==
  ASSUME NameAssumption, Inv, NEW c \in Callers, Reconnect(c)
  PROVE  Inv'
<1>1. /\ c \in Actors /\ actor[c] \in Actor /\ RowOK(c, actor[c], agents, conns)
      /\ actor[c].pc = "conn"
  BY Facts DEF Actors, Reconnect, At
<1>2. PICK pc \in {"acquire", "open"} : To(c, pc)
  BY DEF Reconnect
<1>3. RowOK(c, [actor[c] EXCEPT !.pc = pc], agents, conns)
  <2>1. PICK r : r = [actor[c] EXCEPT !.pc = pc]
    OBVIOUS
  <2>2. /\ r.pc = pc /\ r.key = actor[c].key /\ r.type = actor[c].type
        /\ r.agent = actor[c].agent
    BY <1>1, <2>1, Moved DEF CallerPc, AgentPc, LeasePc
  <2> QED
    BY <1>1, <2>1, <2>2 DEF RowOK, CallerPc, AgentPc, LeasePc, MatchedPc, ConnPc
<1>4. /\ pc \in CallerPc /\ pc \in LeasePc /\ actor[c].pc \in LeasePc
      /\ actor[c].pc \notin TendPc \cup {"wait", "starting", "track"}
  BY <1>1 DEF CallerPc, AgentPc, LeasePc, TendPc
<1> QED
  BY <1>1, <1>2, <1>3, <1>4, WalksTo DEF Reconnect

LEMMA ReconnectedInv ==
  ASSUME NameAssumption, Inv, NEW c \in Callers, Reconnected(c)
  PROVE  Inv'
<1>1. /\ c \in Actors /\ actor[c] \in Actor /\ RowOK(c, actor[c], agents, conns)
      /\ actor[c].pc = "made" /\ UNCHANGED <<conns, dropping, maint, poolClosing>>
  BY Facts DEF Actors, Reconnected, At
<1>2. PICK a \in DOMAIN agents : a = actor[c].agent
  BY <1>1 DEF RowOK, AgentPc, LeasePc
<1>3. PICK e \in Agent : e = agents[a]
  BY AgentIs
<1>4. PICK m \in Nat : m = actor[c].conn
  BY <1>1 DEF Actor
<1>5. m \in DOMAIN conns /\ conns[m].type = e.type
  BY <1>1, <1>2, <1>3, <1>4 DEF RowOK, ConnPc, MatchedPc, LeasePc
<1>6. PICK b : b = [e EXCEPT !.conn = m]
  OBVIOUS
<1>7. /\ b \in Agent /\ b.type = e.type /\ b.refs = e.refs /\ b.conn = m
      /\ b.cached = e.cached /\ b.closed = e.closed
  BY <1>6 DEF Agent
<1>8. agents' = [agents EXCEPT ![a] = b]
  BY <1>2, <1>3, <1>4, <1>6 DEF Reconnected
<1>9. PICK r : r = [actor[c] EXCEPT !.pc = "acquire"]
  OBVIOUS
<1>10. /\ r \in Actor /\ r.pc = "acquire" /\ r.key = actor[c].key /\ r.type = actor[c].type
       /\ r.agent = a /\ r.waiters = actor[c].waiters
  BY <1>1, <1>2, <1>9, Moved DEF CallerPc, AgentPc, LeasePc
<1>11. actor' = [actor EXCEPT ![c] = r]
  BY <1>9 DEF Reconnected, To
<1>12. RowOK(c, r, agents, conns)
  BY <1>1, <1>2, <1>10 DEF RowOK, CallerPc, AgentPc, LeasePc, MatchedPc, ConnPc
<1>13. actor[c].pc \in LeasePc /\ r.pc \in LeasePc /\ actor[c].pc \notin {"starting", "track"}
  BY <1>1, <1>10 DEF LeasePc
<1> QED
  BY <1>1, <1>2, <1>3, <1>5, <1>7, <1>8, <1>10, <1>11, <1>12, <1>13, RunStepsQuietly

LEMMA AcquireFailsInv ==
  ASSUME NameAssumption, Inv, NEW c \in Callers, AcquireFails(c)
  PROVE  Inv'
<1>1. /\ c \in Actors /\ actor[c] \in Actor /\ RowOK(c, actor[c], agents, conns)
      /\ actor[c].pc = "acquire" /\ actor \in [Actors -> Actor]
      /\ UNCHANGED <<agents, conns, dropping, maint, poolClosing>>
  BY Facts DEF Actors, AcquireFails, At, Inv, TypeInv
<1>2. PICK pc \in {"conn", "failed"} : actor' = [actor EXCEPT ![c].pc = pc, ![c].round = 2]
  BY DEF AcquireFails
<1>3. PICK r : r = [actor[c] EXCEPT !.pc = pc, !.round = 2]
  OBVIOUS
<1>4. /\ r \in Actor /\ r.pc = pc /\ r.key = actor[c].key /\ r.type = actor[c].type
      /\ r.agent = actor[c].agent /\ r.waiters = actor[c].waiters
  BY <1>1, <1>3 DEF Actor, CallerPc, AgentPc, LeasePc
<1>5. actor' = [actor EXCEPT ![c] = r]
  BY <1>1, <1>2, <1>3
<1>6. RowOK(c, r, agents, conns)
  BY <1>1, <1>4 DEF RowOK, CallerPc, AgentPc, LeasePc, MatchedPc, ConnPc
<1>7. /\ actor[c].pc \in LeasePc /\ r.pc \in LeasePc
      /\ actor[c].pc \notin TendPc \cup {"wait", "starting", "track"}
  BY <1>1, <1>4 DEF LeasePc, TendPc
<1> QED
  BY <1>1, <1>4, <1>5, <1>6, <1>7, Walks

\* A use of a subprocess begins, or ends.
LEMMA Used ==
  ASSUME NEW b \in Conn, NEW n \in Int, NEW d, d = [b EXCEPT !.uses = n]
  PROVE  /\ d \in Conn /\ d.type = b.type /\ d.uses = n /\ d.marked = b.marked
         /\ d.alive = b.alive /\ d.tracked = b.tracked /\ d.doomed = b.doomed
BY DEF Conn

LEMMA AcquireInv ==
  ASSUME NameAssumption, Inv, NEW c \in Callers, Acquire(c)
  PROVE  Inv'
<1>1. /\ c \in Actors /\ actor[c] \in Actor /\ RowOK(c, actor[c], agents, conns)
      /\ actor[c].pc = "acquire" /\ actor \in [Actors -> Actor]
      /\ UNCHANGED <<agents, dropping, maint, poolClosing>>
  BY Facts DEF Actors, Acquire, At, Inv, TypeInv
<1>2. PICK a \in DOMAIN agents : a = actor[c].agent
  BY <1>1 DEF RowOK, AgentPc, LeasePc
<1>3. PICK n \in DOMAIN conns : n = agents[a].conn
  BY AgentIs
<1>4. conns[n].type = actor[c].type
  BY <1>1, <1>2, <1>3, AgentIs DEF RowOK, MatchedPc, LeasePc
<1>5. PICK b \in Conn : b = conns[n]
  BY ConnIs
<1>6. PICK m : m = b.uses + 1
  OBVIOUS
<1>7. PICK d : d = [b EXCEPT !.uses = m]
  OBVIOUS
<1>8. /\ d \in Conn /\ d.type = b.type /\ d.marked = b.marked
      /\ d.alive = b.alive /\ d.tracked = b.tracked /\ d.doomed = b.doomed
  <2>1. m \in Int
    BY <1>6 DEF Conn
  <2> QED
    BY <1>7, <2>1, Used
<1>9. conns' = [conns EXCEPT ![n] = d]
  BY <1>2, <1>3, <1>5, <1>6, <1>7 DEF Acquire
<1>10. ~conns[n].marked /\ n \in Nat
  BY <1>2, <1>3, ConnIs DEF Acquire, Usable
<1>11. PICK r : r = [actor[c] EXCEPT !.pc = "use", !.conn = n]
  OBVIOUS
<1>12. /\ r \in Actor /\ r.pc = "use" /\ r.key = actor[c].key /\ r.type = actor[c].type
       /\ r.agent = a /\ r.conn = n /\ r.waiters = actor[c].waiters
  BY <1>1, <1>2, <1>10, <1>11 DEF Actor, CallerPc, AgentPc, LeasePc
<1>13. actor' = [actor EXCEPT ![c] = r]
  BY <1>1, <1>2, <1>3, <1>11 DEF Acquire
<1>14. RowOK(c, r, agents, conns)
  BY <1>1, <1>2, <1>4, <1>12 DEF RowOK, CallerPc, AgentPc, LeasePc, MatchedPc, ConnPc
<1>15. /\ actor[c].pc \in LeasePc /\ r.pc \in LeasePc
       /\ actor[c].pc \notin TendPc \cup {"wait"} /\ actor[c].pc \notin {"starting", "track"}
  BY <1>1, <1>12 DEF LeasePc, TendPc
<1>16. d.alive => \/ d.tracked /\ ~poolClosing
                  \/ d.doomed
                  \/ \E p \in Actors : actor'[p].conn = n /\ actor'[p].pc \in {"starting", "track"}
  <2>1. conns[n].alive => \/ conns[n].tracked /\ ~poolClosing
                          \/ conns[n].doomed
                          \/ \E p \in Actors : actor[p].conn = n /\ actor[p].pc \in {"starting", "track"}
    BY DEF Inv, ConnsTended
  <2>2. \A p \in Actors : actor[p].pc \in {"starting", "track"} => actor'[p] = actor[p]
    BY <1>1, <1>13
  <2> QED
    BY <1>5, <1>8, <2>1, <2>2
<1>17. ~d.marked
  BY <1>5, <1>8, <1>10
<1> QED
  BY <1>1, <1>2, <1>8, <1>9, <1>10, <1>12, <1>13, <1>14, <1>15, <1>16, <1>17, <1>5, ConnStep

LEMMA RunEndsInv ==
  ASSUME NameAssumption, Inv, NEW c \in Callers, RunEnds(c)
  PROVE  Inv'
<1>1. /\ c \in Actors /\ actor[c] \in Actor /\ RowOK(c, actor[c], agents, conns)
      /\ actor[c].pc \in {"use", "failed"} /\ actor \in [Actors -> Actor]
      /\ UNCHANGED <<dropping, maint, poolClosing>> /\ conns \in Seq(Conn)
  BY Facts DEF Actors, RunEnds, At, Inv, TypeInv
<1>2. PICK a \in DOMAIN agents : a = actor[c].agent
  BY <1>1 DEF RowOK, AgentPc, LeasePc
<1>3. PICK b : b = Leave(c, agents[a])
  OBVIOUS
<1>4. /\ b \in Agent /\ b.type = agents[a].type /\ b.refs = agents[a].refs
      /\ b.conn = agents[a].conn
      /\ b.cached = agents[a].cached /\ b.closed = agents[a].closed
  BY <1>3, Leaves
<1>5. agents' = [agents EXCEPT ![a] = b]
  BY <1>2, <1>3 DEF RunEnds
<1>6. PICK r : r = [actor[c] EXCEPT !.pc = "release", !.conn = 0]
  OBVIOUS
<1>7. /\ r \in Actor /\ r.pc = "release" /\ r.key = actor[c].key /\ r.type = actor[c].type
      /\ r.agent = a /\ r.waiters = actor[c].waiters
  BY <1>1, <1>2, <1>6 DEF Actor, CallerPc, AgentPc, LeasePc
<1>8. actor' = [actor EXCEPT ![c] = r]
  BY <1>1, <1>6 DEF RunEnds
<1>9. RowOK(c, r, agents, conns)
  BY <1>1, <1>2, <1>7 DEF RowOK, CallerPc, AgentPc, LeasePc, MatchedPc, ConnPc
<1>10. /\ actor[c].pc \in LeasePc /\ r.pc \in LeasePc
       /\ actor[c].pc \notin TendPc \cup {"wait"} /\ actor[c].pc \notin {"starting", "track"}
  BY <1>1, <1>7 DEF LeasePc, TendPc
<1>11. /\ conns' \in Seq(Conn) /\ DOMAIN conns' = DOMAIN conns
       /\ \A n \in DOMAIN conns :
             /\ conns'[n].type = conns[n].type
             /\ conns'[n].uses > 0 => conns[n].uses > 0
             /\ conns'[n].marked = conns[n].marked /\ conns'[n].alive = conns[n].alive
             /\ conns'[n].tracked = conns[n].tracked /\ conns'[n].doomed = conns[n].doomed
  <2>1. CASE actor[c].pc = "failed"
    BY <1>1, <2>1 DEF RunEnds, At
  <2>2. CASE actor[c].pc = "use"
    <3>1. PICK n \in DOMAIN conns : n = actor[c].conn
      BY <1>1, <2>2 DEF RowOK, ConnPc
    <3>2. PICK e \in Conn : e = conns[n]
      BY ConnIs
    <3>3. PICK m : m = e.uses - 1
      OBVIOUS
    <3>4. PICK d : d = [e EXCEPT !.uses = m]
      OBVIOUS
    <3>5. /\ d \in Conn /\ d.type = e.type
          /\ d.uses > 0 => e.uses > 0
      <4>1. m \in Int /\ e.uses \in Int
        BY <3>3 DEF Conn
      <4>2. d \in Conn /\ d.type = e.type /\ d.uses = m
        BY <3>4, <4>1, Used
      <4> QED
        BY <3>3, <4>1, <4>2
    <3>6. /\ d.marked = e.marked
          /\ d.alive = e.alive /\ d.tracked = e.tracked /\ d.doomed = e.doomed
      BY <3>4 DEF Conn
    <3>7. conns' = [conns EXCEPT ![n] = d]
      BY <2>2, <3>1, <3>2, <3>3, <3>4 DEF RunEnds, At
    <3>8. /\ conns' = [k \in DOMAIN conns |-> conns'[k]]
          /\ conns'[n] = d /\ \A k \in DOMAIN conns \ {n} : conns'[k] = conns[k]
      BY <3>7
    <3>9. \A k \in DOMAIN conns : conns'[k] \in Conn
      BY <3>5, <3>8, ConnIs
    <3>10. conns' \in Seq(Conn) /\ DOMAIN conns' = DOMAIN conns
      BY <1>1, <3>8, <3>9, Changed
    <3> QED
      BY <3>2, <3>5, <3>6, <3>8, <3>10
  <2> QED
    BY <1>1, <2>1, <2>2
<1>12. ConnInv'
  BY <1>1, <1>11 DEF Inv, ConnInv
<1>13. ConnsTended'
  <2>1. \A p \in Actors : actor[p].pc \in {"starting", "track"} => actor'[p] = actor[p]
    BY <1>1, <1>8
  <2> QED
    BY <1>1, <1>11, <2>1 DEF Inv, ConnsTended
<1>14. b.conn \in DOMAIN conns /\ conns[b.conn].type = b.type
  BY <1>4, AgentIs
<1> QED
  BY <1>1, <1>2, <1>4, <1>5, <1>7, <1>8, <1>9, <1>10, <1>11, <1>12, <1>13, <1>14, RunSteps

LEMMA RunInv ==
  ASSUME NameAssumption, Inv, NEW c \in Callers, Run(c)
  PROVE  Inv'
BY EnterInv, SlotInv, ReconnectInv, ReconnectedInv, AcquireInv, AcquireFailsInv, RunEndsInv
   DEF Run

(***************************************************************************)
(* Deletions.                                                              *)
(***************************************************************************)
LEMMA ActorsStay ==
  ASSUME Inv, Grows, UNCHANGED actor
  PROVE  ActorInv' /\ WaitInv'
<1>1. ActorInv'
  <2> SUFFICES ASSUME NEW o \in Actors PROVE RowOK(o, actor'[o], agents', conns')
    BY DEF ActorInv
  <2>1. RowOK(o, actor[o], agents, conns)
    BY DEF Inv, ActorInv
  <2>2. RowOK(o, actor[o], agents', conns')
    BY <2>1, RowStays
  <2> QED
    BY <2>2
<1>2. WaitInv'
  BY DEF Inv, WaitInv
<1> QED
  BY <1>1, <1>2

\* The Agents change, and nobody moves.
LEMMA AgentsStep ==
  ASSUME NameAssumption, Inv, UNCHANGED <<conns, actor, maint, poolClosing>>,
         agents' \in Seq(Agent), DOMAIN agents' = DOMAIN agents, Grows, AgentInv',
         \A d \in DOMAIN agents : agents'[d].refs = agents[d].refs, AgentsTended'
  PROVE  Inv'
<1>1. ActorInv' /\ WaitInv'
  BY ActorsStay
<1>2. LeaseInv'
  BY LeasesStay
<1>3. ConnInv' /\ ConnsTended'
  BY ConnsQuiet
<1>4. TypeInv'
  BY DEF Inv, TypeInv
<1> QED
  BY <1>1, <1>2, <1>3, <1>4 DEF Inv

LEMMA DetachInv ==
  ASSUME NameAssumption, Inv, NEW as \in SUBSET DOMAIN agents, Detach(as)
  PROVE  Inv'
<1>1. /\ agents' = [d \in DOMAIN agents |-> IF d \in as THEN [agents[d] EXCEPT !.cached = FALSE]
                                            ELSE agents[d]]
      /\ dropping' = dropping \cup as /\ UNCHANGED <<conns, actor, maint, poolClosing>>
  BY DEF Detach
<1>2. /\ agents' \in Seq(Agent) /\ DOMAIN agents' = DOMAIN agents /\ Grows /\ AgentInv'
      /\ \A d \in DOMAIN agents :
            /\ agents'[d].refs = agents[d].refs
            /\ agents[d].closed => agents'[d].closed
            /\ d \notin as => agents'[d] = agents[d]
  BY <1>1, UncachedIs
<1>3. AgentsTended'
  <2> SUFFICES ASSUME NEW d \in DOMAIN agents
               PROVE  \/ agents'[d].cached \/ agents'[d].refs > 0 \/ agents'[d].closed
                      \/ d \in dropping'
                      \/ \E o \in Actors : actor'[o].agent = d /\ actor'[o].pc \in TendPc
    BY <1>2 DEF AgentsTended
  <2>1. \/ agents[d].cached \/ agents[d].refs > 0 \/ agents[d].closed \/ d \in dropping
        \/ \E o \in Actors : actor[o].agent = d /\ actor[o].pc \in TendPc
    BY DEF Inv, AgentsTended
  <2>2. CASE d \in as
    BY <1>1, <2>2
  <2>3. CASE d \notin as
    BY <1>1, <1>2, <2>1, <2>3
  <2> QED
    BY <2>2, <2>3
<1> QED
  BY <1>1, <1>2, <1>3, AgentsStep

LEMMA CloseDroppedInv ==
  ASSUME NameAssumption, Inv, NEW a \in DOMAIN agents, CloseDropped(a)
  PROVE  Inv'
<1>1. agents[a].refs \in Nat
  BY RefsCount
<1>2. /\ \/ agents' = agents /\ agents[a].refs > 0
         \/ agents' = Shut({a})
      /\ dropping' = dropping \ {a} /\ UNCHANGED <<conns, actor, maint, poolClosing>>
  BY <1>1 DEF CloseDropped
<1>3. /\ agents' \in Seq(Agent) /\ DOMAIN agents' = DOMAIN agents /\ Grows /\ AgentInv'
      /\ \A d \in DOMAIN agents :
            /\ agents'[d].refs = agents[d].refs
            /\ agents[d].cached => agents'[d].cached
            /\ agents[d].closed => agents'[d].closed
  <2>1. CASE agents' = agents
    BY <1>2, <2>1, SameGrows DEF Inv, TypeInv, AgentInv
  <2>2. CASE agents' = Shut({a})
    BY <1>2, <2>2, ShutIs
  <2> QED
    BY <1>2, <2>1, <2>2
<1>4. agents'[a].refs > 0 \/ agents'[a].closed
  <2>1. CASE agents' = agents /\ agents[a].refs > 0
    BY <2>1
  <2>2. CASE agents' = Shut({a})
    BY <1>2, <2>2, ShutIs
  <2> QED
    BY <1>2, <2>1, <2>2
<1>5. AgentsTended'
  <2> SUFFICES ASSUME NEW d \in DOMAIN agents
               PROVE  \/ agents'[d].cached \/ agents'[d].refs > 0 \/ agents'[d].closed
                      \/ d \in dropping'
                      \/ \E o \in Actors : actor'[o].agent = d /\ actor'[o].pc \in TendPc
    BY <1>3 DEF AgentsTended
  <2>1. \/ agents[d].cached \/ agents[d].refs > 0 \/ agents[d].closed \/ d \in dropping
        \/ \E o \in Actors : actor[o].agent = d /\ actor[o].pc \in TendPc
    BY DEF Inv, AgentsTended
  <2>2. CASE d # a
    BY <1>2, <1>3, <2>1, <2>2
  <2> QED
    BY <1>4, <2>2
<1> QED
  BY <1>2, <1>3, <1>5, AgentsStep

(***************************************************************************)
(* Those who close subprocesses.                                           *)
(***************************************************************************)
\* The subprocesses change, and nobody moves.
LEMMA ConnsStep ==
  ASSUME NameAssumption, Inv, UNCHANGED <<agents, actor, dropping>>,
         conns' = [n \in DOMAIN conns |-> conns'[n]],
         \A n \in DOMAIN conns : conns'[n] \in Conn /\ conns'[n].type = conns[n].type,
         maint' \in [Types -> {"none", "closing", "exclusive"}], poolClosing' \in BOOLEAN,
         ConnInv', ConnsTended'
  PROVE  Inv'
<1>1. conns' \in Seq(Conn) /\ DOMAIN conns' = DOMAIN conns /\ Grows
  BY ConnsEdited
<1>2. ActorInv' /\ WaitInv'
  BY <1>1, ActorsStay
<1>3. LeaseInv'
  BY <1>1, LeasesStay
<1>4. AgentInv'
  BY <1>1 DEF Inv, AgentInv
<1>5. AgentsTended'
  BY DEF Inv, AgentsTended
<1>6. TypeInv'
  BY <1>1 DEF Inv, TypeInv
<1> QED
  BY <1>2, <1>3, <1>4, <1>5, <1>6 DEF Inv

LEMMA ReapInv ==
  ASSUME NameAssumption, Inv, NEW n \in DOMAIN conns, Reap(n)
  PROVE  Inv'
<1>1. UNCHANGED <<agents, actor, dropping, maint, poolClosing>> /\ conns[n].uses = 0
  BY DEF Reap
<1>2. PICK b \in Conn : b = conns[n]
  BY ConnIs
<1>3. PICK v \in BOOLEAN : v = b.alive
  BY DEF Conn
<1>4. PICK d : d = [b EXCEPT !.tracked = FALSE, !.marked = v, !.doomed = v]
  OBVIOUS
<1>5. /\ d \in Conn /\ d.type = b.type /\ d.uses = b.uses /\ d.alive = v
      /\ d.marked = v /\ d.doomed = v
  BY <1>3, <1>4 DEF Conn
<1>6. conns' = [conns EXCEPT ![n] = d]
  BY <1>2, <1>3, <1>4, ConnIs DEF Reap
<1>7. /\ conns' = [m \in DOMAIN conns |-> conns'[m]]
      /\ conns'[n] = d /\ \A m \in DOMAIN conns \ {n} : conns'[m] = conns[m]
  BY <1>6
<1>8. d.alive => d.marked /\ d.doomed
  BY <1>5
<1>9. d.alive => conns[n].alive
  BY <1>2, <1>3, <1>5
<1>10. \A m \in DOMAIN conns : conns'[m] \in Conn /\ conns'[m].type = conns[m].type
  BY <1>2, <1>5, <1>7, ConnIs
<1>11. ConnInv'
  <2>1. \A m \in DOMAIN conns : conns'[m].uses > 0 => ~conns'[m].marked
    BY <1>1, <1>2, <1>5, <1>7 DEF Inv, ConnInv
  <2>2. ASSUME NEW t \in Types, maint[t] # "none", NEW m \in DOMAIN conns,
               conns'[m].type = t, conns'[m].alive
        PROVE  conns'[m].marked /\ maint[t] = "closing"
    <3>1. conns[m].type = t /\ conns[m].alive
      BY <1>7, <1>9, <1>10, <2>2
    <3>2. conns[m].marked /\ maint[t] = "closing"
      BY <2>2, <3>1 DEF Inv, ConnInv
    <3> QED
      BY <1>7, <1>8, <2>2, <3>2
  <2> QED
    BY <1>1, <1>7, <2>1, <2>2 DEF ConnInv
<1>12. ConnsTended'
  BY <1>1, <1>7, <1>8 DEF Inv, ConnsTended
<1> QED
  BY <1>1, <1>7, <1>10, <1>11, <1>12, ConnsStep DEF Inv, TypeInv

LEMMA DeadInv ==
  ASSUME NameAssumption, Inv, NEW n \in DOMAIN conns, CloseConn(n) \/ Dies(n)
  PROVE  Inv'
<1>1. UNCHANGED <<agents, actor, dropping, maint, poolClosing>>
  BY DEF CloseConn, Dies
<1>2. PICK b \in Conn : b = conns[n]
  BY ConnIs
<1>3. PICK d : d = [b EXCEPT !.alive = FALSE, !.doomed = FALSE]
  OBVIOUS
<1>4. /\ d \in Conn /\ d.type = b.type /\ d.uses = b.uses /\ d.marked = b.marked
      /\ ~d.alive
  BY <1>3, ConnDead
<1>5. conns' = [conns EXCEPT ![n] = d]
  <2>1. conns' = [conns EXCEPT ![n].alive = FALSE, ![n].doomed = FALSE] /\ conns \in Seq(Conn)
    BY DEF CloseConn, Dies, Inv, TypeInv
  <2> QED
    BY <1>2, <1>3, <2>1
<1>6. /\ conns' = [m \in DOMAIN conns |-> conns'[m]]
      /\ conns'[n] = d /\ \A m \in DOMAIN conns \ {n} : conns'[m] = conns[m]
  BY <1>5
<1>7. \A m \in DOMAIN conns : conns'[m] \in Conn /\ conns'[m].type = conns[m].type
  BY <1>2, <1>4, <1>6, ConnIs
<1>8. ConnInv'
  <2>1. \A m \in DOMAIN conns : conns'[m].uses > 0 => ~conns'[m].marked
    BY <1>2, <1>4, <1>6 DEF Inv, ConnInv
  <2>2. ASSUME NEW t \in Types, maint[t] # "none", NEW m \in DOMAIN conns,
               conns'[m].type = t, conns'[m].alive
        PROVE  conns'[m].marked /\ maint[t] = "closing"
    <3>1. m # n
      BY <1>4, <1>6, <2>2
    <3> QED
      BY <1>6, <2>2, <3>1 DEF Inv, ConnInv
  <2> QED
    BY <1>1, <1>6, <2>1, <2>2 DEF ConnInv
<1>9. ConnsTended'
  BY <1>1, <1>4, <1>6 DEF Inv, ConnsTended
<1> QED
  BY <1>1, <1>6, <1>7, <1>8, <1>9, ConnsStep DEF Inv, TypeInv

LEMMA BeginMaintenanceInv ==
  ASSUME NameAssumption, Inv, NEW t \in Types, BeginMaintenance(t)
  PROVE  Inv'
<1>1. /\ UNCHANGED <<agents, actor, dropping, poolClosing>>
      /\ maint' = [maint EXCEPT ![t] = "closing"]
      /\ \A n \in DOMAIN conns : conns[n].type = t /\ conns[n].alive => conns[n].uses = 0
      /\ conns' = [n \in DOMAIN conns |->
                     IF conns[n].type = t /\ conns[n].alive
                     THEN [conns[n] EXCEPT !.marked = TRUE, !.doomed = TRUE] ELSE conns[n]]
  BY DEF BeginMaintenance
<1>2. /\ maint' \in [Types -> {"none", "closing", "exclusive"}] /\ maint'[t] = "closing"
      /\ \A s \in Types \ {t} : maint'[s] = maint[s]
  BY <1>1 DEF Inv, TypeInv
<1>3. conns' = [n \in DOMAIN conns |-> conns'[n]]
  BY <1>1
<1>4. \A n \in DOMAIN conns :
         /\ conns'[n] \in Conn /\ conns'[n].type = conns[n].type
         /\ conns[n].type = t /\ conns[n].alive =>
               conns'[n].uses = 0 /\ conns'[n].marked = TRUE /\ conns'[n].doomed = TRUE
         /\ ~(conns[n].type = t /\ conns[n].alive) => conns'[n] = conns[n]
  <2> SUFFICES ASSUME NEW n \in DOMAIN conns
               PROVE  /\ conns'[n] \in Conn /\ conns'[n].type = conns[n].type
                      /\ conns[n].type = t /\ conns[n].alive =>
                            conns'[n].uses = 0 /\ conns'[n].marked = TRUE /\ conns'[n].doomed = TRUE
                      /\ ~(conns[n].type = t /\ conns[n].alive) => conns'[n] = conns[n]
    OBVIOUS
  <2>1. conns[n] \in Conn
    BY ConnIs
  <2>2. CASE conns[n].type = t /\ conns[n].alive
    <3>1. conns'[n] = [conns[n] EXCEPT !.marked = TRUE, !.doomed = TRUE] /\ conns[n].uses = 0
      BY <1>1, <2>2
    <3> QED
      BY <2>1, <2>2, <3>1 DEF Conn
  <2>3. CASE ~(conns[n].type = t /\ conns[n].alive)
    BY <1>1, <2>1, <2>3
  <2> QED
    BY <2>2, <2>3
<1>5. ConnInv'
  <2>1. \A m \in DOMAIN conns : conns'[m].uses > 0 => ~conns'[m].marked
    BY <1>4 DEF Inv, ConnInv
  <2>2. ASSUME NEW s \in Types, maint'[s] # "none", NEW m \in DOMAIN conns,
               conns'[m].type = s, conns'[m].alive
        PROVE  conns'[m].marked /\ maint'[s] = "closing"
    <3>1. CASE s = t
      BY <1>2, <1>4, <2>2, <3>1
    <3>2. CASE s # t
      <4>1. conns'[m] = conns[m] /\ maint'[s] = maint[s]
        BY <1>2, <1>4, <2>2, <3>2
      <4> QED
        BY <2>2, <4>1 DEF Inv, ConnInv
    <3> QED
      BY <3>1, <3>2
  <2> QED
    BY <1>3, <2>1, <2>2 DEF ConnInv
<1>6. ConnsTended'
  <2> SUFFICES ASSUME NEW m \in DOMAIN conns, conns'[m].alive
               PROVE  \/ conns'[m].tracked /\ ~poolClosing'
                      \/ conns'[m].doomed
                      \/ \E p \in Actors : actor'[p].conn = m /\ actor'[p].pc \in {"starting", "track"}
    BY <1>3 DEF ConnsTended
  <2>1. CASE conns[m].type = t /\ conns[m].alive
    BY <1>4, <2>1
  <2>2. CASE ~(conns[m].type = t /\ conns[m].alive)
    BY <1>1, <1>4, <2>2 DEF Inv, ConnsTended
  <2> QED
    BY <2>1, <2>2
<1>7. poolClosing' \in BOOLEAN
  BY <1>1 DEF Inv, TypeInv
<1> QED
  BY <1>1, <1>2, <1>3, <1>4, <1>5, <1>6, <1>7, ConnsStep

LEMMA MaintenanceInv ==
  ASSUME NameAssumption, Inv, NEW t \in Types, MaintenanceBegun(t) \/ EndMaintenance(t)
  PROVE  Inv'
<1>1. UNCHANGED <<agents, conns, actor, dropping, poolClosing>>
  BY DEF MaintenanceBegun, EndMaintenance
<1>2. conns = [n \in DOMAIN conns |-> conns[n]]
  <2>1. Len(conns) \in Nat /\ conns \in Seq(Conn)
    BY SeqIs DEF Inv, TypeInv
  <2> QED
    BY <2>1
<1>3. \A n \in DOMAIN conns : conns[n] \in Conn
  BY ConnIs
<1>4. maint' \in [Types -> {"none", "closing", "exclusive"}]
  BY DEF MaintenanceBegun, EndMaintenance, Inv, TypeInv
<1>5. ConnInv'
  <2>1. CASE MaintenanceBegun(t)
    <3>1. \A n \in DOMAIN conns : conns[n].type = t => ~conns[n].alive
      BY <2>1 DEF MaintenanceBegun, Inv, ConnInv
    <3>2. \A s \in Types \ {t} : maint'[s] = maint[s]
      BY <2>1 DEF MaintenanceBegun, Inv, TypeInv
    <3> QED
      BY <1>1, <3>1, <3>2 DEF Inv, ConnInv
  <2>2. CASE EndMaintenance(t)
    <3>1. maint'[t] = "none" /\ \A s \in Types \ {t} : maint'[s] = maint[s]
      BY <2>2 DEF EndMaintenance, Inv, TypeInv
    <3> QED
      BY <1>1, <3>1 DEF Inv, ConnInv
  <2> QED
    BY <2>1, <2>2
<1>6. ConnsTended'
  BY <1>1 DEF Inv, ConnsTended
<1>7. poolClosing' \in BOOLEAN
  BY <1>1 DEF Inv, TypeInv
<1> QED
  BY <1>1, <1>2, <1>3, <1>4, <1>5, <1>6, <1>7, ConnsStep

LEMMA CloseAllConnsInv ==
  ASSUME NameAssumption, Inv, CloseAllConns
  PROVE  Inv'
<1>1. /\ UNCHANGED <<agents, actor, dropping, maint>> /\ poolClosing' = TRUE
      /\ conns' = [n \in DOMAIN conns |->
                     IF conns[n].tracked
                     THEN [conns[n] EXCEPT !.tracked = FALSE, !.doomed = conns[n].alive] ELSE conns[n]]
  BY DEF CloseAllConns
<1>2. conns' = [n \in DOMAIN conns |-> conns'[n]]
  BY <1>1
<1>3. \A n \in DOMAIN conns :
         /\ conns'[n] \in Conn /\ conns'[n].type = conns[n].type
         /\ conns'[n].uses = conns[n].uses
         /\ conns'[n].marked <=> conns[n].marked
         /\ conns'[n].alive => conns[n].alive
         /\ conns[n].tracked /\ conns'[n].alive => conns'[n].doomed
         /\ ~conns[n].tracked => conns'[n] = conns[n]
  <2> SUFFICES ASSUME NEW n \in DOMAIN conns
               PROVE  /\ conns'[n] \in Conn /\ conns'[n].type = conns[n].type
                      /\ conns'[n].uses = conns[n].uses
                      /\ conns'[n].marked <=> conns[n].marked
                      /\ conns'[n].alive => conns[n].alive
                      /\ conns[n].tracked /\ conns'[n].alive => conns'[n].doomed
                      /\ ~conns[n].tracked => conns'[n] = conns[n]
    OBVIOUS
  <2>1. conns[n] \in Conn
    BY ConnIs
  <2>2. CASE conns[n].tracked
    <3>1. PICK b \in Conn : b = conns[n]
      BY <2>1
    <3>2. PICK v \in BOOLEAN : v = b.alive
      BY DEF Conn
    <3>3. conns'[n] = [b EXCEPT !.tracked = FALSE, !.doomed = v]
      BY <1>1, <2>2, <3>1, <3>2
    <3>4. /\ conns'[n] \in Conn /\ conns'[n].type = b.type
          /\ conns'[n].uses = b.uses /\ conns'[n].marked = b.marked
          /\ conns'[n].alive = b.alive /\ conns'[n].doomed = v
      BY <3>3 DEF Conn
    <3> QED
      BY <2>2, <3>1, <3>2, <3>4
  <2>3. CASE ~conns[n].tracked
    BY <1>1, <2>1, <2>3
  <2> QED
    BY <2>2, <2>3
<1>4. ConnInv'
  <2>1. \A m \in DOMAIN conns : conns'[m].uses > 0 => ~conns'[m].marked
    BY <1>3 DEF Inv, ConnInv
  <2>2. ASSUME NEW t \in Types, maint[t] # "none", NEW m \in DOMAIN conns,
               conns'[m].type = t, conns'[m].alive
        PROVE  conns'[m].marked /\ maint[t] = "closing"
    <3>1. conns[m].type = t /\ conns[m].alive
      BY <1>3, <2>2
    <3>2. conns[m].marked /\ maint[t] = "closing"
      BY <2>2, <3>1 DEF Inv, ConnInv
    <3> QED
      BY <1>3, <3>2
  <2> QED
    BY <1>1, <1>2, <2>1, <2>2 DEF ConnInv
<1>5. ConnsTended'
  BY <1>1, <1>2, <1>3 DEF Inv, ConnsTended
<1>6. maint' \in [Types -> {"none", "closing", "exclusive"}] /\ poolClosing' \in BOOLEAN
  BY <1>1 DEF Inv, TypeInv
<1> QED
  BY <1>1, <1>2, <1>3, <1>4, <1>5, <1>6, ConnsStep

LEMMA ClosingInv ==
  ASSUME NameAssumption, Inv, Closing
  PROVE  Inv'
BY ReapInv, DeadInv, BeginMaintenanceInv, MaintenanceInv, CloseAllConnsInv DEF Closing

(***************************************************************************)
(* The invariant holds, and what follows from it.                          *)
(***************************************************************************)
LEMMA InitInv ==
  ASSUME NameAssumption, Init
  PROVE  Inv
<1>1. /\ agents = <<>> /\ conns = <<>> /\ DOMAIN agents = {} /\ DOMAIN conns = {}
      /\ actor = [o \in Actors |-> Free] /\ poolClosing = FALSE
      /\ maint = [t \in Types |-> "none"]
  BY DEF Init
<1>2. Free \in Actor
  BY DEF Free, Actor, CallerPc
<1>3. \A o \in Actors : actor[o].pc = "idle" /\ actor[o].waiters = {}
  BY <1>1 DEF Free
<1>4. TypeInv
  <2>1. agents \in Seq(Agent) /\ conns \in Seq(Conn)
    BY <1>1
  <2>2. actor \in [Actors -> Actor]
    BY <1>1, <1>2
  <2>3. maint \in [Types -> {"none", "closing", "exclusive"}] /\ poolClosing \in BOOLEAN
    BY <1>1
  <2> QED
    BY <2>1, <2>2, <2>3 DEF TypeInv
<1>5. ActorInv
  BY <1>3 DEF ActorInv, RowOK, CallerPc, KeyPc, AgentPc, LeasePc, MatchedPc, ConnPc
<1>6. WaitInv
  BY <1>3 DEF WaitInv, Actors
<1>7. AgentInv /\ LeaseInv /\ AgentsTended /\ ConnsTended /\ ConnInv
  BY <1>1 DEF AgentInv, LeaseInv, AgentsTended, ConnsTended, ConnInv
<1> QED
  BY <1>4, <1>5, <1>6, <1>7 DEF Inv

LEMMA NextInv ==
  ASSUME NameAssumption, Inv, Next
  PROVE  Inv'
<1>1. CASE \E c \in Callers : Leasing(c) \/ Run(c)
  BY <1>1, LeasingInv, RunInv
<1>2. CASE \E k \in Keys : Flight(k)
  BY <1>2, FlightInv
<1>3. CASE \E k \in Keys : Delete(k)
  BY <1>3, DetachInv DEF Delete, Box
<1>4. CASE \E o \in Actors : Opening(o)
  BY <1>4, OpeningInv
<1>5. CASE \E t \in Types : DeleteByAgentIdentifiers(t)
  BY <1>5, DetachInv DEF DeleteByAgentIdentifiers
<1>6. CASE \E a \in DOMAIN agents : CloseDropped(a)
  BY <1>6, CloseDroppedInv
<1>7. CASE Closing
  BY <1>7, ClosingInv
<1> QED
  BY <1>1, <1>2, <1>3, <1>4, <1>5, <1>6, <1>7 DEF Next

LEMMA StutterInv ==
  ASSUME Inv, UNCHANGED acVars
  PROVE  Inv'
<1>1. UNCHANGED <<agents, conns, actor, dropping, maint, poolClosing>>
  BY DEF acVars
<1>2. TypeInv' /\ AgentInv' /\ ConnInv' /\ ConnsTended' /\ AgentsTended'
  BY <1>1 DEF Inv, TypeInv, AgentInv, ConnInv, ConnsTended, AgentsTended
<1>3. Grows
  BY <1>1, SameGrows
<1>4. ActorInv' /\ WaitInv'
  BY <1>1, <1>3, ActorsStay
<1>5. LeaseInv'
  BY <1>1, <1>3, LeasesStay
<1> QED
  BY <1>2, <1>4, <1>5 DEF Inv

LEMMA InvHolds ==
  ASSUME Inv
  PROVE  NothingLeaks /\ UseUndisturbed
<1>1. NothingLeaks
  BY TendedIs DEF Inv
<1>2. \A c \in Callers : At(c, "use") => conns[actor[c].conn].type = actor[c].type
  BY DEF Inv, ActorInv, RowOK, Actors, At, ConnPc
<1>3. \A t \in Types : maint[t] = "exclusive" =>
         \A n \in DOMAIN conns : conns[n].type = t => ~conns[n].alive
  BY DEF Inv, ConnInv
<1> QED
  BY <1>1, <1>2, <1>3 DEF UseUndisturbed, Inv, ConnInv

(***************************************************************************)
(* Who closes an Agent.                                                    *)
(***************************************************************************)
ClosesLate == \A a \in DOMAIN agents :
  agents'[a].closed => agents[a].closed \/ agents[a].refs = 0 \/ LateRelease(a)

\* Agents change in another field, or one is built.
LEMMA OneKept ==
  ASSUME Inv, NEW x \in DOMAIN agents, NEW v,
         \/ agents' = [agents EXCEPT ![x].refs = v]
         \/ agents' = [agents EXCEPT ![x].cached = v]
         \/ agents' = [agents EXCEPT ![x].running = v]
         \/ agents' = [agents EXCEPT ![x].runner = v]
         \/ agents' = [agents EXCEPT ![x].conn = v]
  PROVE  ClosesLate
<1> SUFFICES ASSUME NEW a \in DOMAIN agents, agents'[a].closed
             PROVE  agents[a].closed
  BY DEF ClosesLate
<1>1. agents[x] \in Agent
  BY AgentIs
<1>2. CASE a # x
  BY <1>2
<1>3. CASE a = x
  BY <1>1, <1>3 DEF Agent
<1> QED
  BY <1>2, <1>3

\* Somebody shuts the Agents of as, that nobody leases, or not.
LEMMA ShutUnleased ==
  ASSUME NEW as, \/ agents' = agents
                 \/ agents' = Shut(as),
         \A a \in as \cap DOMAIN agents : agents[a].refs = 0 \/ LateRelease(a)
  PROVE  ClosesLate
<1>1. CASE agents' = agents
  BY <1>1 DEF ClosesLate
<1>2. CASE agents' = Shut(as)
  <2>1. \A a \in DOMAIN agents \ as : agents'[a] = agents[a]
    BY <1>2 DEF Shut
  <2> QED
    BY <2>1 DEF ClosesLate
<1> QED
  BY <1>1, <1>2

LEMMA LeasingCloses ==
  ASSUME NameAssumption, Inv, NEW c \in Callers, Leasing(c)
  PROVE  ClosesLate
<1>1. c \in Actors /\ RowOK(c, actor[c], agents, conns) /\ actor \in [Actors -> Actor]
  BY Facts DEF Actors, Inv, TypeInv
<1>2. CASE UNCHANGED agents
  BY <1>2 DEF ClosesLate
<1>3. ASSUME NEW a \in DOMAIN agents, Ref(a) PROVE ClosesLate
  <2>1. PICK v : v = agents[a].refs + 1
    OBVIOUS
  <2>2. agents' = [agents EXCEPT ![a].refs = v]
    BY <1>3, <2>1 DEF Ref
  <2> QED
    BY <2>2, OneKept
<1>4. CASE \E k \in Keys, t \in Types : Ask(c, k, t)
  BY <1>2, <1>3, <1>4 DEF Ask, Box
<1>5. CASE CreateHit(c)
  BY <1>3, <1>5 DEF CreateHit, Box
<1>6. CASE Take(c)
  <2>1. actor[c].agent \in DOMAIN agents
    BY <1>1, <1>6 DEF Take, At, RowOK, AgentPc
  <2> QED
    BY <1>2, <1>3, <1>6, <2>1 DEF Take
<1>7. CASE Release(c)
  <2>1. PICK a \in DOMAIN agents : a = actor[c].agent
    BY <1>1, <1>7 DEF Release, RowOK, AgentPc, LeasePc
  <2>2. PICK v : v = agents[a].refs - 1
    OBVIOUS
  <2>3. agents' = [agents EXCEPT ![a].refs = v]
    BY <1>7, <2>1, <2>2 DEF Release
  <2> QED
    BY <2>3, OneKept
<1>8. CASE ReleaseLast(c)
  <2>1. PICK pc \in {"idle", "delete"} : To(c, pc)
    BY <1>8 DEF ReleaseLast
  <2>2. actor[c].pc \in {"last", "rebuild-last"} /\ actor'[c].pc = pc
    BY <1>1, <1>8, <2>1 DEF ReleaseLast, To, Actor
  <2>3. LateRelease(actor[c].agent)
    BY <2>2 DEF LateRelease
  <2>4. PICK as : as = {actor[c].agent}
    OBVIOUS
  <2>5. agents' = agents \/ agents' = Shut(as)
    BY <1>8, <2>4 DEF ReleaseLast
  <2>6. \A a \in as \cap DOMAIN agents : LateRelease(a)
    BY <2>3, <2>4
  <2> QED
    BY <2>5, <2>6, ShutUnleased
<1>9. CASE DeleteStale(c)
  BY <1>2, <1>9, OneKept DEF DeleteStale, Box
<1>10. CASE DeletedStale(c)
  <2>1. PICK as : as = {actor[c].agent}
    OBVIOUS
  <2>2. CASE agents[actor[c].agent].refs = 0
    BY <1>10, <2>1, <2>2, ShutUnleased DEF DeletedStale
  <2>3. CASE agents[actor[c].agent].refs # 0
    BY <1>2, <1>10, <2>3 DEF DeletedStale
  <2> QED
    BY <2>2, <2>3
<1>11. CASE Check(c) \/ CreateMiss(c) \/ Do(c) \/ Abandon(c)
  BY <1>2, <1>11 DEF Check, CreateMiss, Do, Abandon
<1> QED
  BY <1>4, <1>5, <1>6, <1>7, <1>8, <1>9, <1>10, <1>11 DEF Leasing

LEMMA FlightCloses ==
  ASSUME NameAssumption, Inv, NEW k \in Keys, Flight(k)
  PROVE  ClosesLate
<1>1. /\ k \in Actors /\ RowOK(k, actor[k], agents, conns) /\ agents \in Seq(Agent)
  BY Facts DEF Actors, Inv, TypeInv
<1>2. CASE UNCHANGED agents
  BY <1>2 DEF ClosesLate
<1>3. CASE Evict(k)
  <2>1. PICK v \in DOMAIN agents : agents' = Append([agents EXCEPT ![v].cached = FALSE], New(k, TRUE))
    BY <1>3 DEF Evict, Idlers
  <2>2. PICK base \in Seq(Agent) :
           /\ base = [agents EXCEPT ![v].cached = FALSE]
           /\ DOMAIN base = DOMAIN agents
    BY Without
  <2>3. PICK new : new = New(k, TRUE)
    OBVIOUS
  <2>4. new \in Agent
    BY <1>3, <2>3, NewIs DEF Evict, At
  <2>5. agents' = Append(base, new)
    BY <2>1, <2>2, <2>3
  <2>6. \A d \in DOMAIN agents : agents'[d] = base[d]
    BY <2>2, <2>4, <2>5, Appended
  <2>7. \A d \in DOMAIN agents : base[d].closed => agents[d].closed
    <3>1. agents[v] \in Agent
      BY AgentIs
    <3> QED
      BY <2>2, <3>1 DEF Agent
  <2> QED
    BY <2>6, <2>7 DEF ClosesLate
<1>4. CASE Insert(k) \/ NoRoom(k)
  <2>1. PICK new : /\ new = New(k, TRUE) \/ new = New(k, FALSE)
                   /\ agents' = Append(agents, new)
    BY <1>4 DEF Insert, NoRoom
  <2>2. new \in Agent
    BY <1>4, <2>1, NewIs DEF Insert, NoRoom, At
  <2>3. \A d \in DOMAIN agents : agents'[d] = agents[d]
    BY <1>1, <2>1, <2>2, Appended
  <2> QED
    BY <2>3 DEF ClosesLate
<1>5. CASE CloseEvicted(k)
  <2>1. PICK as : as = {actor[k].agent}
    OBVIOUS
  <2>2. agents' = Shut(as) /\ agents[actor[k].agent].refs = 0
    BY <1>1, <1>5, <2>1 DEF CloseEvicted, At, RowOK
  <2> QED
    BY <2>1, <2>2, ShutUnleased
<1>6. CASE Recheck(k) \/ FlightFails(k)
  BY <1>2, <1>6 DEF Recheck, FlightFails
<1> QED
  BY <1>3, <1>4, <1>5, <1>6 DEF Flight

LEMMA RunCloses ==
  ASSUME NameAssumption, Inv, NEW c \in Callers, Run(c)
  PROVE  ClosesLate
<1>1. c \in Actors /\ RowOK(c, actor[c], agents, conns)
  BY Facts DEF Actors
<1>2. CASE UNCHANGED agents
  BY <1>2 DEF ClosesLate
<1>3. actor[c].agent \in DOMAIN agents
  BY <1>1 DEF Run, Enter, Slot, Reconnect, Reconnected, Acquire, AcquireFails, RunEnds, At,
              RowOK, AgentPc, LeasePc
<1>4. PICK a \in DOMAIN agents : a = actor[c].agent
  BY <1>3
<1>5. ASSUME agents' = [agents EXCEPT ![a] = Leave(c, @)]
      PROVE  ClosesLate
  <2>1. PICK b : b = Leave(c, agents[a])
    OBVIOUS
  <2>2. b.closed => agents[a].closed
    BY <2>1, Leaves
  <2>3. agents'[a] = b /\ \A d \in DOMAIN agents \ {a} : agents'[d] = agents[d]
    BY <1>5, <2>1
  <2> QED
    BY <2>2, <2>3 DEF ClosesLate
<1>6. CASE Enter(c)
  <2>1. PICK v : v = agents[a].running + 1
    OBVIOUS
  <2>2. UNCHANGED agents \/ agents' = [agents EXCEPT ![a].running = v]
    BY <1>4, <1>6, <2>1 DEF Enter
  <2> QED
    BY <1>2, <2>2, OneKept
<1>7. CASE Slot(c)
  BY <1>4, <1>5, <1>7, OneKept DEF Slot
<1>8. CASE Reconnected(c)
  BY <1>4, <1>8, OneKept DEF Reconnected
<1>9. CASE RunEnds(c)
  BY <1>4, <1>5, <1>9 DEF RunEnds
<1>10. CASE Reconnect(c) \/ Acquire(c) \/ AcquireFails(c)
  BY <1>2, <1>10 DEF Reconnect, Acquire, AcquireFails
<1> QED
  BY <1>6, <1>7, <1>8, <1>9, <1>10 DEF Run

LEMMA DetachCloses ==
  ASSUME Inv, NEW as \in SUBSET DOMAIN agents, Detach(as)
  PROVE  ClosesLate
<1>1. \A d \in DOMAIN agents :
         agents'[d] = IF d \in as THEN [agents[d] EXCEPT !.cached = FALSE] ELSE agents[d]
  BY DEF Detach
<1>2. \A d \in DOMAIN agents : agents[d] \in Agent
  BY AgentIs
<1> QED
  BY <1>1, <1>2 DEF ClosesLate, Agent

LEMMA NextCloses ==
  ASSUME NameAssumption, Inv, Next
  PROVE  ClosesLate
<1>1. CASE \E c \in Callers : Leasing(c) \/ Run(c)
  BY <1>1, LeasingCloses, RunCloses
<1>2. CASE \E k \in Keys : Flight(k)
  BY <1>2, FlightCloses
<1>3. CASE \E k \in Keys : Delete(k)
  BY <1>3, DetachCloses DEF Delete, Box
<1>4. CASE \E t \in Types : DeleteByAgentIdentifiers(t)
  BY <1>4, DetachCloses DEF DeleteByAgentIdentifiers
<1>5. CASE \E a \in DOMAIN agents : CloseDropped(a)
  <2>1. PICK a \in DOMAIN agents : CloseDropped(a)
    BY <1>5
  <2>2. PICK as : as = {a}
    OBVIOUS
  <2>3. CASE agents[a].refs = 0
    BY <2>1, <2>2, <2>3, ShutUnleased DEF CloseDropped
  <2>4. CASE agents[a].refs # 0
    BY <2>1, <2>4 DEF CloseDropped, ClosesLate
  <2> QED
    BY <2>3, <2>4
<1>6. CASE (\E o \in Actors : Opening(o)) \/ Closing
  <2>1. UNCHANGED agents
    BY <1>6 DEF Opening, Open, Started, Track, Session, Closing, Reap, CloseConn, Dies,
                BeginMaintenance, MaintenanceBegun, EndMaintenance, CloseAllConns
  <2> QED
    BY <2>1 DEF ClosesLate
<1> QED
  BY <1>1, <1>2, <1>3, <1>4, <1>5, <1>6 DEF Next

\* Whoever holds a lease is counted, so whoever reads zero closes an Agent without one.
LEMMA ClosesHold ==
  ASSUME NameAssumption, Inv, Next
  PROVE  ClosesUnleased
<1> SUFFICES ASSUME NEW a \in DOMAIN agents, agents'[a].closed, ~agents[a].closed,
                    ~LateRelease(a), NEW c \in Callers, HoldsLease(c), actor[c].agent = a
             PROVE  FALSE
  BY DEF ClosesUnleased
<1>1. agents[a].refs = 0
  BY NextCloses DEF ClosesLate
<1>2. c \in Lessees(a)
  BY DEF Lessees, HoldsLease, LeasePc
<1> QED
  BY <1>1, <1>2, RefsCount

-----------------------------------------------------------------------------
(***************************************************************************)
(* What is known of an Agent's runtime (AgentProbe).  Versions of the      *)
(* environment only grow, and a probe runs in the one there is when it     *)
(* begins.  So a result that its own caller began the probe for was made   *)
(* in the version it is stored for or a later one (VersionInv), and when   *)
(* it is offered there is no later one.  A result on its way to the cache  *)
(* holds the user's last selection unless it was crossed (SelectInv).      *)
(***************************************************************************)

ProbeAssumption ==
  /\ 1 \in Models
  /\ \A w \in Picks : w[1] \in {"model", "mode", "level"} /\ w[2] \in Models /\ w = <<w[1], w[2], w[3]>>

Value == {1} \cup {w[3] : w \in Picks}
Levels == UNION {[ms -> Value] : ms \in SUBSET Models}
Selection == [model : Models, mode : Value, level : Value]
Chosen == {s \in [model : Models, mode : Value, levels : Levels] : s.model \in DOMAIN s.levels}
Maybe(S) == S \cup {Probe!None}

Result == {g \in [ok : BOOLEAN, sel : Maybe(Selection), under : Nat, wipes : Nat, joined : BOOLEAN] :
             g.ok => g.sel \in Selection}
Validation == {v \in [ok : BOOLEAN, sel : Maybe(Selection), under : Nat, wipes : Nat, joined : BOOLEAN,
                      ver : Nat, ended : BOOLEAN, refreshing : BOOLEAN] : v.ok => v.sel \in Selection}
File == [entry : Maybe(Validation), owed : BOOLEAN]
Flown == [under : Nat, wipes : Nat, by : Callers]

Seen == [asks : Nat, events : Nat, last : Maybe(Selection), crossed : BOOLEAN, wipes : Nat,
         blind : BOOLEAN]

\* What a caller does: it has a validation made, tries or makes a selection, or edits.
Validating == {"run", "refresh"}
Asker == [at : {"asked", "probing", "flying"}, kind : Validating, pref : {0}, ver : Nat]
Storer == [at : {"landed", "checked", "entered", "stored"}, kind : Validating, ver : Nat, got : Result]
Retrier == [at : {"stored"}, kind : {"run"}]
Selector == [at : {"probing", "flying", "retry", "applied"}, kind : {"preview"}, pref : Models, want : Picks]
Applier == [at : {"applied", "refresh", "probing", "flying"}, kind : {"selected"}, pref : Models]
Mirrorer == [at : {"mirror"}, kind : {"preview", "selected"}, pref : Models, sel : Selection]
Editor == [at : {"edited", "wiping", "wiped"}, kind : {"edit"}, ver : Nat, saved : BOOLEAN]
Caller == {Probe!Idle} \cup Asker \cup Storer \cup Retrier \cup Selector \cup Applier \cup Mirrorer
          \cup Editor

ProbeTypeInv ==
  /\ env \in Nat
  /\ sess \in Maybe(Chosen)
  /\ valid \in Maybe(Validation)
  /\ file \in File
  /\ flight \in [Models \cup {0} -> Maybe(Flown)]
  /\ who \in [Callers -> Caller]
  /\ cooling \in BOOLEAN
  /\ pbSeen \in Seen

\* A validation that began its own probe was made in its environment or a later one.
EntryOK(v) ==
  v # Probe!None => v.ver <= env /\ v.under <= env /\ (v.ok /\ ~v.joined => v.ver <= v.under)
CallerOK(r) ==
  /\ r \in Asker \cup Storer \cup Editor => r.ver <= env
  /\ r \in Storer => /\ r.got.under <= env
                     /\ r.got.ok /\ ~r.got.joined => r.ver <= r.got.under
                     /\ r.at = "entered" => r.got.ok
FlightOK(p) ==
  flight[p] # Probe!None =>
    LET c == flight[p].by IN
    /\ flight[p].under <= env
    /\ who[c].at = "flying" /\ who[c].pref = p
    /\ who[c].kind \in Validating => who[c].ver <= flight[p].under
VersionInv ==
  /\ EntryOK(valid) /\ EntryOK(file.entry)
  /\ \A c \in Callers : CallerOK(who[c])
  /\ \A p \in Models \cup {0} : FlightOK(p)

\* What is on its way to the cache is the user's last selection, unless it was crossed.
OnItsWay(r) == r.at \in {"landed", "checked", "entered"} /\ r.got.ok
SelectInv ==
  /\ sess = Probe!None => pbSeen.last = Probe!None
  /\ pbSeen.last # Probe!None /\ ~pbSeen.crossed =>
       \A c \in Callers : OnItsWay(who[c]) => who[c].got.sel = pbSeen.last

FileInv == file.entry # Probe!None => ~file.entry.refreshing

ProbeInv ==
  /\ ProbeTypeInv /\ VersionInv /\ SelectInv /\ FileInv
  /\ Probe!RefreshingIsTended /\ Probe!SelectionKept

-----------------------------------------------------------------------------
(* Selections and sessions                                                   *)

LEMMA Present ==
  /\ \A s \in Chosen : s # Probe!None
  /\ \A v \in Validation : v # Probe!None
  /\ \A l \in Selection : l # Probe!None
  /\ \A f \in Flown : f # Probe!None
BY DEF Chosen, Validation, Selection, Flown, Probe!None

LEMMA ShownSelection ==
  ASSUME NEW s \in Chosen
  PROVE  Probe!Shown(s) \in Selection
BY DEF Chosen, Levels, Probe!Shown, Selection

LEMMA SelectionShown ==
  ASSUME NEW l \in Selection
  PROVE  Probe!FromShown(l) \in Chosen /\ Probe!Shown(Probe!FromShown(l)) = l
<1>1. Probe!LevelOf(l.model, l.level) \in [{l.model} -> Value]
  BY DEF Probe!LevelOf, Selection
<1>2. Probe!LevelOf(l.model, l.level) \in Levels
  BY <1>1 DEF Levels, Selection
<1> QED
  BY <1>2 DEF Probe!FromShown, Chosen, Probe!Shown, Selection, Probe!LevelOf

LEMMA LevelsOver ==
  ASSUME NEW f \in Levels, NEW g \in Levels
  PROVE  /\ Probe!Over(f, g) \in Levels
         /\ DOMAIN f \subseteq DOMAIN Probe!Over(f, g)
         /\ \A m \in DOMAIN f : Probe!Over(f, g)[m] = f[m]
<1>1. Probe!Over(f, g) \in [DOMAIN f \cup DOMAIN g -> Value] /\ DOMAIN f \cup DOMAIN g \in SUBSET Models
  BY DEF Probe!Over, Levels
<1> QED
  BY <1>1 DEF Levels, Probe!Over

LEMMA FreshSession ==
  ASSUME ProbeAssumption, NEW p \in Models \cup {0}
  PROVE  Probe!Fresh(p) \in Chosen
<1>1. {1, p} \ {0} \in SUBSET Models
  BY DEF ProbeAssumption
<1>2. Probe!Fresh(p).levels \in [{1, p} \ {0} -> Value]
  BY DEF Probe!Fresh, Value
<1>3. Probe!Fresh(p).levels \in Levels
  BY <1>1, <1>2 DEF Levels
<1> QED
  BY <1>1, <1>3 DEF Probe!Fresh, Chosen, ProbeAssumption, Value

\* A refresh brings lists and keeps the selection.
LEMMA MergedSession ==
  ASSUME NEW old \in Maybe(Chosen), NEW fresh \in Chosen
  PROVE  /\ Probe!Merged(old, fresh) \in Chosen
         /\ old # Probe!None => Probe!Shown(Probe!Merged(old, fresh)) = Probe!Shown(old)
<1>1. CASE old = Probe!None
  BY <1>1 DEF Probe!Merged
<1>2. CASE old # Probe!None
  <2>1. /\ old \in Chosen
        /\ Probe!Merged(old, fresh) = [old EXCEPT !.levels = Probe!Over(old.levels, fresh.levels)]
    BY <1>2 DEF Probe!Merged, Maybe
  <2>2. /\ Probe!Over(old.levels, fresh.levels) \in Levels
        /\ DOMAIN old.levels \subseteq DOMAIN Probe!Over(old.levels, fresh.levels)
        /\ \A m \in DOMAIN old.levels : Probe!Over(old.levels, fresh.levels)[m] = old.levels[m]
    BY <2>1, LevelsOver DEF Chosen
  <2> QED
    BY <2>1, <2>2 DEF Chosen, Probe!Shown
<1> QED
  BY <1>1, <1>2

\* The selection a user makes in what the cache knows.
LEMMA AppliedSession ==
  ASSUME NEW w \in Picks, ProbeAssumption, sess \in Chosen, Probe!Known(w[1], w[2])
  PROVE  Probe!Applied(w[1], w[2], w[3]) \in Chosen
<1>1. w[3] \in Value /\ w[2] \in Models /\ w[1] \in {"model", "mode", "level"}
  BY DEF Value, ProbeAssumption
<1>2. CASE w[1] = "model"
  <2>1. Probe!Applied(w[1], w[2], w[3]) = [sess EXCEPT !.model = w[2]] /\ w[2] \in DOMAIN sess.levels
    BY <1>2 DEF Probe!Applied, Probe!Known
  <2> QED
    BY <1>1, <2>1 DEF Chosen
<1>3. CASE w[1] = "mode"
  <2>1. Probe!Applied(w[1], w[2], w[3]) = [sess EXCEPT !.mode = w[3]]
    BY <1>3 DEF Probe!Applied
  <2> QED
    BY <1>1, <2>1 DEF Chosen
<1>4. CASE w[1] = "level"
  <2> DEFINE levels == [sess.levels EXCEPT ![w[2]] = w[3]]
  <2>1. Probe!Applied(w[1], w[2], w[3]) = [sess EXCEPT !.model = w[2], !.levels = levels]
        /\ w[2] \in DOMAIN sess.levels
    BY <1>4 DEF Probe!Applied, Probe!Known, Chosen
  <2>2. levels \in Levels /\ DOMAIN levels = DOMAIN sess.levels
    BY <1>1 DEF Chosen, Levels
  <2> QED
    BY <1>1, <2>1, <2>2 DEF Chosen
<1> QED
  BY <1>1, <1>2, <1>3, <1>4

-----------------------------------------------------------------------------
(* Callers                                                                   *)

LEMMA Shapes ==
  ASSUME NEW r \in Caller
  PROVE  /\ r.at = "idle" => r = Probe!Idle
         /\ r.at = "asked" => r \in Asker
         /\ r.at = "probing" => r \in Asker \cup Selector \cup Applier
         /\ r.at = "flying" => r \in Asker \cup Selector \cup Applier
         /\ r.at \in {"landed", "checked", "entered"} => r \in Storer
         /\ r.at = "stored" => r \in Storer \cup Retrier
         /\ r.at = "retry" => r \in Selector
         /\ r.at = "applied" => r \in Selector \cup Applier
         /\ r.at = "refresh" => r \in Applier
         /\ r.at = "mirror" => r \in Mirrorer
         /\ r.at \in {"edited", "wiping", "wiped"} => r \in Editor
BY DEF Caller, Probe!Idle, Asker, Storer, Retrier, Selector, Applier, Mirrorer, Editor

LEMMA MovedTo ==
  ASSUME NEW x
  PROVE  /\ \A r \in Asker : x \in {"asked", "probing", "flying"} =>
              /\ [r EXCEPT !.at = x] \in Asker
              /\ [r EXCEPT !.at = x].at = x /\ [r EXCEPT !.at = x].pref = r.pref
              /\ [r EXCEPT !.at = x].kind = r.kind /\ [r EXCEPT !.at = x].ver = r.ver
         /\ \A r \in Storer : x \in {"landed", "checked", "entered", "stored"} =>
              /\ [r EXCEPT !.at = x] \in Storer
              /\ [r EXCEPT !.at = x].at = x /\ [r EXCEPT !.at = x].got = r.got
              /\ [r EXCEPT !.at = x].kind = r.kind /\ [r EXCEPT !.at = x].ver = r.ver
         /\ \A r \in Selector : x \in {"probing", "flying", "retry", "applied"} =>
              /\ [r EXCEPT !.at = x] \in Selector
              /\ [r EXCEPT !.at = x].at = x /\ [r EXCEPT !.at = x].pref = r.pref
              /\ [r EXCEPT !.at = x].kind = r.kind
         /\ \A r \in Applier : x \in {"applied", "refresh", "probing", "flying"} =>
              /\ [r EXCEPT !.at = x] \in Applier
              /\ [r EXCEPT !.at = x].at = x /\ [r EXCEPT !.at = x].pref = r.pref
              /\ [r EXCEPT !.at = x].kind = r.kind
         /\ \A r \in Editor : x \in {"edited", "wiping", "wiped"} =>
              /\ [r EXCEPT !.at = x] \in Editor
              /\ [r EXCEPT !.at = x].at = x
              /\ [r EXCEPT !.at = x].ver = r.ver /\ [r EXCEPT !.at = x].saved = r.saved
BY DEF Asker, Storer, Selector, Applier, Editor

\* Only validations and edits have a version, and only validations a result.
LEMMA OthersOK ==
  ASSUME NEW r \in {Probe!Idle} \cup Retrier \cup Selector \cup Applier \cup Mirrorer
  PROVE  CallerOK(r) /\ ~OnItsWay(r)
BY DEF CallerOK, OnItsWay, Probe!Idle, Retrier, Selector, Applier, Mirrorer, Asker, Storer, Editor

LEMMA AskersOK ==
  /\ \A r \in Asker : (r.ver <= env => CallerOK(r)) /\ ~OnItsWay(r)
  /\ \A r \in Editor : (r.ver <= env => CallerOK(r)) /\ ~OnItsWay(r)
BY DEF CallerOK, OnItsWay, Asker, Storer, Editor

\* One caller takes a step that is not the end of a probe.
LEMMA StepVersions ==
  ASSUME ProbeTypeInv, VersionInv, NEW c \in Callers, NEW s \in Caller,
         who[c].at # "flying", who' = [who EXCEPT ![c] = s], UNCHANGED <<env, flight>>,
         sess' \in Maybe(Chosen), valid' \in Maybe(Validation), file' \in File,
         cooling' \in BOOLEAN, pbSeen' \in Seen,
         EntryOK(valid)', EntryOK(file.entry)', CallerOK(s)
  PROVE  ProbeTypeInv' /\ VersionInv'
<1>1. ProbeTypeInv'
  BY DEF ProbeTypeInv
<1>2. \A d \in Callers : CallerOK(who[d])'
  BY DEF ProbeTypeInv, VersionInv, CallerOK
<1>3. ASSUME NEW p \in Models \cup {0}
      PROVE  FlightOK(p)'
  <2>1. FlightOK(p) /\ flight[p] \in Maybe(Flown)
    BY DEF VersionInv, ProbeTypeInv
  <2> QED
    BY <2>1 DEF FlightOK, Maybe, Flown, ProbeTypeInv
<1> QED
  BY <1>1, <1>2, <1>3 DEF VersionInv

\* It leaves the selection alone.
LEMMA StepSelection ==
  ASSUME ProbeTypeInv, SelectInv, Probe!SelectionKept, NEW c \in Callers, NEW s \in Caller,
         who' = [who EXCEPT ![c] = s], sess' = sess,
         pbSeen'.last = pbSeen.last, pbSeen'.crossed = pbSeen.crossed,
         OnItsWay(s) => OnItsWay(who[c]) /\ s.got = who[c].got
  PROVE  SelectInv' /\ Probe!SelectionKept'
BY DEF ProbeTypeInv, SelectInv, Probe!SelectionKept, OnItsWay

\* Who sees to the validation that is shown as being made.
Tends(r) == r.at \in {"probing", "flying", "landed", "checked"} /\ r.kind \notin {"preview", "selected"}
LEMMA StepTended ==
  ASSUME ProbeTypeInv, Probe!RefreshingIsTended, NEW c \in Callers, NEW s \in Caller,
         who' = [who EXCEPT ![c] = s], UNCHANGED env,
         Probe!Matched' /\ valid'.refreshing => Probe!Matched /\ valid.refreshing,
         Tends(who[c]) /\ who[c].ver = env /\ Probe!Matched' /\ valid'.refreshing
           => Tends(s) /\ s.ver = who[c].ver
  PROVE  Probe!RefreshingIsTended'
BY DEF ProbeTypeInv, Probe!RefreshingIsTended, Tends

\* It does so without a change of the caches and the file.
LEMMA StepAlone ==
  ASSUME ProbeInv, NEW c \in Callers, NEW s \in Caller,
         who' = [who EXCEPT ![c] = s], UNCHANGED <<env, sess, valid, file, flight, cooling>>,
         pbSeen' \in Seen, pbSeen'.last = pbSeen.last, pbSeen'.crossed = pbSeen.crossed,
         who[c].at # "flying", CallerOK(s),
         OnItsWay(s) => OnItsWay(who[c]) /\ s.got = who[c].got,
         Tends(who[c]) /\ who[c].ver = env => Tends(s) /\ s.ver = who[c].ver
  PROVE  ProbeInv'
<1>1. ProbeTypeInv' /\ VersionInv'
  <2>1. EntryOK(valid)' /\ EntryOK(file.entry)'
    BY DEF ProbeInv, VersionInv, EntryOK
  <2> QED
    BY <2>1, StepVersions DEF ProbeInv, ProbeTypeInv
<1>2. SelectInv' /\ Probe!SelectionKept'
  BY StepSelection DEF ProbeInv
<1>3. Probe!RefreshingIsTended'
  BY StepTended DEF ProbeInv, Probe!Matched
<1> QED
  BY <1>1, <1>2, <1>3 DEF ProbeInv, FileInv

-----------------------------------------------------------------------------
(* A validation                                                              *)

LEMMA AskedCaller ==
  ASSUME NEW kind \in Validating, NEW ver \in Nat
  PROVE  Probe!Asked(kind, ver) \in Asker /\ Probe!Asked(kind, ver).ver = ver
BY DEF Probe!Asked, Asker

LEMMA RefreshAsyncInv ==
  ASSUME ProbeInv, NEW c \in Callers, Probe!RefreshAsync(c)
  PROVE  ProbeInv'
<1> DEFINE s == Probe!Asked("refresh", env)
<1>1. s \in Asker /\ s.ver = env
  BY AskedCaller DEF ProbeInv, ProbeTypeInv, Validating
<1>2. s \in Caller /\ CallerOK(s) /\ ~OnItsWay(s)
  BY <1>1, AskersOK DEF ProbeInv, ProbeTypeInv, Caller
<1>3. who[c].at = "idle"
  BY DEF Probe!RefreshAsync, Probe!Idle
<1>4. pbSeen' \in Seen /\ pbSeen'.last = pbSeen.last /\ pbSeen'.crossed = pbSeen.crossed
  BY DEF Probe!RefreshAsync, Probe!Asking, ProbeInv, ProbeTypeInv, Seen
<1> QED
  BY <1>2, <1>3, <1>4, StepAlone DEF Probe!RefreshAsync, Probe!Goes, Tends

LEMMA EnsureAvailableInv ==
  ASSUME ProbeInv, NEW c \in Callers, Probe!EnsureAvailable(c)
  PROVE  ProbeInv'
<1>1. who[c].at = "idle" /\ who[c] \in Caller
  BY DEF Probe!EnsureAvailable, Probe!Idle, ProbeInv, ProbeTypeInv
<1>2. pbSeen' \in Seen /\ pbSeen'.last = pbSeen.last /\ pbSeen'.crossed = pbSeen.crossed
  <2> DEFINE seen == [pbSeen EXCEPT !.asks = @ + 1]
  <2>1. seen \in Seen /\ seen.last = pbSeen.last /\ seen.crossed = pbSeen.crossed
    BY DEF ProbeInv, ProbeTypeInv, Seen
  <2>2. Probe!Matched => valid.ended \in BOOLEAN
    BY DEF ProbeInv, ProbeTypeInv, Probe!Matched, Maybe, Validation
  <2>3. pbSeen' = seen \/ (Probe!Matched /\ pbSeen' = [seen EXCEPT !.blind = @ \/ ~valid.ended])
    BY DEF Probe!EnsureAvailable
  <2> QED
    BY <2>1, <2>2, <2>3 DEF Seen
<1>3. PICK s \in Caller : who' = [who EXCEPT ![c] = s] /\ CallerOK(s) /\ ~OnItsWay(s)
  <2>1. CASE Probe!Goes(c, Probe!Asked("run", env))
    <3>1. Probe!Asked("run", env) \in Asker /\ Probe!Asked("run", env).ver = env
      BY AskedCaller DEF ProbeInv, ProbeTypeInv, Validating
    <3>2. CallerOK(Probe!Asked("run", env)) /\ ~OnItsWay(Probe!Asked("run", env))
      BY <3>1, AskersOK DEF ProbeInv, ProbeTypeInv
    <3> QED
      BY <2>1, <3>1, <3>2 DEF Probe!Goes, Caller
  <2>2. CASE Probe!Goes(c, [at |-> "stored", kind |-> "run"])
    <3>1. [at |-> "stored", kind |-> "run"] \in Retrier
      BY DEF Retrier
    <3> QED
      BY <2>2, <3>1, OthersOK DEF Probe!Goes, Caller
  <2>3. CASE UNCHANGED who
    <3>1. who[c] = Probe!Idle /\ who' = [who EXCEPT ![c] = who[c]]
      BY <2>3 DEF Probe!EnsureAvailable, ProbeInv, ProbeTypeInv
    <3> QED
      BY <1>1, <3>1, OthersOK
  <2> QED
    BY <2>1, <2>2, <2>3 DEF Probe!EnsureAvailable
<1> QED
  BY <1>1, <1>2, <1>3, StepAlone DEF Probe!EnsureAvailable, Tends

LEMMA MarkInv ==
  ASSUME ProbeInv, NEW c \in Callers, Probe!Mark(c)
  PROVE  ProbeInv'
<1> DEFINE s == [who[c] EXCEPT !.at = "probing"]
<1>1. who[c] \in Asker /\ who[c].at = "asked" /\ who[c].ver \in Nat /\ who[c].ver <= env
  <2>1. who[c] \in Asker
    BY Shapes DEF Probe!Mark, ProbeInv, ProbeTypeInv
  <2> QED
    BY <2>1 DEF ProbeInv, VersionInv, CallerOK, Asker, Probe!Mark
<1>2. /\ s \in Asker /\ s.ver = who[c].ver /\ s.at = "probing" /\ s.kind = who[c].kind
      /\ who[c].kind \in Validating
  BY <1>1, MovedTo DEF Asker
<1>3. s \in Caller /\ CallerOK(s) /\ ~OnItsWay(s) /\ who' = [who EXCEPT ![c] = s]
  BY <1>1, <1>2, AskersOK DEF Probe!Mark, Probe!Moves, Caller
<1>4. /\ valid' \in Maybe(Validation) /\ EntryOK(valid)'
      /\ valid' = valid \/ valid'.ver = who[c].ver
  <2>1. CASE valid # Probe!None /\ valid.ver = who[c].ver
    <3>1. valid \in Validation /\ valid' = [valid EXCEPT !.refreshing = TRUE]
      BY <2>1 DEF Probe!Mark, ProbeInv, ProbeTypeInv, Maybe
    <3>2. valid' \in Validation /\ valid'.ver = valid.ver /\ valid'.under = valid.under
          /\ valid'.ok = valid.ok /\ valid'.joined = valid.joined
      BY <3>1 DEF Validation
    <3> QED
      BY <2>1, <3>2 DEF EntryOK, ProbeInv, VersionInv, Maybe, Probe!Mark
  <2>2. CASE ~(valid # Probe!None /\ valid.ver = who[c].ver)
    <3>1. valid' = [ver |-> who[c].ver, ok |-> FALSE, ended |-> FALSE, sel |-> Probe!None, under |-> 0,
                    joined |-> FALSE, wipes |-> 0, refreshing |-> TRUE]
      BY <2>2 DEF Probe!Mark
    <3>2. valid' \in Validation /\ valid'.ver = who[c].ver /\ valid'.under = 0 /\ ~valid'.ok
      BY <1>1, <3>1 DEF Validation, Maybe
    <3> QED
      BY <1>1, <3>2 DEF EntryOK, Maybe, Probe!Mark, ProbeInv, ProbeTypeInv
  <2> QED
    BY <2>1, <2>2
<1>5. ProbeTypeInv' /\ VersionInv'
  <2>1. EntryOK(file.entry)'
    BY DEF Probe!Mark, ProbeInv, VersionInv, EntryOK
  <2> QED
    BY <1>1, <1>3, <1>4, <2>1, StepVersions DEF Probe!Mark, ProbeInv, ProbeTypeInv
<1>6. SelectInv' /\ Probe!SelectionKept'
  BY <1>3, StepSelection DEF ProbeInv, Probe!Mark
<1>7. Probe!RefreshingIsTended'
  <2> SUFFICES ASSUME Probe!Matched', valid'.refreshing
               PROVE  \E d \in Callers : Tends(who'[d]) /\ who'[d].ver = env
    BY DEF Probe!RefreshingIsTended, Probe!Mark, Tends
  <2>1. CASE valid' = valid
    <3>1. PICK d \in Callers : Tends(who[d]) /\ who[d].ver = env
      BY <2>1 DEF ProbeInv, Probe!RefreshingIsTended, Tends, Probe!Matched, Probe!Mark
    <3>2. d # c
      BY <1>1, <3>1 DEF Tends
    <3> QED
      BY <1>3, <3>1, <3>2
  <2>2. CASE valid'.ver = who[c].ver
    <3>1. who'[c] = s
      BY <1>3 DEF ProbeInv, ProbeTypeInv
    <3> QED
      BY <1>2, <2>2, <3>1 DEF Tends, Validating, Probe!Matched, Probe!Mark
  <2> QED
    BY <1>4, <2>1, <2>2
<1> QED
  BY <1>5, <1>6, <1>7 DEF ProbeInv, FileInv, Probe!Mark

\* The probe that is begun is of the environment there is.
LEMMA FlyInv ==
  ASSUME ProbeInv, NEW c \in Callers, Probe!Fly(c)
  PROVE  ProbeInv'
<1> DEFINE p == who[c].pref
           s == [who[c] EXCEPT !.at = "flying"]
<1>1. who[c] \in Asker \cup Selector \cup Applier /\ who[c].at = "probing"
  BY Shapes DEF Probe!Fly, ProbeInv, ProbeTypeInv
<1>2. /\ s \in Asker \cup Selector \cup Applier /\ s.at = "flying" /\ s.kind = who[c].kind
      /\ s.pref = p /\ p \in Models \cup {0}
      /\ who[c].kind \in Validating =>
           who[c] \in Asker /\ s \in Asker /\ s.ver = who[c].ver /\ who[c].ver \in Nat /\ who[c].ver <= env
      /\ who[c].kind \notin Validating => who[c].kind \in {"preview", "selected"}
  <2>1. CASE who[c] \in Asker
    <3>1. who[c].ver <= env /\ who[c].kind \in Validating /\ who[c].ver \in Nat /\ p = 0
      BY <2>1 DEF ProbeInv, VersionInv, CallerOK, Asker
    <3> QED
      BY <2>1, <3>1, MovedTo
  <2>2. CASE who[c] \in Selector
    <3>1. who[c].kind = "preview" /\ p \in Models
      BY <2>2 DEF Selector
    <3> QED
      BY <2>2, <3>1, MovedTo DEF Validating
  <2>3. CASE who[c] \in Applier
    <3>1. who[c].kind = "selected" /\ p \in Models
      BY <2>3 DEF Applier
    <3> QED
      BY <2>3, <3>1, MovedTo DEF Validating
  <2> QED
    BY <1>1, <2>1, <2>2, <2>3
<1>3. s \in Caller /\ ~OnItsWay(s) /\ who' = [who EXCEPT ![c] = s]
  BY <1>2 DEF Probe!Fly, Probe!Moves, Caller, OnItsWay
<1>4. CallerOK(s)
  <2>1. CASE s \in Asker
    <3>1. s.kind \in Validating
      BY <2>1 DEF Asker
    <3> QED
      BY <1>2, <3>1, AskersOK
  <2>2. CASE s \in Selector \cup Applier
    BY <2>2, OthersOK
  <2> QED
    BY <1>2, <2>1, <2>2
<1>5. CASE flight' = flight
  <2>1. ProbeTypeInv' /\ VersionInv'
    <3>1. EntryOK(valid)' /\ EntryOK(file.entry)'
      BY DEF Probe!Fly, ProbeInv, VersionInv, EntryOK
    <3> QED
      BY <1>1, <1>3, <1>4, <1>5, <3>1, StepVersions DEF Probe!Fly, ProbeInv, ProbeTypeInv
  <2>2. SelectInv' /\ Probe!SelectionKept'
    BY <1>3, StepSelection DEF ProbeInv, Probe!Fly
  <2>3. Probe!RefreshingIsTended'
    <3>1. Tends(who[c]) /\ who[c].ver = env => Tends(s) /\ s.ver = who[c].ver
      BY <1>2 DEF Tends
    <3> QED
      BY <1>3, <3>1, StepTended DEF Probe!Fly, ProbeInv, Probe!Matched
  <2> QED
    BY <2>1, <2>2, <2>3 DEF ProbeInv, FileInv, Probe!Fly
<1>6. CASE /\ flight[p] = Probe!None
           /\ flight' = [flight EXCEPT ![p] = [under |-> env, wipes |-> pbSeen.wipes, by |-> c]]
  <2>1. ProbeTypeInv'
    <3>1. [under |-> env, wipes |-> pbSeen.wipes, by |-> c] \in Flown
      BY DEF Flown, ProbeInv, ProbeTypeInv, Seen
    <3> QED
      BY <1>2, <1>3, <1>6, <3>1 DEF ProbeInv, ProbeTypeInv, Probe!Fly, Maybe
  <2>2. VersionInv'
    <3>1. EntryOK(valid)' /\ EntryOK(file.entry)'
      BY DEF Probe!Fly, ProbeInv, VersionInv, EntryOK
    <3>2. \A d \in Callers : CallerOK(who[d])'
      BY <1>3, <1>4 DEF ProbeInv, ProbeTypeInv, VersionInv, CallerOK, Probe!Fly
    <3>3. ASSUME NEW q \in Models \cup {0}
          PROVE  FlightOK(q)'
      <4>1. CASE q = p
        <5>1. flight'[q] = [under |-> env, wipes |-> pbSeen.wipes, by |-> c] /\ who'[c] = s
          BY <1>2, <1>3, <1>6, <4>1 DEF ProbeInv, ProbeTypeInv
        <5>2. flight'[q].by = c /\ flight'[q].under = env /\ env' = env /\ env \in Nat
          BY <5>1 DEF Probe!Fly, ProbeInv, ProbeTypeInv
        <5>3. s.at = "flying" /\ s.pref = q /\ (s.kind \in Validating => s.ver <= env)
          BY <1>2, <4>1
        <5> HIDE DEF s, p
        <5>4. /\ flight'[q].under <= env' /\ who'[flight'[q].by].at = "flying"
              /\ who'[flight'[q].by].pref = q
              /\ who'[flight'[q].by].kind \in Validating => who'[flight'[q].by].ver <= flight'[q].under
          BY <5>1, <5>2, <5>3
        <5> QED
          BY <5>4 DEF FlightOK
      <4>2. CASE q # p
        <5>1. flight'[q] = flight[q] /\ flight[q] \in Maybe(Flown) /\ FlightOK(q)
          BY <1>2, <1>6, <4>2 DEF ProbeInv, ProbeTypeInv, VersionInv
        <5>2. \A d \in Callers : d # c => who'[d] = who[d]
          BY <1>3 DEF ProbeInv, ProbeTypeInv
        <5> QED
          BY <1>1, <5>1, <5>2 DEF FlightOK, Probe!Fly, Maybe, Flown
      <4> QED
        BY <4>1, <4>2
    <3> QED
      BY <3>1, <3>2, <3>3 DEF VersionInv
  <2>3. SelectInv' /\ Probe!SelectionKept'
    BY <1>3, StepSelection DEF ProbeInv, Probe!Fly
  <2>4. Probe!RefreshingIsTended'
    <3>1. Tends(who[c]) /\ who[c].ver = env => Tends(s) /\ s.ver = who[c].ver
      BY <1>2 DEF Tends
    <3> QED
      BY <1>3, <3>1, StepTended DEF Probe!Fly, ProbeInv, Probe!Matched
  <2> QED
    BY <2>1, <2>2, <2>3, <2>4 DEF ProbeInv, FileInv, Probe!Fly
<1> QED
  BY <1>5, <1>6 DEF Probe!Fly

\* What the end of a probe makes of a caller that waited for it.
Outcome == {r \in [ok : BOOLEAN, sel : Maybe(Selection)] : r.ok => r.sel \in Selection}
Aboard(p, c) == who[c].at = "flying" /\ who[c].pref = p
Handed(p, c, result) ==
  IF who[c].kind = "preview" /\ result.ok THEN [who[c] EXCEPT !.at = "retry"]
  ELSE IF who[c].kind \in {"preview", "selected"} THEN Probe!Idle
  ELSE Probe!Validated(c, flight[p], result)

LEMMA ValidatedCaller ==
  ASSUME ProbeInv, NEW p \in Models \cup {0}, NEW c \in Callers, NEW result \in Outcome,
         flight[p] # Probe!None, Aboard(p, c), who[c].kind \in Validating
  PROVE  LET v == Probe!Validated(c, flight[p], result) IN
         /\ v \in Storer /\ CallerOK(v) /\ v.at = "landed"
         /\ v.kind = who[c].kind /\ v.ver = who[c].ver
         /\ v.got.ok = result.ok /\ v.got.sel = result.sel
<1> DEFINE v == Probe!Validated(c, flight[p], result)
<1>1. /\ flight[p] \in Flown /\ flight[p].under <= env
      /\ flight[p].by = c => who[c].ver <= flight[p].under
  BY DEF ProbeInv, ProbeTypeInv, VersionInv, FlightOK, Maybe
<1>2. who[c] \in Asker /\ who[c].ver \in Nat /\ who[c].ver <= env
  <2>1. who[c] \in Asker
    BY Shapes DEF Aboard, ProbeInv, ProbeTypeInv, Validating, Selector, Applier
  <2> QED
    BY <2>1 DEF ProbeInv, VersionInv, CallerOK, Asker
<1>3. /\ v.at = "landed" /\ v.kind = who[c].kind /\ v.ver = who[c].ver
      /\ v.got.ok = result.ok /\ v.got.sel = result.sel
      /\ v.got.under = flight[p].under /\ v.got.joined = (flight[p].by # c)
  BY DEF Probe!Validated
<1>4. v.got \in Result
  BY <1>1 DEF Probe!Validated, Result, Outcome, Flown
<1>5. v \in Storer
  BY <1>2, <1>4 DEF Probe!Validated, Storer
<1>6. CallerOK(v)
  BY <1>1, <1>2, <1>3 DEF CallerOK
<1> QED
  BY <1>3, <1>5, <1>6

LEMMA HandedCaller ==
  ASSUME ProbeInv, NEW p \in Models \cup {0}, NEW c \in Callers, NEW result \in Outcome,
         flight[p] # Probe!None, Aboard(p, c)
  PROVE  LET s == Handed(p, c, result) IN
         /\ s \in Caller /\ CallerOK(s)
         /\ OnItsWay(s) => result.ok /\ s.got.sel = result.sel
         /\ Tends(who[c]) => Tends(s) /\ s.ver = who[c].ver
<1> DEFINE s == Handed(p, c, result)
<1>1. who[c] \in Asker \cup Selector \cup Applier
  BY Shapes DEF Aboard, ProbeInv, ProbeTypeInv
<1>2. CASE who[c].kind \in Validating
  <2>1. s = Probe!Validated(c, flight[p], result)
    BY <1>2 DEF Handed, Validating
  <2> QED
    BY <1>2, <2>1, ValidatedCaller DEF Caller, OnItsWay, Tends, Validating
<1>3. CASE who[c].kind = "preview" /\ result.ok
  <2>1. who[c] \in Selector
    BY <1>1, <1>3 DEF Asker, Applier, Validating
  <2>2. s \in Selector
    BY <1>3, <2>1, MovedTo DEF Handed
  <2> QED
    BY <1>3, <2>2, OthersOK DEF Caller, Tends
<1>4. CASE who[c].kind = "selected" \/ (who[c].kind = "preview" /\ ~result.ok)
  <2>1. s = Probe!Idle
    BY <1>4 DEF Handed
  <2> QED
    BY <1>4, <2>1, OthersOK DEF Caller, Tends
<1>5. who[c].kind \in Validating \cup {"preview", "selected"}
  BY <1>1 DEF Asker, Selector, Applier
<1> QED
  BY <1>2, <1>3, <1>4, <1>5

LEMMA LandStep ==
  ASSUME ProbeInv, NEW p \in Models \cup {0}, NEW result \in Outcome,
         flight[p] # Probe!None, flight' = [flight EXCEPT ![p] = Probe!None],
         who' = [c \in Callers |-> IF Aboard(p, c) THEN Handed(p, c, result) ELSE who[c]],
         UNCHANGED <<env, valid, file>>,
         sess' \in Maybe(Chosen), cooling' \in BOOLEAN, pbSeen' \in Seen
  PROVE  /\ ProbeTypeInv' /\ VersionInv' /\ FileInv' /\ Probe!RefreshingIsTended'
         /\ \A c \in Callers : OnItsWay(who'[c]) =>
              \/ OnItsWay(who[c]) /\ who'[c].got = who[c].got
              \/ result.ok /\ who'[c].got.sel = result.sel
<1>1. \A c \in Callers :
        /\ who'[c] \in Caller /\ CallerOK(who[c])'
        /\ Tends(who[c]) => Tends(who'[c]) /\ who'[c].ver = who[c].ver
        /\ OnItsWay(who'[c]) => \/ OnItsWay(who[c]) /\ who'[c].got = who[c].got
                                \/ result.ok /\ who'[c].got.sel = result.sel
  <2> SUFFICES ASSUME NEW c \in Callers
               PROVE  /\ who'[c] \in Caller /\ CallerOK(who[c])'
                      /\ Tends(who[c]) => Tends(who'[c]) /\ who'[c].ver = who[c].ver
                      /\ OnItsWay(who'[c]) => \/ OnItsWay(who[c]) /\ who'[c].got = who[c].got
                                              \/ result.ok /\ who'[c].got.sel = result.sel
    OBVIOUS
  <2>1. CASE Aboard(p, c)
    <3>1. who'[c] = Handed(p, c, result)
      BY <2>1
    <3>2. CallerOK(Handed(p, c, result)) => CallerOK(who[c])'
      BY <3>1 DEF CallerOK
    <3> QED
      BY <2>1, <3>1, <3>2, HandedCaller
  <2>2. CASE ~Aboard(p, c)
    BY <2>2 DEF ProbeInv, ProbeTypeInv, VersionInv, CallerOK
  <2> QED
    BY <2>1, <2>2
<1>2. ProbeTypeInv'
  <2>1. flight' \in [Models \cup {0} -> Maybe(Flown)]
    BY DEF ProbeInv, ProbeTypeInv, Maybe
  <2>2. who' \in [Callers -> Caller]
    BY <1>1
  <2> QED
    BY <2>1, <2>2 DEF ProbeInv, ProbeTypeInv
<1>3. ASSUME NEW q \in Models \cup {0}
      PROVE  FlightOK(q)'
  <2>1. CASE q = p
    BY <2>1 DEF FlightOK, ProbeInv, ProbeTypeInv
  <2>2. CASE q # p
    <3>1. flight'[q] = flight[q] /\ flight[q] \in Maybe(Flown) /\ FlightOK(q)
      BY <2>2 DEF ProbeInv, ProbeTypeInv, VersionInv
    <3> QED
      BY <2>2, <3>1 DEF FlightOK, Aboard, Maybe, Flown
  <2> QED
    BY <2>1, <2>2
<1>4. VersionInv'
  <2>1. EntryOK(valid)' /\ EntryOK(file.entry)'
    BY DEF ProbeInv, VersionInv, EntryOK
  <2> QED
    BY <1>1, <1>3, <2>1 DEF VersionInv
<1>5. Probe!RefreshingIsTended'
  BY <1>1 DEF ProbeInv, Probe!RefreshingIsTended, Tends, Probe!Matched
<1> QED
  BY <1>1, <1>2, <1>4, <1>5 DEF ProbeInv, FileInv

LEMMA LandInv ==
  ASSUME ProbeAssumption, ProbeInv, NEW p \in Models \cup {0}, Probe!Land(p)
  PROVE  ProbeInv'
<1> DEFINE Hands(result) ==
      who' = [c \in Callers |-> IF Aboard(p, c) THEN Handed(p, c, result) ELSE who[c]]
<1>1. flight[p] # Probe!None /\ flight' = [flight EXCEPT ![p] = Probe!None] /\ UNCHANGED <<env, valid, file>>
  BY DEF Probe!Land
<1>2. CASE /\ sess' = Probe!Merged(sess, Probe!Fresh(p)) /\ cooling' = FALSE /\ pbSeen' = pbSeen
           /\ Hands([ok |-> TRUE, sel |-> Probe!Shown(sess')])
  <2> DEFINE result == [ok |-> TRUE, sel |-> Probe!Shown(sess')]
  <2>1. /\ sess' \in Chosen /\ Probe!Shown(sess') \in Selection
        /\ sess # Probe!None => Probe!Shown(sess') = Probe!Shown(sess)
    BY <1>2, FreshSession, MergedSession, ShownSelection DEF ProbeInv, ProbeTypeInv
  <2>2. result \in Outcome
    BY <2>1 DEF Outcome, Maybe
  <2>3. /\ ProbeTypeInv' /\ VersionInv' /\ FileInv' /\ Probe!RefreshingIsTended'
        /\ \A c \in Callers : OnItsWay(who'[c]) =>
              \/ OnItsWay(who[c]) /\ who'[c].got = who[c].got
              \/ who'[c].got.sel = Probe!Shown(sess')
    <3>1. sess' \in Maybe(Chosen) /\ cooling' \in BOOLEAN /\ pbSeen' \in Seen
      BY <1>2, <2>1 DEF Maybe, ProbeInv, ProbeTypeInv
    <3> QED
      BY <1>1, <1>2, <2>2, <3>1, LandStep
  <2>4. pbSeen.last # Probe!None => sess # Probe!None
    BY DEF ProbeInv, SelectInv
  <2>5. SelectInv' /\ Probe!SelectionKept'
    BY <1>2, <2>1, <2>3, <2>4, Present DEF ProbeInv, SelectInv, Probe!SelectionKept
  <2> QED
    BY <2>3, <2>5 DEF ProbeInv
<1>3. CASE /\ UNCHANGED sess /\ cooling' = TRUE /\ pbSeen' = Probe!Faulty
           /\ Hands([ok |-> FALSE, sel |-> Probe!None])
  <2> DEFINE result == [ok |-> FALSE, sel |-> Probe!None]
  <2>1. result \in Outcome
    BY DEF Outcome, Maybe
  <2>2. /\ sess' \in Maybe(Chosen) /\ cooling' \in BOOLEAN /\ pbSeen' \in Seen
        /\ pbSeen'.last = pbSeen.last /\ pbSeen'.crossed = pbSeen.crossed
    BY <1>3 DEF Probe!Faulty, Seen, ProbeInv, ProbeTypeInv
  <2>3. /\ ProbeTypeInv' /\ VersionInv' /\ FileInv' /\ Probe!RefreshingIsTended'
        /\ \A c \in Callers : OnItsWay(who'[c]) => OnItsWay(who[c]) /\ who'[c].got = who[c].got
    BY <1>1, <1>3, <2>1, <2>2, LandStep
  <2>4. SelectInv' /\ Probe!SelectionKept'
    BY <1>3, <2>2, <2>3 DEF ProbeInv, SelectInv, Probe!SelectionKept
  <2> QED
    BY <2>3, <2>4 DEF ProbeInv
<1> QED
  BY <1>2, <1>3 DEF Probe!Land, Aboard, Handed

LEMMA StorerFacts ==
  ASSUME ProbeInv, NEW c \in Callers, who[c] \in Storer
  PROVE  /\ who[c].ver \in Nat /\ who[c].ver <= env /\ who[c].kind \in Validating
         /\ who[c].got \in Result /\ who[c].got.under <= env
         /\ who[c].got.ok /\ ~who[c].got.joined => who[c].ver <= who[c].got.under
         /\ who[c].at = "entered" => who[c].got.ok
BY DEF ProbeInv, VersionInv, CallerOK, Storer

LEMMA StoreCheckedInv ==
  ASSUME ProbeInv, NEW c \in Callers, Probe!StoreChecked(c)
  PROVE  ProbeInv'
<1> DEFINE at == IF who[c].ver = env THEN "checked" ELSE "stored"
           s == [who[c] EXCEPT !.at = at]
<1>1. who[c] \in Storer /\ who[c].at = "landed" /\ who' = [who EXCEPT ![c] = s]
  BY Shapes DEF Probe!StoreChecked, Probe!Moves, ProbeInv, ProbeTypeInv
<1>2. s \in Storer /\ s.at = at /\ s.ver = who[c].ver /\ s.got = who[c].got /\ s.kind = who[c].kind
  BY <1>1, MovedTo
<1>3. CallerOK(s) /\ s \in Caller
  BY <1>1, <1>2, StorerFacts DEF CallerOK, Caller
<1>4. OnItsWay(s) => OnItsWay(who[c]) /\ s.got = who[c].got
  BY <1>1, <1>2 DEF OnItsWay
<1>5. Tends(who[c]) /\ who[c].ver = env => Tends(s) /\ s.ver = who[c].ver
  BY <1>2 DEF Tends
<1> QED
  BY <1>1, <1>3, <1>4, <1>5, StepAlone DEF Probe!StoreChecked, ProbeInv, ProbeTypeInv

\* The entry that is stored is not of an older version than the one it replaces.
LEMMA StoreEntryInv ==
  ASSUME ProbeInv, NEW c \in Callers, Probe!StoreEntry(c)
  PROVE  ProbeInv'
<1> DEFINE newer == valid # Probe!None /\ valid.ver > who[c].ver
           got == who[c].got
           entry == [ok |-> got.ok, sel |-> got.sel, under |-> got.under, wipes |-> got.wipes,
                     joined |-> got.joined, ver |-> who[c].ver, ended |-> TRUE, refreshing |-> FALSE]
           at == IF newer \/ ~got.ok THEN "stored" ELSE "entered"
           s == [who[c] EXCEPT !.at = at]
<1>1. /\ who[c] \in Storer /\ who[c].at = "checked" /\ who' = [who EXCEPT ![c] = s]
      /\ valid' = IF newer THEN valid ELSE entry
  BY Shapes DEF Probe!StoreEntry, Probe!Moves, ProbeInv, ProbeTypeInv
<1>2. s \in Storer /\ s.at = at /\ s.ver = who[c].ver /\ s.got = got /\ s.kind = who[c].kind
  BY <1>1, MovedTo
<1>3. CallerOK(s) /\ s \in Caller
  BY <1>1, <1>2, StorerFacts DEF CallerOK, Caller
<1>4. entry \in Validation /\ ~entry.refreshing /\ entry.ver = who[c].ver /\ entry.under = got.under
      /\ entry.ok = got.ok /\ entry.joined = got.joined
  BY <1>1, StorerFacts DEF Result, Validation
<1>5. valid' \in Maybe(Validation) /\ EntryOK(valid)'
  <2>1. CASE newer
    BY <1>1, <2>1 DEF ProbeInv, ProbeTypeInv, VersionInv, EntryOK, Probe!StoreEntry
  <2>2. CASE ~newer
    <3>1. valid' = entry
      BY <1>1, <2>2
    <3> HIDE DEF entry
    <3> QED
      BY <1>1, <1>4, <3>1, StorerFacts DEF EntryOK, Maybe, Probe!StoreEntry
  <2> QED
    BY <2>1, <2>2
<1>6. ProbeTypeInv' /\ VersionInv'
  <2>1. EntryOK(file.entry)'
    BY DEF Probe!StoreEntry, ProbeInv, VersionInv, EntryOK
  <2> QED
    BY <1>1, <1>3, <1>5, <2>1, StepVersions DEF Probe!StoreEntry, ProbeInv, ProbeTypeInv
<1>7. SelectInv' /\ Probe!SelectionKept'
  <2>1. OnItsWay(s) => OnItsWay(who[c]) /\ s.got = who[c].got
    BY <1>1, <1>2 DEF OnItsWay
  <2> QED
    BY <1>1, <1>3, <2>1, StepSelection DEF ProbeInv, Probe!StoreEntry
<1>8. Probe!RefreshingIsTended'
  <2>1. Probe!Matched' /\ valid'.refreshing => Probe!Matched /\ valid.refreshing /\ who[c].ver # env
    BY <1>1, <1>4, StorerFacts DEF Probe!Matched, Probe!StoreEntry, ProbeInv, ProbeTypeInv
  <2> QED
    BY <1>1, <1>3, <2>1, StepTended DEF ProbeInv, Probe!StoreEntry
<1> QED
  BY <1>6, <1>7, <1>8 DEF ProbeInv, FileInv, Probe!StoreEntry

LEMMA StoreSelectionInv ==
  ASSUME ProbeInv, NEW c \in Callers, Probe!StoreSelection(c)
  PROVE  ProbeInv'
<1> DEFINE s == [who[c] EXCEPT !.at = "stored"]
<1>1. /\ who[c] \in Storer /\ who[c].at = "entered" /\ who' = [who EXCEPT ![c] = s]
      /\ sess' = Probe!FromShown(who[c].got.sel)
  BY Shapes DEF Probe!StoreSelection, Probe!Moves, ProbeInv, ProbeTypeInv
<1>2. s \in Storer /\ s.at = "stored" /\ s.ver = who[c].ver /\ s.got = who[c].got /\ s.kind = who[c].kind
  BY <1>1, MovedTo
<1>3. CallerOK(s) /\ s \in Caller
  BY <1>1, <1>2, StorerFacts DEF CallerOK, Caller
<1>4. /\ who[c].got.ok /\ who[c].got.sel \in Selection
      /\ sess' \in Chosen /\ Probe!Shown(sess') = who[c].got.sel
  <2>1. who[c].got.ok /\ who[c].got.sel \in Selection
    BY <1>1, StorerFacts DEF Result
  <2> QED
    BY <1>1, <2>1, SelectionShown
<1>5. ProbeTypeInv' /\ VersionInv'
  <2>1. EntryOK(valid)' /\ EntryOK(file.entry)'
    BY DEF Probe!StoreSelection, ProbeInv, VersionInv, EntryOK
  <2> QED
    BY <1>1, <1>3, <1>4, <2>1, StepVersions DEF Probe!StoreSelection, ProbeInv, ProbeTypeInv, Maybe
<1>6. SelectInv' /\ Probe!SelectionKept'
  <2>1. \A d \in Callers : OnItsWay(who'[d]) => OnItsWay(who[d]) /\ who'[d] = who[d]
    BY <1>1, <1>2 DEF OnItsWay, ProbeInv, ProbeTypeInv
  <2>2. OnItsWay(who[c])
    BY <1>1, <1>4 DEF OnItsWay
  <2> QED
    BY <1>4, <2>1, <2>2, Present DEF ProbeInv, SelectInv, Probe!SelectionKept, Probe!StoreSelection
<1>7. Probe!RefreshingIsTended'
  <2>1. ~Tends(who[c])
    BY <1>1 DEF Tends
  <2> QED
    BY <1>1, <1>3, <2>1, StepTended DEF ProbeInv, Probe!StoreSelection, Probe!Matched
<1> QED
  BY <1>5, <1>6, <1>7 DEF ProbeInv, FileInv, Probe!StoreSelection

-----------------------------------------------------------------------------
(* The file                                                                  *)

LEMMA WrittenFile ==
  ASSUME ProbeInv, Probe!Written
  PROVE  /\ file' \in File /\ EntryOK(file'.entry) /\ (file'.entry # Probe!None => ~file'.entry.refreshing)
         /\ pbSeen' \in Seen /\ pbSeen'.last = pbSeen.last /\ pbSeen'.crossed = pbSeen.crossed
<1>1. CASE file' = [entry |-> Probe!Snapshot, owed |-> FALSE] /\ pbSeen' = pbSeen
  <2>1. CASE valid = Probe!None
    <3>1. file'.entry = Probe!None /\ file' \in File
      BY <1>1, <2>1 DEF Probe!Snapshot, File, Maybe
    <3> QED
      BY <1>1, <3>1 DEF EntryOK, ProbeInv, ProbeTypeInv
  <2>2. CASE valid # Probe!None
    <3> DEFINE e == [valid EXCEPT !.refreshing = FALSE]
    <3>1. valid \in Validation /\ EntryOK(valid)
      BY <2>2 DEF ProbeInv, ProbeTypeInv, VersionInv, Maybe
    <3>2. e \in Validation /\ ~e.refreshing /\ e.ver = valid.ver /\ e.under = valid.under
          /\ e.ok = valid.ok /\ e.joined = valid.joined
      BY <3>1 DEF Validation
    <3>3. file' = [entry |-> e, owed |-> FALSE]
      BY <1>1, <2>2 DEF Probe!Snapshot
    <3> HIDE DEF e
    <3>4. file' \in File /\ file'.entry = e
      BY <3>2, <3>3 DEF File, Maybe
    <3>5. EntryOK(file'.entry)
      BY <2>2, <3>1, <3>2, <3>4 DEF EntryOK
    <3> QED
      BY <1>1, <3>2, <3>4, <3>5 DEF ProbeInv, ProbeTypeInv
  <2> QED
    BY <2>1, <2>2
<1>2. CASE file' = [file EXCEPT !.owed = TRUE] /\ pbSeen' = Probe!Faulty
  <2>1. file' \in File /\ file'.entry = file.entry
    BY <1>2 DEF ProbeInv, ProbeTypeInv, File
  <2>2. pbSeen' \in Seen /\ pbSeen'.last = pbSeen.last /\ pbSeen'.crossed = pbSeen.crossed
    BY <1>2 DEF Probe!Faulty, Seen, ProbeInv, ProbeTypeInv
  <2> QED
    BY <2>1, <2>2 DEF ProbeInv, VersionInv, FileInv, EntryOK
<1> QED
  BY <1>1, <1>2 DEF Probe!Written

\* One caller saves, and goes on to something that holds no result.
LEMMA StepFile ==
  ASSUME ProbeInv, NEW c \in Callers, NEW s \in Caller,
         who' = [who EXCEPT ![c] = s], UNCHANGED <<env, sess, valid, flight, cooling>>,
         Probe!Written \/ UNCHANGED <<file, pbSeen>>,
         who[c].at # "flying", ~Tends(who[c]), CallerOK(s), ~OnItsWay(s)
  PROVE  ProbeInv'
<1>1. /\ file' \in File /\ EntryOK(file'.entry) /\ (file'.entry # Probe!None => ~file'.entry.refreshing)
      /\ pbSeen' \in Seen /\ pbSeen'.last = pbSeen.last /\ pbSeen'.crossed = pbSeen.crossed
  <2>1. CASE Probe!Written
    BY <2>1, WrittenFile
  <2>2. CASE UNCHANGED <<file, pbSeen>>
    BY <2>2 DEF ProbeInv, ProbeTypeInv, VersionInv, FileInv
  <2> QED
    BY <2>1, <2>2
<1>2. ProbeTypeInv' /\ VersionInv'
  <2>1. EntryOK(valid)' /\ EntryOK(file.entry)'
    BY <1>1 DEF ProbeInv, VersionInv, EntryOK
  <2> QED
    BY <1>1, <2>1, StepVersions DEF ProbeInv, ProbeTypeInv
<1>3. SelectInv' /\ Probe!SelectionKept'
  BY <1>1, StepSelection DEF ProbeInv
<1>4. Probe!RefreshingIsTended'
  BY StepTended DEF ProbeInv, Probe!Matched
<1> QED
  BY <1>1, <1>2, <1>3, <1>4 DEF ProbeInv, FileInv

LEMMA PersistInv ==
  ASSUME ProbeInv, NEW c \in Callers, Probe!Persist(c)
  PROVE  ProbeInv'
<1>1. Probe!Idle \in Caller /\ CallerOK(Probe!Idle) /\ ~OnItsWay(Probe!Idle)
  BY OthersOK DEF Caller
<1>2. who[c].at # "flying" /\ ~Tends(who[c]) /\ who' = [who EXCEPT ![c] = Probe!Idle]
  BY DEF Probe!Persist, Tends, Probe!Goes
<1> QED
  BY <1>1, <1>2, StepFile DEF Probe!Persist

LEMMA PersistWipedInv ==
  ASSUME ProbeInv, NEW c \in Callers, Probe!PersistWiped(c)
  PROVE  ProbeInv'
<1>1. who[c] \in Editor /\ who[c].ver \in Nat /\ who[c].ver <= env
  <2>1. who[c] \in Editor
    BY Shapes DEF Probe!PersistWiped, ProbeInv, ProbeTypeInv
  <2> QED
    BY <2>1 DEF ProbeInv, VersionInv, CallerOK, Editor
<1>2. PICK s \in Caller : who' = [who EXCEPT ![c] = s] /\ CallerOK(s) /\ ~OnItsWay(s)
  <2>1. CASE who[c].saved
    <3> DEFINE s == Probe!Asked("run", who[c].ver)
    <3>1. s \in Asker /\ s.ver = who[c].ver
      BY <1>1, AskedCaller DEF Validating
    <3>2. s \in Caller /\ CallerOK(s) /\ ~OnItsWay(s)
      BY <1>1, <3>1, AskersOK DEF Caller
    <3>3. who' = [who EXCEPT ![c] = s]
      BY <2>1 DEF Probe!PersistWiped, Probe!Goes
    <3> QED
      BY <3>2, <3>3
  <2>2. CASE ~who[c].saved
    BY <2>2, OthersOK DEF Probe!PersistWiped, Probe!Goes, Caller
  <2> QED
    BY <2>1, <2>2
<1>3. who[c].at # "flying" /\ ~Tends(who[c])
  BY DEF Probe!PersistWiped, Tends
<1> QED
  BY <1>2, <1>3, StepFile DEF Probe!PersistWiped

LEMMA LoadPersistedInv ==
  ASSUME ProbeInv, Probe!LoadPersisted
  PROVE  ProbeInv'
<1>1. /\ valid = Probe!None /\ valid' = file.entry /\ file.entry \in Validation /\ EntryOK(file.entry)
      /\ ~file.entry.refreshing
  BY DEF Probe!LoadPersisted, Probe!Loads, ProbeInv, ProbeTypeInv, VersionInv, FileInv, File, Maybe
<1>2. sess' \in Maybe(Chosen) /\ (sess # Probe!None => sess' = sess)
  <2>1. CASE file.entry.ok /\ sess = Probe!None
    BY <1>1, <2>1, SelectionShown DEF Probe!LoadPersisted, Validation, Maybe
  <2>2. CASE ~(file.entry.ok /\ sess = Probe!None)
    BY <2>2 DEF Probe!LoadPersisted, ProbeInv, ProbeTypeInv
  <2> QED
    BY <2>1, <2>2
<1>3. ProbeTypeInv'
  BY <1>1, <1>2 DEF ProbeInv, ProbeTypeInv, Probe!LoadPersisted, Maybe
<1>4. VersionInv'
  <2>1. EntryOK(valid)' /\ EntryOK(file.entry)'
    BY <1>1 DEF EntryOK, Probe!LoadPersisted
  <2>2. \A c \in Callers : CallerOK(who[c])'
    BY DEF ProbeInv, VersionInv, CallerOK, Probe!LoadPersisted
  <2>3. \A p \in Models \cup {0} : FlightOK(p)'
    BY DEF ProbeInv, VersionInv, FlightOK, Probe!LoadPersisted
  <2> QED
    BY <2>1, <2>2, <2>3 DEF VersionInv
<1>5. SelectInv' /\ Probe!SelectionKept'
  BY <1>2 DEF ProbeInv, SelectInv, Probe!SelectionKept, Probe!LoadPersisted, OnItsWay
<1>6. Probe!RefreshingIsTended'
  BY <1>1 DEF Probe!RefreshingIsTended
<1> QED
  BY <1>3, <1>4, <1>5, <1>6 DEF ProbeInv, FileInv, Probe!LoadPersisted

-----------------------------------------------------------------------------
(* An edit of the environment                                                *)

LEMMA EditInv ==
  ASSUME ProbeInv, NEW c \in Callers, NEW saves \in BOOLEAN, Probe!Edit(c, saves)
  PROVE  ProbeInv'
<1> DEFINE s == [at |-> "edited", kind |-> "edit", ver |-> env', saved |-> saves]
<1>1. /\ who[c].at = "idle" /\ who' = [who EXCEPT ![c] = s]
      /\ env \in Nat /\ env' \in Nat /\ env' = (IF saves THEN env + 1 ELSE env)
  BY DEF Probe!Edit, Probe!Goes, Probe!Idle, ProbeInv, ProbeTypeInv
<1>2. s \in Editor /\ s \in Caller /\ ~OnItsWay(s) /\ s.ver = env'
  BY <1>1 DEF Editor, Caller, OnItsWay
<1>3. pbSeen' \in Seen /\ pbSeen'.last = pbSeen.last /\ pbSeen'.crossed = pbSeen.crossed
  BY DEF Probe!Edit, Seen, ProbeInv, ProbeTypeInv
<1>4. ProbeTypeInv'
  BY <1>1, <1>2, <1>3 DEF ProbeInv, ProbeTypeInv, Probe!Edit
<1>5. VersionInv'
  <2>1. \A v \in Maybe(Validation) : EntryOK(v) => EntryOK(v)'
    BY <1>1 DEF EntryOK, Validation, Maybe
  <2>2. EntryOK(valid)' /\ EntryOK(file.entry)'
    BY <2>1 DEF ProbeInv, ProbeTypeInv, VersionInv, File, Probe!Edit, EntryOK
  <2>3. ASSUME NEW d \in Callers
        PROVE  CallerOK(who[d])'
    <3>1. CASE d = c
      <4>1. who'[d] = s
        BY <1>1, <3>1 DEF ProbeInv, ProbeTypeInv
      <4>2. s \notin Storer /\ s.ver <= env'
        BY <1>1, <1>2 DEF Storer
      <4> QED
        BY <4>1, <4>2 DEF CallerOK
    <3>2. CASE d # c
      <4>1. who'[d] = who[d] /\ CallerOK(who[d])
        BY <1>1, <3>2 DEF ProbeInv, ProbeTypeInv, VersionInv
      <4>2. who[d] \in Asker \cup Storer \cup Editor => who[d].ver \in Nat
        BY DEF Asker, Storer, Editor
      <4>3. who[d] \in Storer => who[d].got.under \in Nat
        BY DEF Storer, Result
      <4> QED
        BY <1>1, <4>1, <4>2, <4>3 DEF CallerOK
    <3> QED
      BY <3>1, <3>2
  <2>4. ASSUME NEW p \in Models \cup {0}
        PROVE  FlightOK(p)'
    <3>1. FlightOK(p) /\ flight[p] \in Maybe(Flown) /\ flight' = flight
      BY DEF ProbeInv, ProbeTypeInv, VersionInv, Probe!Edit
    <3>2. \A d \in Callers : d # c => who'[d] = who[d]
      BY <1>1 DEF ProbeInv, ProbeTypeInv
    <3> QED
      BY <1>1, <3>1, <3>2 DEF FlightOK, Maybe, Flown
  <2> QED
    BY <2>2, <2>3, <2>4 DEF VersionInv
<1>6. SelectInv' /\ Probe!SelectionKept'
  BY <1>1, <1>2, <1>3, StepSelection DEF ProbeInv, Probe!Edit
<1>7. Probe!RefreshingIsTended'
  <2>1. CASE saves
    <3>1. valid # Probe!None => valid.ver \in Nat /\ valid.ver <= env
      BY DEF ProbeInv, ProbeTypeInv, VersionInv, EntryOK, Maybe, Validation
    <3> QED
      BY <1>1, <2>1, <3>1 DEF Probe!RefreshingIsTended, Probe!Matched, Probe!Edit
  <2>2. CASE ~saves
    <3>1. ~Tends(who[c]) /\ env' = env
      BY <1>1, <2>2 DEF Tends
    <3> QED
      BY <1>1, <1>2, <3>1, StepTended DEF ProbeInv, Probe!Edit, Probe!Matched
  <2> QED
    BY <2>1, <2>2
<1> QED
  BY <1>4, <1>5, <1>6, <1>7 DEF ProbeInv, FileInv, Probe!Edit

LEMMA EditorMoves ==
  ASSUME ProbeInv, NEW c \in Callers, who[c].at \in {"edited", "wiping"}, NEW at \in {"wiping", "wiped"},
         Probe!Moves(c, at)
  PROVE  \E s \in Caller : /\ who' = [who EXCEPT ![c] = s] /\ CallerOK(s) /\ ~OnItsWay(s)
                           /\ ~Tends(who[c]) /\ who[c].at # "flying"
<1> DEFINE s == [who[c] EXCEPT !.at = at]
<1>1. who[c] \in Editor
  BY Shapes DEF ProbeInv, ProbeTypeInv
<1>2. s \in Editor /\ s.ver = who[c].ver
  BY <1>1, MovedTo
<1>3. s \in Caller /\ CallerOK(s) /\ ~OnItsWay(s)
  BY <1>1, <1>2, AskersOK DEF Caller, ProbeInv, VersionInv, CallerOK
<1> QED
  BY <1>3 DEF Probe!Moves, Tends

LEMMA InvalidateSessionInv ==
  ASSUME ProbeInv, NEW c \in Callers, Probe!InvalidateSession(c)
  PROVE  ProbeInv'
<1>1. PICK s \in Caller : /\ who' = [who EXCEPT ![c] = s] /\ CallerOK(s) /\ ~OnItsWay(s)
                          /\ ~Tends(who[c]) /\ who[c].at # "flying"
  BY EditorMoves DEF Probe!InvalidateSession
<1>2. sess' = Probe!None /\ pbSeen' \in Seen /\ pbSeen'.last = Probe!None
  BY DEF Probe!InvalidateSession, Seen, Maybe, ProbeInv, ProbeTypeInv
<1>3. ProbeTypeInv' /\ VersionInv'
  <2>1. EntryOK(valid)' /\ EntryOK(file.entry)'
    BY DEF Probe!InvalidateSession, ProbeInv, VersionInv, EntryOK
  <2> QED
    BY <1>1, <1>2, <2>1, StepVersions DEF Probe!InvalidateSession, ProbeInv, ProbeTypeInv, Maybe
<1>4. SelectInv' /\ Probe!SelectionKept'
  BY <1>2 DEF SelectInv, Probe!SelectionKept
<1>5. Probe!RefreshingIsTended'
  BY <1>1, StepTended DEF ProbeInv, Probe!InvalidateSession, Probe!Matched
<1> QED
  BY <1>3, <1>4, <1>5 DEF ProbeInv, FileInv, Probe!InvalidateSession

LEMMA InvalidateValidationInv ==
  ASSUME ProbeInv, NEW c \in Callers, Probe!InvalidateValidation(c)
  PROVE  ProbeInv'
<1>1. PICK s \in Caller : /\ who' = [who EXCEPT ![c] = s] /\ CallerOK(s) /\ ~OnItsWay(s)
                          /\ ~Tends(who[c]) /\ who[c].at # "flying"
  BY EditorMoves DEF Probe!InvalidateValidation
<1>2. valid' = Probe!None /\ cooling' = FALSE /\ pbSeen' \in Seen
      /\ pbSeen'.last = pbSeen.last /\ pbSeen'.crossed = pbSeen.crossed
  BY DEF Probe!InvalidateValidation, Seen, ProbeInv, ProbeTypeInv
<1>3. ProbeTypeInv' /\ VersionInv'
  <2>1. EntryOK(valid)' /\ EntryOK(file.entry)'
    BY <1>2 DEF Probe!InvalidateValidation, ProbeInv, VersionInv, EntryOK
  <2> QED
    BY <1>1, <1>2, <2>1, StepVersions DEF Probe!InvalidateValidation, ProbeInv, ProbeTypeInv, Maybe
<1>4. SelectInv' /\ Probe!SelectionKept'
  BY <1>1, <1>2, StepSelection DEF ProbeInv, Probe!InvalidateValidation
<1>5. Probe!RefreshingIsTended'
  BY <1>2 DEF Probe!RefreshingIsTended, Probe!Matched
<1> QED
  BY <1>3, <1>4, <1>5 DEF ProbeInv, FileInv, Probe!InvalidateValidation

-----------------------------------------------------------------------------
(* Selections                                                                *)

Selecting(x, l, b) == [x EXCEPT !.last = l, !.crossed = b]
Numbered(x) == [x EXCEPT !.events = @ + 1]
LEMMA SeenSelected ==
  ASSUME ProbeInv, sess' \in Chosen
  PROVE  /\ Probe!Selected \in Seen /\ [Probe!Selected EXCEPT !.events = @ + 1] \in Seen
         /\ Probe!Selected.last = Probe!Shown(sess')
         /\ [Probe!Selected EXCEPT !.events = @ + 1].last = Probe!Shown(sess')
         /\ Probe!Selected.crossed = (pbSeen.crossed \/ Probe!Crossed)
         /\ [Probe!Selected EXCEPT !.events = @ + 1].crossed = (pbSeen.crossed \/ Probe!Crossed)
<1>1. ASSUME NEW x \in Seen, NEW l \in Selection, NEW b \in BOOLEAN
      PROVE  /\ Selecting(x, l, b) \in Seen
             /\ Selecting(x, l, b).last = l /\ Selecting(x, l, b).crossed = b
  <2>1. [x EXCEPT !.last = l] \in Seen /\ [x EXCEPT !.last = l].last = l
    BY DEF Seen, Maybe
  <2>2. \A y \in Seen : [y EXCEPT !.crossed = b] \in Seen /\ [y EXCEPT !.crossed = b].crossed = b
                        /\ [y EXCEPT !.crossed = b].last = y.last
    BY DEF Seen
  <2> QED
    BY <2>1, <2>2 DEF Selecting
<1>2. ASSUME NEW x \in Seen
      PROVE  Numbered(x) \in Seen /\ Numbered(x).last = x.last /\ Numbered(x).crossed = x.crossed
  BY DEF Seen, Numbered
<1>3. pbSeen \in Seen /\ Probe!Shown(sess') \in Selection /\ (pbSeen.crossed \/ Probe!Crossed) \in BOOLEAN
  BY ShownSelection DEF ProbeInv, ProbeTypeInv
<1>4. Probe!Selected = Selecting(pbSeen, Probe!Shown(sess'), pbSeen.crossed \/ Probe!Crossed)
  BY DEF Probe!Selected, Selecting
<1>5. /\ Probe!Selected \in Seen /\ Probe!Selected.last = Probe!Shown(sess')
      /\ Probe!Selected.crossed = (pbSeen.crossed \/ Probe!Crossed)
  BY <1>1, <1>3, <1>4
<1>6. [Probe!Selected EXCEPT !.events = @ + 1] = Numbered(Probe!Selected)
  BY DEF Numbered
<1> QED
  BY <1>2, <1>5, <1>6

\* A user selects; what is on its way then has crossed it.
LEMMA SelectedStep ==
  ASSUME ProbeTypeInv, ProbeTypeInv', sess' \in Chosen, pbSeen'.last = Probe!Shown(sess)',
         pbSeen'.crossed = (pbSeen.crossed \/ Probe!Crossed),
         \A c \in Callers : OnItsWay(who'[c]) => OnItsWay(who[c])
  PROVE  SelectInv' /\ Probe!SelectionKept'
<1>1. sess' # Probe!None
  BY Present
<1>2. ~pbSeen'.crossed => \A c \in Callers : ~OnItsWay(who'[c])
  BY DEF Probe!Crossed, OnItsWay
<1> QED
  BY <1>1, <1>2 DEF SelectInv, Probe!SelectionKept

LEMMA PreviewInv ==
  ASSUME ProbeAssumption, ProbeInv, NEW c \in Callers, NEW w \in Picks, Probe!Preview(c, w[1], w[2], w[3])
  PROVE  ProbeInv'
<1>1. who[c].at = "idle" /\ ~Tends(who[c]) /\ w[2] \in Models
  BY DEF Probe!Preview, Probe!Idle, Tends, ProbeAssumption
<1>2. CASE Probe!Known(w[1], w[2])
  <2> DEFINE s == [at |-> "applied", kind |-> "selected", pref |-> w[2]]
  <2>1. /\ sess' = Probe!Applied(w[1], w[2], w[3]) /\ who' = [who EXCEPT ![c] = s]
        /\ pbSeen' = [Probe!Selected EXCEPT !.events = @ + 1]
        /\ UNCHANGED <<env, valid, file, flight, cooling>>
    BY <1>2 DEF Probe!Preview, Probe!Goes
  <2>2. sess' \in Chosen
    <3>1. sess \in Chosen
      BY <1>2 DEF Probe!Known, ProbeInv, ProbeTypeInv, Maybe
    <3> QED
      BY <1>2, <2>1, <3>1, AppliedSession
  <2>3. /\ pbSeen' \in Seen /\ pbSeen'.last = Probe!Shown(sess')
        /\ pbSeen'.crossed = (pbSeen.crossed \/ Probe!Crossed)
    BY <2>1, <2>2, SeenSelected
  <2>4. s \in Applier /\ s \in Caller /\ CallerOK(s) /\ ~OnItsWay(s)
    <3>1. s \in Applier
      BY <1>1 DEF Applier
    <3> QED
      BY <3>1, OthersOK DEF Caller
  <2>5. ProbeTypeInv' /\ VersionInv'
    <3>1. EntryOK(valid)' /\ EntryOK(file.entry)'
      BY <2>1 DEF ProbeInv, VersionInv, EntryOK
    <3> QED
      BY <1>1, <2>1, <2>2, <2>3, <2>4, <3>1, StepVersions DEF ProbeInv, ProbeTypeInv, Maybe
  <2>6. SelectInv' /\ Probe!SelectionKept'
    <3>1. \A d \in Callers : OnItsWay(who'[d]) => OnItsWay(who[d])
      BY <2>1, <2>4 DEF ProbeInv, ProbeTypeInv
    <3> QED
      BY <2>2, <2>3, <2>5, <3>1, SelectedStep DEF ProbeInv
  <2>7. Probe!RefreshingIsTended'
    BY <1>1, <2>1, <2>4, StepTended DEF ProbeInv, Probe!Matched
  <2> QED
    BY <2>1, <2>5, <2>6, <2>7 DEF ProbeInv, FileInv
<1>3. CASE ~Probe!Known(w[1], w[2])
  <2> DEFINE s == [at |-> "probing", kind |-> "preview", pref |-> w[2], want |-> <<w[1], w[2], w[3]>>]
  <2>1. /\ who' = [who EXCEPT ![c] = s] /\ UNCHANGED <<env, sess, valid, file, flight, cooling>>
        /\ pbSeen' = [pbSeen EXCEPT !.events = @ + 1]
    BY <1>3 DEF Probe!Preview, Probe!Goes
  <2>2. s \in Selector /\ s \in Caller /\ CallerOK(s) /\ ~OnItsWay(s)
    <3>1. <<w[1], w[2], w[3]>> \in Picks
      BY DEF ProbeAssumption
    <3>2. s \in Selector
      BY <1>1, <3>1 DEF Selector
    <3> QED
      BY <3>2, OthersOK DEF Caller
  <2>3. pbSeen' \in Seen /\ pbSeen'.last = pbSeen.last /\ pbSeen'.crossed = pbSeen.crossed
    BY <2>1 DEF Seen, ProbeInv, ProbeTypeInv
  <2> QED
    BY <1>1, <2>1, <2>2, <2>3, StepAlone
<1> QED
  BY <1>2, <1>3

LEMMA PreviewAgainInv ==
  ASSUME ProbeAssumption, ProbeInv, NEW c \in Callers, Probe!PreviewAgain(c)
  PROVE  ProbeInv'
<1> DEFINE w == who[c].want
<1>1. who[c] \in Selector /\ who[c].at = "retry" /\ w \in Picks /\ ~Tends(who[c])
  <2>1. who[c] \in Selector /\ who[c].at = "retry"
    BY Shapes DEF Probe!PreviewAgain, ProbeInv, ProbeTypeInv
  <2> QED
    BY <2>1 DEF Selector, Tends
<1>2. CASE Probe!Known(w[1], w[2])
  <2> DEFINE s == [who[c] EXCEPT !.at = "applied"]
  <2>1. /\ sess' = Probe!Applied(w[1], w[2], w[3]) /\ who' = [who EXCEPT ![c] = s]
        /\ pbSeen' = Probe!Selected
        /\ UNCHANGED <<env, valid, file, flight, cooling>>
    BY <1>2 DEF Probe!PreviewAgain, Probe!Moves
  <2>2. sess' \in Chosen
    <3>1. sess \in Chosen
      BY <1>2 DEF Probe!Known, ProbeInv, ProbeTypeInv, Maybe
    <3> HIDE DEF w
    <3> QED
      BY <1>1, <1>2, <2>1, <3>1, AppliedSession
  <2>3. /\ pbSeen' \in Seen /\ pbSeen'.last = Probe!Shown(sess')
        /\ pbSeen'.crossed = (pbSeen.crossed \/ Probe!Crossed)
    BY <2>1, <2>2, SeenSelected
  <2>4. s \in Caller /\ CallerOK(s) /\ ~OnItsWay(s)
    BY <1>1, MovedTo, OthersOK DEF Caller
  <2>5. ProbeTypeInv' /\ VersionInv'
    <3>1. EntryOK(valid)' /\ EntryOK(file.entry)'
      BY <2>1 DEF ProbeInv, VersionInv, EntryOK
    <3> QED
      BY <1>1, <2>1, <2>2, <2>3, <2>4, <3>1, StepVersions DEF ProbeInv, ProbeTypeInv, Maybe
  <2>6. SelectInv' /\ Probe!SelectionKept'
    <3>1. \A d \in Callers : OnItsWay(who'[d]) => OnItsWay(who[d])
      BY <2>1, <2>4 DEF ProbeInv, ProbeTypeInv
    <3> QED
      BY <2>2, <2>3, <2>5, <3>1, SelectedStep DEF ProbeInv
  <2>7. Probe!RefreshingIsTended'
    BY <1>1, <2>1, <2>4, StepTended DEF ProbeInv, Probe!Matched
  <2> QED
    BY <2>1, <2>5, <2>6, <2>7 DEF ProbeInv, FileInv
<1>3. CASE ~Probe!Known(w[1], w[2])
  <2>1. who' = [who EXCEPT ![c] = Probe!Idle] /\ UNCHANGED <<env, sess, valid, file, flight, cooling, pbSeen>>
    BY <1>3 DEF Probe!PreviewAgain, Probe!Goes
  <2>2. Probe!Idle \in Caller /\ CallerOK(Probe!Idle) /\ ~OnItsWay(Probe!Idle)
    BY OthersOK DEF Caller
  <2> QED
    BY <1>1, <2>1, <2>2, StepAlone DEF ProbeInv, ProbeTypeInv
<1> QED
  BY <1>2, <1>3

LEMMA MirroredCaller ==
  ASSUME NEW c \in Callers, who[c] \in Selector \cup Applier \cup Mirrorer
  PROVE  Probe!Mirrored(c) \in Caller /\ CallerOK(Probe!Mirrored(c)) /\ ~OnItsWay(Probe!Mirrored(c))
<1>1. Probe!Mirrored(c) \in {Probe!Idle} \cup Applier
  BY DEF Probe!Mirrored, Selector, Applier, Mirrorer
<1> QED
  BY <1>1, OthersOK DEF Caller

LEMMA MirrorReadInv ==
  ASSUME ProbeInv, NEW c \in Callers, Probe!MirrorRead(c)
  PROVE  ProbeInv'
<1>1. who[c] \in Selector \cup Applier /\ who[c].at = "applied" /\ ~Tends(who[c])
  BY Shapes DEF Probe!MirrorRead, ProbeInv, ProbeTypeInv, Tends
<1>2. PICK s \in Caller : who' = [who EXCEPT ![c] = s] /\ CallerOK(s) /\ ~OnItsWay(s)
  <2>1. CASE sess = Probe!None
    BY <1>1, <2>1, MirroredCaller DEF Probe!MirrorRead, Probe!Goes
  <2>2. CASE sess # Probe!None
    <3> DEFINE s == [at |-> "mirror", kind |-> who[c].kind, pref |-> who[c].pref, sel |-> Probe!Shown(sess)]
    <3>1. Probe!Shown(sess) \in Selection
      BY <2>2, ShownSelection DEF ProbeInv, ProbeTypeInv, Maybe
    <3>2. s \in Mirrorer
      BY <1>1, <3>1 DEF Mirrorer, Selector, Applier
    <3>3. s \in Caller /\ CallerOK(s) /\ ~OnItsWay(s) /\ who' = [who EXCEPT ![c] = s]
      BY <2>2, <3>2, OthersOK DEF Caller, Probe!MirrorRead, Probe!Goes
    <3> QED
      BY <3>3
  <2> QED
    BY <2>1, <2>2
<1> QED
  BY <1>1, <1>2, StepAlone DEF Probe!MirrorRead, ProbeInv, ProbeTypeInv

\* A selection that is shown with a validation does not change what was validated.
LEMMA WithSelection ==
  ASSUME ProbeInv, NEW l \in Selection,
         valid' = IF valid = Probe!None THEN Probe!None ELSE [valid EXCEPT !.sel = l], UNCHANGED <<env, file>>
  PROVE  /\ valid' \in Maybe(Validation) /\ EntryOK(valid)' /\ EntryOK(file.entry)'
         /\ Probe!Matched' /\ valid'.refreshing => Probe!Matched /\ valid.refreshing
<1>1. EntryOK(file.entry)'
  BY DEF ProbeInv, VersionInv, EntryOK
<1>2. CASE valid = Probe!None
  BY <1>1, <1>2 DEF Maybe, EntryOK, Probe!Matched
<1>3. CASE valid # Probe!None
  <2>1. valid \in Validation /\ EntryOK(valid)
    BY <1>3 DEF ProbeInv, ProbeTypeInv, VersionInv, Maybe
  <2>2. /\ valid' \in Validation /\ valid'.ver = valid.ver /\ valid'.under = valid.under
        /\ valid'.ok = valid.ok /\ valid'.joined = valid.joined /\ valid'.refreshing = valid.refreshing
    BY <1>3, <2>1 DEF Validation, Maybe
  <2> QED
    BY <1>1, <1>3, <2>1, <2>2 DEF EntryOK, Maybe, Probe!Matched
<1> QED
  BY <1>2, <1>3

LEMMA MirrorWriteInv ==
  ASSUME ProbeInv, NEW c \in Callers, Probe!MirrorWrite(c)
  PROVE  ProbeInv'
<1> DEFINE s == Probe!Mirrored(c)
<1>1. /\ who[c] \in Mirrorer /\ who[c].at = "mirror" /\ ~Tends(who[c]) /\ who[c].sel \in Selection
  <2>1. who[c] \in Mirrorer
    BY Shapes DEF Probe!MirrorWrite, ProbeInv, ProbeTypeInv
  <2> QED
    BY <2>1 DEF Mirrorer, Tends, Probe!MirrorWrite
<1>2. s \in Caller /\ CallerOK(s) /\ ~OnItsWay(s) /\ who' = [who EXCEPT ![c] = s]
  BY <1>1, MirroredCaller DEF Probe!MirrorWrite, Probe!Goes
<1>3. /\ valid' \in Maybe(Validation) /\ EntryOK(valid)' /\ EntryOK(file.entry)'
      /\ Probe!Matched' /\ valid'.refreshing => Probe!Matched /\ valid.refreshing
  BY <1>1, WithSelection DEF Probe!MirrorWrite
<1>4. ProbeTypeInv' /\ VersionInv'
  BY <1>1, <1>2, <1>3, StepVersions DEF Probe!MirrorWrite, ProbeInv, ProbeTypeInv
<1>5. SelectInv' /\ Probe!SelectionKept'
  BY <1>2, StepSelection DEF ProbeInv, Probe!MirrorWrite
<1>6. Probe!RefreshingIsTended'
  BY <1>1, <1>2, <1>3, StepTended DEF ProbeInv, Probe!MirrorWrite
<1> QED
  BY <1>4, <1>5, <1>6 DEF ProbeInv, FileInv, Probe!MirrorWrite

LEMMA PreviewRefreshInv ==
  ASSUME ProbeInv, NEW c \in Callers, Probe!PreviewRefresh(c)
  PROVE  ProbeInv'
<1>1. who[c] \in Applier /\ who[c].at = "refresh" /\ ~Tends(who[c])
  BY Shapes DEF Probe!PreviewRefresh, ProbeInv, ProbeTypeInv, Tends
<1>2. PICK s \in Caller : who' = [who EXCEPT ![c] = s] /\ CallerOK(s) /\ ~OnItsWay(s)
  <2>1. [who[c] EXCEPT !.at = "probing"] \in Applier
    BY <1>1, MovedTo
  <2> QED
    BY <2>1, OthersOK DEF Probe!PreviewRefresh, Probe!Goes, Caller
<1> QED
  BY <1>1, <1>2, StepAlone DEF Probe!PreviewRefresh, ProbeInv, ProbeTypeInv

Switched(base, m, v) == [base EXCEPT !.model = m, !.levels = Probe!Over(Probe!LevelOf(m, v), base.levels)]
LEMMA SwitchedSession ==
  ASSUME NEW base \in Chosen, NEW m \in Models, NEW v \in Value
  PROVE  /\ Switched(base, m, v) \in Chosen
         /\ [base EXCEPT !.mode = v] \in Chosen
<1>1. Probe!LevelOf(m, v) \in [{m} -> Value]
  BY DEF Probe!LevelOf
<1>2. Probe!LevelOf(m, v) \in Levels /\ m \in DOMAIN Probe!LevelOf(m, v)
  BY <1>1 DEF Levels, Probe!LevelOf
<1>3. /\ Probe!Over(Probe!LevelOf(m, v), base.levels) \in Levels
      /\ m \in DOMAIN Probe!Over(Probe!LevelOf(m, v), base.levels)
  BY <1>2, LevelsOver DEF Chosen
<1> QED
  BY <1>3 DEF Chosen, Switched

LEMMA LiveSwitchInv ==
  ASSUME ProbeAssumption, ProbeInv, NEW w \in Picks, Probe!LiveSwitch(w[1], w[2], w[3])
  PROVE  ProbeInv'
<1> DEFINE base == IF sess = Probe!None
                   THEN [model |-> w[2], mode |-> 1, levels |-> Probe!LevelOf(w[2], 1)]
                   ELSE sess
<1>1. w[1] \in {"model", "mode", "level"} /\ w[2] \in Models /\ w[3] \in Value /\ 1 \in Value
  BY DEF ProbeAssumption, Value
<1>2. base \in Chosen
  <2>1. CASE sess = Probe!None
    <3>1. Probe!LevelOf(w[2], 1) \in [{w[2]} -> Value]
      BY <1>1 DEF Probe!LevelOf
    <3>2. Probe!LevelOf(w[2], 1) \in Levels /\ w[2] \in DOMAIN Probe!LevelOf(w[2], 1)
      BY <1>1, <3>1 DEF Levels, Probe!LevelOf
    <3> QED
      BY <1>1, <2>1, <3>2 DEF Chosen
  <2>2. CASE sess # Probe!None
    BY <2>2 DEF ProbeInv, ProbeTypeInv, Maybe
  <2> QED
    BY <2>1, <2>2
<1>3. sess' \in Chosen
  <2>1. \/ sess' = Switched(base, w[2], 1) \/ sess' = Switched(base, w[2], w[3])
        \/ sess' = [base EXCEPT !.mode = w[3]]
    BY <1>1 DEF Probe!LiveSwitch, Switched
  <2> HIDE DEF base
  <2> QED
    BY <1>1, <1>2, <2>1, SwitchedSession
<1>4. /\ valid' = IF valid = Probe!None THEN Probe!None ELSE [valid EXCEPT !.sel = Probe!Shown(sess')]
      /\ pbSeen' = [Probe!Selected EXCEPT !.events = @ + 1]
      /\ UNCHANGED <<env, file, flight, who, cooling>>
  BY DEF Probe!LiveSwitch
<1>5. /\ valid' \in Maybe(Validation) /\ EntryOK(valid)' /\ EntryOK(file.entry)'
      /\ Probe!Matched' /\ valid'.refreshing => Probe!Matched /\ valid.refreshing
  BY <1>3, <1>4, ShownSelection, WithSelection
<1>6. /\ pbSeen' \in Seen /\ pbSeen'.last = Probe!Shown(sess')
      /\ pbSeen'.crossed = (pbSeen.crossed \/ Probe!Crossed)
  BY <1>3, <1>4, SeenSelected
<1>7. ProbeTypeInv'
  BY <1>3, <1>4, <1>5, <1>6 DEF ProbeInv, ProbeTypeInv, Maybe
<1>8. VersionInv'
  <2>1. \A c \in Callers : CallerOK(who[c])'
    BY <1>4 DEF ProbeInv, VersionInv, CallerOK
  <2>2. \A p \in Models \cup {0} : FlightOK(p)'
    BY <1>4 DEF ProbeInv, VersionInv, FlightOK
  <2> QED
    BY <1>5, <2>1, <2>2 DEF VersionInv
<1>9. SelectInv' /\ Probe!SelectionKept'
  BY <1>3, <1>4, <1>6, <1>7, SelectedStep DEF ProbeInv
<1>10. Probe!RefreshingIsTended'
  BY <1>4, <1>5 DEF ProbeInv, Probe!RefreshingIsTended, Probe!Matched
<1> QED
  BY <1>4, <1>7, <1>8, <1>9, <1>10 DEF ProbeInv, FileInv

-----------------------------------------------------------------------------
(* All together                                                              *)

LEMMA CoolDownInv ==
  ASSUME ProbeInv, Probe!CoolDown \/ UNCHANGED Probe!pbVars
  PROVE  ProbeInv'
<1>1. UNCHANGED <<env, sess, valid, file, flight, who, pbSeen>> /\ cooling' \in BOOLEAN
  BY DEF Probe!CoolDown, Probe!pbVars, ProbeInv, ProbeTypeInv
<1>2. ProbeTypeInv' /\ FileInv' /\ SelectInv' /\ Probe!SelectionKept'
  BY <1>1 DEF ProbeInv, ProbeTypeInv, FileInv, SelectInv, Probe!SelectionKept, OnItsWay
<1>3. VersionInv'
  BY <1>1 DEF ProbeInv, VersionInv, EntryOK, CallerOK, FlightOK
<1>4. Probe!RefreshingIsTended'
  BY <1>1 DEF ProbeInv, Probe!RefreshingIsTended, Probe!Matched
<1> QED
  BY <1>2, <1>3, <1>4 DEF ProbeInv

LEMMA CrashInv ==
  ASSUME ProbeInv, Probe!Crash
  PROVE  ProbeInv'
<1>1. /\ sess' = Probe!None /\ valid' = Probe!None /\ cooling' = FALSE /\ env' = env
      /\ flight' = [p \in Models \cup {0} |-> Probe!None] /\ who' = [c \in Callers |-> Probe!Idle]
  BY DEF Probe!Crash, ProbeInv, ProbeTypeInv
<1>2. pbSeen' \in Seen /\ pbSeen'.last = Probe!None
  <2>1. Probe!Faulty \in Seen /\ pbSeen' = [Probe!Faulty EXCEPT !.last = Probe!None, !.crossed = FALSE]
    BY DEF Probe!Crash, Probe!Faulty, Seen, ProbeInv, ProbeTypeInv
  <2> QED
    BY <2>1 DEF Seen, Maybe
<1>3. file' \in File /\ file'.entry = file.entry
  BY DEF Probe!Crash, File, ProbeInv, ProbeTypeInv
<1>4. ProbeTypeInv'
  BY <1>1, <1>2, <1>3 DEF ProbeInv, ProbeTypeInv, Maybe, Caller
<1>5. VersionInv'
  <2>1. EntryOK(valid)' /\ EntryOK(file.entry)'
    BY <1>1, <1>3 DEF ProbeInv, VersionInv, EntryOK
  <2>2. Probe!Idle \notin Asker \cup Storer \cup Editor
    BY DEF Probe!Idle, Asker, Storer, Editor
  <2>3. \A c \in Callers : CallerOK(who[c])'
    BY <1>1, <2>2 DEF CallerOK
  <2>4. \A p \in Models \cup {0} : FlightOK(p)'
    BY <1>1 DEF FlightOK
  <2> QED
    BY <2>1, <2>3, <2>4 DEF VersionInv
<1>6. SelectInv' /\ Probe!SelectionKept' /\ Probe!RefreshingIsTended' /\ FileInv'
  BY <1>1, <1>2, <1>3 DEF SelectInv, Probe!SelectionKept, Probe!RefreshingIsTended, Probe!Matched,
                          FileInv, ProbeInv
<1> QED
  BY <1>4, <1>5, <1>6 DEF ProbeInv

LEMMA ProbeInitInv ==
  ASSUME ProbeAssumption, Probe!Init
  PROVE  ProbeInv
<1>1. ProbeTypeInv
  BY DEF Probe!Init, ProbeTypeInv, Maybe, File, Seen, Caller
<1>2. Probe!Idle \notin Asker \cup Storer \cup Editor
  BY DEF Probe!Idle, Asker, Storer, Editor
<1>3. VersionInv
  BY <1>2 DEF Probe!Init, VersionInv, EntryOK, CallerOK, FlightOK
<1>4. SelectInv /\ Probe!SelectionKept /\ Probe!RefreshingIsTended /\ FileInv
  BY DEF Probe!Init, SelectInv, Probe!SelectionKept, Probe!RefreshingIsTended, Probe!Matched, FileInv
<1> QED
  BY <1>1, <1>3, <1>4 DEF ProbeInv

LEMMA ProbeNextInv ==
  ASSUME ProbeAssumption, ProbeInv, Probe!Next \/ UNCHANGED Probe!pbVars
  PROVE  ProbeInv'
<1>1. CASE Probe!LoadPersisted
  BY <1>1, LoadPersistedInv
<1>2. CASE Probe!CoolDown \/ UNCHANGED Probe!pbVars
  BY <1>2, CoolDownInv
<1>3. CASE Probe!Crash
  BY <1>3, CrashInv
<1>4. CASE \E p \in DOMAIN flight : Probe!Land(p)
  BY <1>4, LandInv DEF ProbeInv, ProbeTypeInv
<1>5. CASE \E w \in Picks : Probe!LiveSwitch(w[1], w[2], w[3])
  BY <1>5, LiveSwitchInv
<1>6. CASE \E w \in Picks : \E c \in Callers : Probe!Preview(c, w[1], w[2], w[3])
  BY <1>6, PreviewInv
<1>7. ASSUME NEW c \in Callers,
             \/ Probe!RefreshAsync(c) \/ Probe!EnsureAvailable(c) \/ Probe!Mark(c) \/ Probe!Fly(c)
             \/ Probe!StoreChecked(c) \/ Probe!StoreEntry(c) \/ Probe!StoreSelection(c) \/ Probe!Persist(c)
             \/ \E saves \in BOOLEAN : Probe!Edit(c, saves)
             \/ Probe!InvalidateSession(c) \/ Probe!InvalidateValidation(c) \/ Probe!PersistWiped(c)
             \/ Probe!PreviewAgain(c) \/ Probe!MirrorRead(c) \/ Probe!MirrorWrite(c)
             \/ Probe!PreviewRefresh(c)
      PROVE  ProbeInv'
  BY <1>7, RefreshAsyncInv, EnsureAvailableInv, MarkInv, FlyInv, StoreCheckedInv, StoreEntryInv,
     StoreSelectionInv, PersistInv, EditInv, InvalidateSessionInv, InvalidateValidationInv,
     PersistWipedInv, PreviewAgainInv, MirrorReadInv, MirrorWriteInv, PreviewRefreshInv
<1> QED
  BY <1>1, <1>2, <1>3, <1>4, <1>5, <1>6, <1>7 DEF Probe!Next

\* An entry that is offered was made in the environment it is for.
LEMMA ProbeInvHolds ==
  ASSUME ProbeInv
  PROVE  Probe!ProbeKept
<1>1. Probe!OfferedOnOwnEnv
  BY DEF ProbeInv, ProbeTypeInv, VersionInv, EntryOK, Probe!OfferedOnOwnEnv, Probe!Offered,
         Probe!Matched, Maybe, Validation
<1> QED
  BY <1>1 DEF ProbeInv, Probe!ProbeKept

-----------------------------------------------------------------------------
(***************************************************************************)
(* The destructive cleanup of a custom Agent runs alone, and no request    *)
(* leaves the gate against the lifecycle (AgentGate): for any number of    *)
(* users and managers.                                                     *)
(*                                                                         *)
(* The reservation keeps the managing requests apart, so each of them may  *)
(* be followed on its own (MgrInv).  A deletion closes the gate before it  *)
(* looks at anything, so what has drained stays drained, and it saves that *)
(* the cleanup begins only after a look at the jobs that came after the    *)
(* drain.  Whether the gate opens again with the request is decided by two *)
(* flags, the token of the request that closed it and its wish to keep it  *)
(* closed; that they agree with what is on disk, whatever fails, is most   *)
(* of the invariant.                                                       *)
(***************************************************************************)

Checked == {"mark", "scan", "look", "stop", "restore", "auth", "wait", "rescan", "relook",
            "restop", "cleanup"}
Clearing == {"settings", "defaults", "cache", "finish"}
DeletePc == {"begin", "find"} \cup Checked \cup Clearing
UpsertPc == {"read", "stage", "publish", "rollback", "register"}
UserPc == {"idle", "begun", "opened", "running", "checked", "resolved", "bound", "prepared",
           "graph", "entering", "turn", "writing", "leaving"}
LeasedPc == {"opened", "running", "resolved", "bound", "leaving", "entering", "turn", "writing"}

Lifecycle == [state : {"active", "deleting", "deleted"}, cleanup : BOOLEAN]
User == [pc : UserPc, kind : {"none"} \cup Gate!Kinds, edited : BOOLEAN]
Manager == [pc : {"idle", "end"} \cup DeletePc \cup UpsertPc,
            op : {"none", "delete", "force", "update", "restore"},
            found : Lifecycle, token : BOOLEAN, keep : BOOLEAN, list : SUBSET Users]

GateTypes ==
  /\ agLife \in Lifecycle
  /\ agOwned \in SUBSET Gate!Kinds /\ agClosed \in BOOLEAN
  /\ agUse \in [Users -> User]
  /\ agMgr \in [Managers -> Manager]
  /\ agSeen \in [restarted : BOOLEAN, unregistered : BOOLEAN, unrolled : BOOLEAN]

\* An Agent that is in use again has no cleanup to finish; a deleted one had its own.
LifeInv ==
  /\ agLife.state = "active" => ~agLife.cleanup
  /\ agLife.state = "deleted" => agLife.cleanup

\* Only an edit lets go of the Agent before its run refers to it; a writer knows what it writes.
UserInv ==
  \A u \in Users : /\ Gate!UsePc(u) = "prepared" => agUse[u].edited
                   /\ Gate!UsePc(u) = "writing" => agUse[u].kind \in Gate!Kinds

NoneLeased == \A u \in Users : ~Gate!Leased(u)
NoGraphs == \A u \in Users : Gate!UsePc(u) = "graph" => agUse[u].edited

\* The cleanup is on disk, and the process that began it is the one that runs or the
\* next one, which has it to finish.
Fenced == agLife.cleanup /\ (agLife.state = "deleting" \/ ~agSeen.restarted)
FenceInv == Fenced => agClosed /\ NoneLeased /\ NoGraphs

Deletes(m) == agMgr[m].op \in {"delete", "force"}
GateClosing(m) == Deletes(m) /\ Gate!Pc(m) # "begin"

\* A request is about to see to a gate that is closed on an Agent without a cleanup.
Sees(m) == Gate!Pc(m) = "register" \/ (GateClosing(m) /\ agMgr[m].token)
GateInv ==
  agClosed /\ ~agSeen.unregistered /\ ~agLife.cleanup => \E m \in Managers : Sees(m)

DeleteInv(m) ==
  /\ GateClosing(m) => agClosed
  /\ Gate!Pc(m) \in {"begin", "find"} => ~agMgr[m].keep
  /\ Gate!Pc(m) = "find" /\ agMgr[m].token => ~Fenced
  /\ Gate!Pc(m) \in Checked \cup Clearing => agMgr[m].keep = agLife.cleanup
  /\ Gate!Pc(m) = "end" /\ Deletes(m) => /\ agMgr[m].token /\ Fenced => agMgr[m].keep
                                         /\ agMgr[m].keep => agLife.cleanup
  /\ Gate!Pc(m) = "mark" => agLife.state # "deleted"
  /\ Gate!Pc(m) \in (Checked \ {"mark"}) \cup Clearing => agLife.state = "deleting"
  /\ Gate!Pc(m) \in Checked => agMgr[m].found.cleanup = agLife.cleanup
  /\ Gate!Pc(m) \in Clearing => agLife.cleanup
  /\ Gate!Pc(m) \in {"rescan", "relook", "restop", "cleanup"} => NoneLeased
  /\ Gate!Pc(m) = "cleanup" => NoGraphs
  /\ Gate!Pc(m) \in {"defaults", "cache", "finish"} => "settings" \notin agOwned
  /\ Gate!Pc(m) \in {"cache", "finish"} => "defaults" \notin agOwned
  /\ Gate!Pc(m) = "finish" => "cache" \notin agOwned

\* As far as what was cleared stays cleared.
Tracked == ~agSeen.restarted /\ ~agSeen.unrolled
Staged(m) == agMgr[m].op = "restore" /\ Gate!Pc(m) \in {"publish", "rollback"}
Restoring(m) == agMgr[m].op = "restore" /\ Gate!Pc(m) \notin {"read", "end"}

UpsertInv(m) ==
  /\ Gate!Pc(m) \in {"stage", "rollback"} => agMgr[m].op = "restore"
  /\ Gate!Pc(m) = "stage" \/ Staged(m) => agLife.state = "deleted"
  /\ Gate!Pc(m) = "stage" /\ Tracked => agOwned = {}
  /\ Staged(m) /\ Tracked => agOwned \subseteq {"settings"} /\ ~agMgr[m].keep
  /\ Gate!Pc(m) = "publish" /\ ~Staged(m) => agLife.state = "active"
  /\ Gate!Pc(m) = "register" => agLife.state = "active"

MgrInv(m) ==
  /\ Gate!Pc(m) = "idle" => agMgr[m] = Gate!IdleMgr
  /\ Gate!Pc(m) # "idle" => agReserved = m
  /\ Gate!Pc(m) \in DeletePc => Deletes(m)
  /\ Gate!Pc(m) \in UpsertPc => ~Deletes(m)
  /\ ~Deletes(m) => ~agMgr[m].token
  /\ DeleteInv(m) /\ UpsertInv(m)

OwnedInv ==
  agLife.state = "deleted" /\ Tracked /\ (\A m \in Managers : ~Restoring(m)) => agOwned = {}

GateSafe ==
  /\ GateTypes /\ LifeInv /\ UserInv /\ FenceInv /\ GateInv /\ OwnedInv
  /\ \A m \in Managers : MgrInv(m)

LEMMA IdleTypes == Gate!IdleUse \in User /\ Gate!IdleMgr \in Manager
BY DEF Gate!IdleUse, Gate!IdleMgr, User, Manager, UserPc, Gate!Kinds, Lifecycle

LEMMA LeasedIs == \A u \in Users : Gate!Leased(u) <=> Gate!UsePc(u) \in LeasedPc
BY DEF Gate!Leased, LeasedPc

(***************************************************************************)
(* Users.                                                                  *)
(***************************************************************************)
\* A user comes to hold the Agent, or a graph run that was not edited to refer to it,
\* only while the gate is open or from holding it.
LEMMA UserStep ==
  ASSUME GateSafe, NEW u \in Users, NEW r \in User, agUse' = [agUse EXCEPT ![u] = r], Gate!UserKeeps,
         r.pc = "prepared" => r.edited,
         r.pc = "writing" => r.kind \in Gate!Kinds,
         r.pc \in LeasedPc => ~agClosed \/ Gate!Leased(u),
         r.pc = "graph" => \/ r.edited \/ Gate!Leased(u)
                           \/ (Gate!UsePc(u) = "graph" /\ r.edited = agUse[u].edited)
  PROVE  GateSafe'
<1>1. agUse'[u] = r /\ \A v \in Users \ {u} : agUse'[v] = agUse[v]
  BY DEF GateSafe, GateTypes
<1>2. GateTypes' /\ LifeInv' /\ GateInv' /\ OwnedInv'
  BY DEF Gate!UserKeeps, GateSafe, GateTypes, LifeInv, GateInv, OwnedInv, Sees, GateClosing, Deletes,
         Gate!Pc, Tracked,
         Restoring
<1>3. UserInv'
  BY <1>1 DEF GateSafe, UserInv, Gate!UsePc
<1>4. agClosed /\ NoneLeased => NoneLeased'
  BY <1>1 DEF NoneLeased, Gate!Leased, LeasedPc, Gate!UsePc
<1>5. NoneLeased /\ NoGraphs => NoGraphs'
  BY <1>1 DEF NoneLeased, NoGraphs, Gate!UsePc
<1>6. FenceInv'
  BY <1>4, <1>5 DEF GateSafe, FenceInv, Fenced, Gate!UserKeeps
<1>7. ASSUME NEW m \in Managers PROVE MgrInv(m)'
  <2>1. MgrInv(m) /\ (Gate!Pc(m) \in DeletePc \ {"begin"} => agClosed)
    BY DEF GateSafe, MgrInv, DeleteInv, GateClosing
  <2>2. UpsertInv(m)'
    BY <2>1 DEF MgrInv, UpsertInv, Staged, Tracked, Gate!UserKeeps, Gate!Pc
  <2>3. DeleteInv(m)'
    BY <1>4, <1>5, <2>1
       DEF MgrInv, DeleteInv, Fenced, Gate!UserKeeps, Gate!Pc, Deletes, GateClosing, DeletePc, Checked
  <2> QED
    BY <2>1, <2>2, <2>3 DEF MgrInv, Gate!UserKeeps, Gate!Pc, Deletes
<1> QED
  BY <1>2, <1>3, <1>6, <1>7 DEF GateSafe

\* What is written while somebody holds the Agent is neither cleared nor missed.
LEMMA WriteInv ==
  ASSUME GateSafe, NEW u \in Users, Gate!WriteEnds(u)
  PROVE  GateSafe'
<1>1. Gate!Leased(u) /\ ~NoneLeased /\ ~Fenced
  BY DEF Gate!WriteEnds, Gate!Leased, NoneLeased, GateSafe, FenceInv
<1>2. agUse'[u] = Gate!IdleUse /\ \A v \in Users \ {u} : agUse'[v] = agUse[v]
  BY DEF Gate!WriteEnds, GateSafe, GateTypes
<1>3. ~(agLife.state = "deleted" /\ Tracked)
  BY <1>1 DEF GateSafe, LifeInv, Fenced, Tracked
<1>4. GateTypes'
  <2>1. agUse[u].kind \in Gate!Kinds
    BY DEF Gate!WriteEnds, GateSafe, UserInv
  <2> QED
    BY <2>1, IdleTypes DEF Gate!WriteEnds, GateSafe, GateTypes
<1>5. LifeInv' /\ GateInv'
  BY DEF Gate!WriteEnds, GateSafe, LifeInv, GateInv, Sees, GateClosing, Deletes, Gate!Pc
<1>6. UserInv' /\ OwnedInv' /\ FenceInv'
  BY <1>1, <1>2, <1>3
     DEF Gate!WriteEnds, GateSafe, UserInv, OwnedInv, FenceInv, Gate!UsePc, Gate!IdleUse, Fenced, Tracked
<1>7. ASSUME NEW m \in Managers PROVE MgrInv(m)'
  <2>1. MgrInv(m) /\ Gate!Pc(m) \notin Clearing \cup {"rescan", "relook", "restop", "cleanup"}
    BY <1>1 DEF GateSafe, MgrInv, DeleteInv, Fenced, Clearing
  <2>2. UpsertInv(m)'
    BY <1>3, <2>1 DEF Gate!WriteEnds, MgrInv, UpsertInv, Staged, Tracked, Gate!Pc
  <2>3. DeleteInv(m)'
    BY <2>1 DEF Gate!WriteEnds, MgrInv, DeleteInv, Fenced, Gate!Pc, Deletes, GateClosing, Checked, Clearing
  <2> QED
    BY <2>1, <2>2, <2>3 DEF Gate!WriteEnds, MgrInv, Gate!Pc, Deletes
<1> QED
  BY <1>4, <1>5, <1>6, <1>7 DEF GateSafe

UserNext(u) ==
  \/ Gate!TurnBegins(u) \/ Gate!TurnAcquires(u) \/ Gate!TurnRuns(u)
  \/ Gate!GraphChecks(u) \/ Gate!GraphAcquires(u) \/ Gate!GraphBinds(u) \/ Gate!GraphReleases(u)
  \/ Gate!GraphTurn(u) \/ Gate!GraphTurnRuns(u) \/ Gate!GraphTurnEnds(u)
  \/ Gate!WriteBegins(u) \/ Gate!WriteEnds(u) \/ Gate!UseEnds(u)

LEMMA UserInvStep ==
  ASSUME GateSafe, NEW u \in Users, UserNext(u)
  PROVE  GateSafe'
<1>1. agUse[u] \in User /\ agUse \in [Users -> User]
  BY DEF GateSafe, GateTypes
\* Most steps move the user to another place.
<1>2. ASSUME NEW p \in UserPc, Gate!UserKeeps,
             agUse' = [agUse EXCEPT ![u].pc = p],
             p = "prepared" => agUse[u].edited,
             p # "writing",
             p \in LeasedPc => ~agClosed \/ Gate!Leased(u),
             p = "graph" => agUse[u].edited \/ Gate!Leased(u) \/ Gate!UsePc(u) = "graph"
      PROVE  GateSafe'
  <2> DEFINE r == [agUse[u] EXCEPT !.pc = p]
  <2>1. /\ r \in User /\ r.pc = p /\ r.edited = agUse[u].edited
        /\ agUse' = [agUse EXCEPT ![u] = r]
    BY <1>1, <1>2 DEF User
  <2> HIDE DEF r
  <2> QED
    BY <1>2, <2>1, UserStep
<1>3. CASE agUse' = [agUse EXCEPT ![u] = Gate!IdleUse] /\ Gate!UserKeeps
  BY <1>3, IdleTypes, UserStep DEF Gate!IdleUse, LeasedPc
<1>4. CASE Gate!TurnBegins(u) \/ Gate!TurnAcquires(u) \/ Gate!TurnRuns(u)
  BY <1>2, <1>3, <1>4
     DEF Gate!TurnBegins, Gate!TurnAcquires, Gate!TurnRuns, Gate!AcquireExecution, Gate!UseGoto,
         UserPc, LeasedPc, Gate!Leased
<1>5. CASE Gate!GraphAcquires(u) \/ Gate!GraphTurn(u) \/ Gate!GraphTurnRuns(u) \/ Gate!GraphTurnEnds(u)
  BY <1>2, <1>3, <1>5
     DEF Gate!GraphAcquires, Gate!GraphTurn, Gate!GraphTurnRuns, Gate!GraphTurnEnds,
         Gate!AcquireExecution, Gate!UseGoto,
         UserPc, LeasedPc, Gate!Leased
<1>6. CASE Gate!GraphBinds(u)
  BY <1>2, <1>6 DEF Gate!GraphBinds, Gate!AfterResolve, Gate!UseGoto, UserPc, LeasedPc, Gate!Leased
<1>7. CASE Gate!GraphReleases(u)
  <2>1. Gate!UsePc(u) = "prepared" => agUse[u].edited
    BY DEF GateSafe, UserInv
  <2> QED
    BY <1>2, <1>7, <2>1 DEF Gate!GraphReleases, Gate!UseGoto, UserPc, LeasedPc, Gate!Leased
<1>8. CASE Gate!GraphChecks(u)
  <2>1. PICK e \in BOOLEAN : agUse' = [agUse EXCEPT ![u].pc = "checked", ![u].edited = e]
    BY <1>8 DEF Gate!GraphChecks
  <2> DEFINE r == [agUse[u] EXCEPT !.pc = "checked", !.edited = e]
  <2>2. r \in User /\ r.pc = "checked" /\ agUse' = [agUse EXCEPT ![u] = r]
    BY <1>1, <2>1 DEF User, UserPc
  <2> HIDE DEF r
  <2> QED
    BY <1>8, <2>2, UserStep DEF Gate!GraphChecks, LeasedPc
<1>9. CASE Gate!WriteBegins(u)
  <2>1. PICK k \in Gate!Kinds : agUse' = [agUse EXCEPT ![u].pc = "writing", ![u].kind = k]
    BY <1>9 DEF Gate!WriteBegins
  <2> DEFINE r == [agUse[u] EXCEPT !.pc = "writing", !.kind = k]
  <2>2. r \in User /\ r.pc = "writing" /\ r.kind = k /\ agUse' = [agUse EXCEPT ![u] = r]
    BY <1>1, <2>1 DEF User, UserPc
  <2> HIDE DEF r
  <2> QED
    BY <1>9, <2>2, UserStep DEF Gate!WriteBegins, LeasedPc
<1>10. CASE Gate!WriteEnds(u)
  BY <1>10, WriteInv
<1>11. CASE Gate!UseEnds(u)
  BY <1>3, <1>11 DEF Gate!UseEnds
<1> QED
  BY <1>4, <1>5, <1>6, <1>7, <1>8, <1>9, <1>10, <1>11 DEF UserNext

(***************************************************************************)
(* Managing requests: one at a time.                                       *)
(***************************************************************************)
LEMMA Alone ==
  ASSUME GateSafe, "none" \notin Managers, NEW m \in Managers, Gate!Pc(m) # "idle" \/ agReserved = "none"
  PROVE  /\ \A n \in Managers \ {m} : agMgr[n] = Gate!IdleMgr
         /\ Gate!Pc(m) # "idle" => agReserved = m
         /\ agClosed /\ ~agSeen.unregistered /\ ~agLife.cleanup => Sees(m)
         /\ agLife.state = "deleted" /\ Tracked /\ ~Restoring(m) => agOwned = {}
<1>1. \A n \in Managers \ {m} : Gate!Pc(n) = "idle" /\ agMgr[n] = Gate!IdleMgr
  BY DEF GateSafe, MgrInv
<1>2. \A n \in Managers \ {m} : ~Sees(n) /\ ~Restoring(n)
  BY <1>1 DEF Sees, GateClosing, Deletes, Restoring, Gate!IdleMgr, Gate!Pc
<1> QED
  BY <1>1, <1>2 DEF GateSafe, MgrInv, GateInv, OwnedInv

\* What a request that does nothing has to satisfy.
LEMMA IdleInv ==
  ASSUME NEW m \in Managers, agMgr'[m] = Gate!IdleMgr
  PROVE  MgrInv(m)'
BY DEF MgrInv, DeleteInv, UpsertInv, Gate!Pc, Gate!IdleMgr, Deletes, GateClosing, Staged, DeletePc,
       UpsertPc,
       Checked, Clearing, Gate!Kinds

\* A step of one request is a matter of what it shares with the users, and of itself.
LEMMA ManagerStep ==
  ASSUME GateSafe, "none" \notin Managers, NEW m \in Managers, NEW r \in Manager,
         Gate!Pc(m) # "idle" \/ agReserved = "none",
         agMgr' = [agMgr EXCEPT ![m] = r],
         agLife' \in Lifecycle, agOwned' \in SUBSET Gate!Kinds, agClosed' \in BOOLEAN,
         agSeen' \in [restarted : BOOLEAN, unregistered : BOOLEAN, unrolled : BOOLEAN],
         UNCHANGED agUse, LifeInv', FenceInv', MgrInv(m)',
         agClosed' /\ ~agSeen'.unregistered /\ ~agLife'.cleanup => Sees(m)',
         agLife'.state = "deleted" /\ Tracked' /\ ~Restoring(m)' => agOwned' = {}
  PROVE  GateSafe'
<1>1. agMgr'[m] = r /\ \A n \in Managers \ {m} : agMgr'[n] = Gate!IdleMgr
  BY Alone DEF GateSafe, GateTypes
<1>2. GateTypes' /\ UserInv'
  BY DEF GateSafe, GateTypes, UserInv, Gate!UsePc
<1>3. \A n \in Managers : MgrInv(n)'
  BY <1>1, IdleInv
<1> QED
  BY <1>2, <1>3 DEF GateSafe, GateInv, OwnedInv

\* The request looks, decides and waits.
LEMMA PlainStep ==
  ASSUME GateSafe, "none" \notin Managers, NEW m \in Managers, NEW r \in Manager, Gate!Pc(m) # "idle",
         agMgr' = [agMgr EXCEPT ![m] = r],
         UNCHANGED <<agLife, agOwned, agClosed, agUse, agReserved, agSeen>>,
         MgrInv(m)',
         Sees(m) => Sees(m)',
         agLife.state = "deleted" /\ Tracked /\ ~Restoring(m)' => agOwned = {}
  PROVE  GateSafe'
<1>1. LifeInv' /\ FenceInv'
  BY DEF GateSafe, LifeInv, FenceInv, Fenced, NoneLeased, NoGraphs, Gate!Leased, Gate!UsePc
<1>2. agClosed' /\ ~agSeen'.unregistered /\ ~agLife'.cleanup => Sees(m)'
  BY Alone
<1>3. agLife'.state = "deleted" /\ Tracked' /\ ~Restoring(m)' => agOwned' = {}
  BY DEF Tracked
<1> QED
  BY <1>1, <1>2, <1>3, ManagerStep DEF GateSafe, GateTypes

\* A request at p goes on to q and changes nothing else of itself.
LEMMA GotoIs ==
  ASSUME GateSafe, NEW m \in Managers, NEW q \in {"end"} \cup DeletePc \cup UpsertPc, Gate!Goto(m, q)
  PROVE  \E r \in Manager :
           /\ agMgr' = [agMgr EXCEPT ![m] = r]
           /\ r.pc = q /\ r.op = agMgr[m].op /\ r.found = agMgr[m].found
           /\ r.token = agMgr[m].token /\ r.keep = agMgr[m].keep
<1> DEFINE r == [agMgr[m] EXCEPT !.pc = q]
<1>1. agMgr[m] \in Manager
  BY DEF GateSafe, GateTypes
<1>2. /\ r \in Manager /\ r.pc = q /\ r.op = agMgr[m].op /\ r.found = agMgr[m].found
      /\ r.token = agMgr[m].token /\ r.keep = agMgr[m].keep
  BY <1>1 DEF Manager
<1>3. agMgr' = [agMgr EXCEPT ![m] = r]
  BY DEF Gate!Goto, GateSafe, GateTypes
<1> QED
  BY <1>2, <1>3

LEMMA BeginInv ==
  ASSUME GateSafe, "none" \notin Managers, NEW m \in Managers, Gate!ManageBegins(m) \/ Gate!BeginDelete(m)
  PROVE  GateSafe'
<1>1. agMgr \in [Managers -> Manager] /\ agMgr[m] \in Manager
  BY DEF GateSafe, GateTypes
<1>2. CASE Gate!ManageBegins(m)
  <2>1. PICK op \in {"delete", "force", "update", "restore"} :
          agMgr' = [agMgr EXCEPT ![m] = [Gate!IdleMgr EXCEPT !.op = op,
                                          !.pc = IF op \in {"delete", "force"} THEN "begin" ELSE "read"]]
    BY <1>2 DEF Gate!ManageBegins
  <2> DEFINE q == IF op \in {"delete", "force"} THEN "begin" ELSE "read"
  <2> DEFINE r == [Gate!IdleMgr EXCEPT !.op = op, !.pc = q]
  <2>2. q \in {"begin", "read"}
    OBVIOUS
  <2>3. /\ r \in Manager /\ r.pc = q /\ r.op = op /\ ~r.token /\ ~r.keep
        /\ agMgr' = [agMgr EXCEPT ![m] = r]
    BY <2>1, <2>2, IdleTypes DEF Gate!IdleMgr, Manager, DeletePc, UpsertPc
  <2> HIDE DEF r
  <2>4. agMgr'[m] = r
    BY <1>1, <2>3
  <2>5. MgrInv(m)'
    BY <1>2, <2>2, <2>3, <2>4
       DEF MgrInv, DeleteInv, UpsertInv, Gate!Pc, Deletes, GateClosing, Staged, DeletePc, UpsertPc,
           Checked, Clearing, Gate!Kinds, Gate!ManageBegins, Gate!Reserve
  <2>6. /\ agReserved = "none" /\ Gate!Pc(m) = "idle"
        /\ UNCHANGED <<agLife, agOwned, agClosed, agUse, agSeen>>
    BY <1>2 DEF Gate!ManageBegins, Gate!Reserve
  <2>7. LifeInv' /\ FenceInv'
    BY <2>6 DEF GateSafe, LifeInv, FenceInv, Fenced, NoneLeased, NoGraphs, Gate!Leased, Gate!UsePc
  <2>8. agMgr[m] = Gate!IdleMgr
    BY <2>6 DEF GateSafe, MgrInv
  <2>9. ~Sees(m) /\ ~Restoring(m)
    BY <2>8 DEF Sees, GateClosing, Deletes, Restoring, Gate!Pc, Gate!IdleMgr
  <2>10. ~(agClosed' /\ ~agSeen'.unregistered /\ ~agLife'.cleanup)
    BY <2>6, <2>9, Alone
  <2>11. agLife'.state = "deleted" /\ Tracked' => agOwned' = {}
    BY <2>6, <2>9, Alone DEF Tracked
  <2> QED
    BY <2>3, <2>5, <2>6, <2>7, <2>10, <2>11, ManagerStep DEF GateSafe, GateTypes
<1>3. CASE Gate!BeginDelete(m)
  <2> DEFINE r == [agMgr[m] EXCEPT !.pc = "find", !.token = ~agClosed]
  <2>1. /\ Gate!Pc(m) = "begin" /\ Deletes(m) /\ agReserved = m /\ agReserved' = m
        /\ agClosed' = TRUE /\ UNCHANGED <<agLife, agOwned, agUse, agSeen>>
    BY <1>3 DEF Gate!BeginDelete, GateSafe, MgrInv, DeletePc
  <2>2. agClosed \in BOOLEAN
    BY DEF GateSafe, GateTypes
  <2>3. /\ r \in Manager /\ r.pc = "find" /\ r.op = agMgr[m].op /\ r.keep = agMgr[m].keep
        /\ r.token = ~agClosed
        /\ agMgr' = [agMgr EXCEPT ![m] = r]
    BY <1>1, <1>3, <2>2 DEF Gate!BeginDelete, Manager, DeletePc
  <2> HIDE DEF r
  <2>4. agMgr'[m] = r
    BY <1>1, <2>3
  <2>5. FenceInv'
    BY <2>1 DEF GateSafe, FenceInv, Fenced, NoneLeased, NoGraphs, Gate!Leased, Gate!UsePc
  <2>6. MgrInv(m)'
    BY <2>1, <2>3, <2>4
       DEF GateSafe, FenceInv, Fenced, MgrInv, DeleteInv, UpsertInv, Gate!Pc, Deletes, GateClosing, Staged,
           DeletePc, UpsertPc, Checked, Clearing, Gate!Kinds
  <2>7. LifeInv'
    BY <2>1 DEF GateSafe, LifeInv
  <2>8. agClosed => ~Sees(m)
    BY <2>1 DEF Sees, GateClosing
  <2>9. agClosed' /\ ~agSeen'.unregistered /\ ~agLife'.cleanup => Sees(m)'
    BY <2>1, <2>3, <2>4, <2>8, Alone DEF Sees, GateClosing, Deletes, Gate!Pc
  <2>10. agLife'.state = "deleted" /\ Tracked' => agOwned' = {}
    BY <2>1, Alone DEF Tracked, Restoring, Deletes
  <2> QED
    BY <2>1, <2>3, <2>5, <2>6, <2>7, <2>9, <2>10, ManagerStep DEF GateSafe, GateTypes
<1> QED
  BY <1>2, <1>3

(***************************************************************************)
(* Deletion.                                                               *)
(***************************************************************************)
LEMMA DeletionPc ==
  ASSUME GateSafe, NEW m \in Managers, Gate!Pc(m) \in DeletePc \ {"begin"}
  PROVE  /\ Deletes(m) /\ GateClosing(m) /\ agClosed /\ agReserved = m /\ Gate!Pc(m) # "idle"
         /\ DeleteInv(m) /\ agMgr[m] \in Manager
         /\ ~Restoring(m)
<1>1. Gate!Pc(m) # "idle" /\ Gate!Pc(m) # "begin"
  BY DEF DeletePc, Checked, Clearing, Gate!Kinds
<1> QED
  BY <1>1 DEF GateSafe, GateTypes, MgrInv, DeleteInv, GateClosing, Deletes, Restoring

\* What the invariant asks of a deletion on its way, but for its own facts.
LEMMA DeletionIs ==
  ASSUME GateSafe, NEW m \in Managers, NEW r \in Manager, Gate!Pc(m) \in DeletePc \ {"begin"},
         agMgr' = [agMgr EXCEPT ![m] = r], r.op = agMgr[m].op,
         r.pc \in {"end"} \cup (DeletePc \ {"begin"}), agReserved' = agReserved, DeleteInv(m)'
  PROVE  /\ MgrInv(m)' /\ agMgr'[m] = r /\ ~Restoring(m)'
         /\ Sees(m)' = r.token
<1>1. agMgr'[m] = r
  BY DEF GateSafe, GateTypes
<1>2. r.pc \notin UpsertPc \cup {"idle"}
  BY DEF DeletePc, UpsertPc, Checked, Clearing, Gate!Kinds
<1>3. r.op \in {"delete", "force"} /\ r.token \in BOOLEAN /\ r.pc # "begin"
  BY DeletionPc DEF Deletes, Manager, DeletePc, Checked, Clearing, Gate!Kinds
<1>4. UpsertInv(m)'
  BY <1>1, <1>2, <1>3 DEF UpsertInv, Gate!Pc, Staged, UpsertPc
<1>5. ~Restoring(m)' /\ Sees(m)' = r.token
  BY <1>1, <1>2, <1>3 DEF Restoring, Sees, GateClosing, Deletes, Gate!Pc, UpsertPc
<1> QED
  BY <1>1, <1>2, <1>3, <1>4, <1>5, DeletionPc DEF MgrInv, Gate!Pc, Deletes

LEMMA DeletionLooks ==
  ASSUME GateSafe, "none" \notin Managers, NEW m \in Managers, NEW r \in Manager,
         Gate!Pc(m) \in DeletePc \ {"begin"}, agMgr' = [agMgr EXCEPT ![m] = r],
         r.op = agMgr[m].op, r.token = agMgr[m].token,
         r.pc \in {"end"} \cup (DeletePc \ {"begin"}),
         UNCHANGED <<agLife, agOwned, agClosed, agUse, agReserved, agSeen>>, DeleteInv(m)'
  PROVE  GateSafe'
<1>1. MgrInv(m)' /\ ~Restoring(m)' /\ Sees(m)' = r.token
  BY DeletionIs
<1>2. Sees(m) => r.token
  BY DeletionPc DEF Sees, Gate!Pc, DeletePc, Checked, Clearing, Gate!Kinds
<1>3. agLife.state = "deleted" /\ Tracked => agOwned = {}
  BY DeletionPc, Alone
<1> QED
  BY <1>1, <1>2, <1>3, DeletionPc, PlainStep

LEMMA FindInv ==
  ASSUME GateSafe, "none" \notin Managers, NEW m \in Managers, Gate!FindAgent(m)
  PROVE  GateSafe'
<1>1. /\ Gate!Pc(m) = "find" /\ Gate!Pc(m) \in DeletePc \ {"begin"}
      /\ UNCHANGED <<agLife, agOwned, agClosed, agUse, agReserved, agSeen>>
  BY DEF Gate!FindAgent, DeletePc
<1>2. /\ Deletes(m) /\ agClosed /\ agMgr[m] \in Manager
      /\ ~agMgr[m].keep /\ (agMgr[m].token => ~Fenced)
  BY <1>1, DeletionPc DEF DeleteInv
<1>3. CASE Gate!Goto(m, "end")
  <2>1. PICK r \in Manager : /\ agMgr' = [agMgr EXCEPT ![m] = r]
                             /\ r.pc = "end" /\ r.op = agMgr[m].op /\ r.token = agMgr[m].token
                             /\ r.keep = agMgr[m].keep
    BY <1>3, GotoIs
  <2>2. agMgr'[m] = r
    BY <2>1 DEF GateSafe, GateTypes
  <2>3. DeleteInv(m)'
    BY <1>1, <1>2, <2>1, <2>2 DEF DeleteInv, Gate!Pc, Deletes, GateClosing, Fenced, Checked, Clearing
  <2> QED
    BY <1>1, <2>1, <2>3, DeletionLooks
<1>4. ASSUME NEW pc \in {"mark", "end"},
             agMgr' = [agMgr EXCEPT ![m].found = agLife,
                                    ![m].keep = agLife.cleanup \/ agLife.state = "deleted",
                                    ![m].pc = IF agLife.state = "deleted" THEN "end" ELSE pc]
      PROVE  GateSafe'
  <2> DEFINE q == IF agLife.state = "deleted" THEN "end" ELSE pc
  <2> DEFINE k == agLife.cleanup \/ agLife.state = "deleted"
  <2> DEFINE r == [agMgr[m] EXCEPT !.found = agLife, !.keep = k, !.pc = q]
  <2>1. agLife \in Lifecycle /\ agLife.cleanup \in BOOLEAN
    BY DEF GateSafe, GateTypes, Lifecycle
  <2>2. k = agLife.cleanup
    BY <2>1 DEF GateSafe, LifeInv
  <2>3. q \in {"mark", "end"} /\ (q = "mark" => agLife.state # "deleted") /\ k \in BOOLEAN
    BY <2>1, <2>2
  <2>4. agMgr' = [agMgr EXCEPT ![m] = r]
    BY <1>4 DEF GateSafe, GateTypes
  <2> HIDE DEF q, k
  <2>5. /\ r \in Manager /\ r.pc = q /\ r.keep = k /\ r.found = agLife
        /\ r.op = agMgr[m].op /\ r.token = agMgr[m].token
    BY <1>2, <2>1, <2>3 DEF Manager, DeletePc, Checked
  <2> HIDE DEF r
  <2>6. agMgr'[m] = r
    BY <2>4 DEF GateSafe, GateTypes
  <2>7. DeleteInv(m)'
    BY <1>1, <1>2, <2>2, <2>3, <2>5, <2>6
       DEF DeleteInv, Gate!Pc, Deletes, GateClosing, Fenced, Checked, Clearing, Gate!Kinds
  <2>8. r.pc \in {"end"} \cup (DeletePc \ {"begin"})
    BY <2>3, <2>5 DEF DeletePc, Checked
  <2> QED
    BY <1>1, <2>4, <2>5, <2>7, <2>8, DeletionLooks
<1> QED
  BY <1>3, <1>4 DEF Gate!FindAgent

\* From its look at the jobs on, a deletion is at its place in what it has found out.
LEMMA DeletionGoes ==
  ASSUME GateSafe, "none" \notin Managers, NEW m \in Managers, NEW r \in Manager,
         Gate!Pc(m) \in Checked \ {"mark"}, agMgr' = [agMgr EXCEPT ![m] = r],
         r.op = agMgr[m].op, r.token = agMgr[m].token, r.found = agMgr[m].found,
         r.keep = agMgr[m].keep, r.pc \in {"end"} \cup (Checked \ {"mark"}),
         r.pc \in {"rescan", "relook", "restop", "cleanup"} => NoneLeased,
         r.pc = "cleanup" => NoGraphs,
         UNCHANGED <<agLife, agOwned, agClosed, agUse, agReserved, agSeen>>
  PROVE  GateSafe'
<1>1. agMgr'[m] = r
  BY DEF GateSafe, GateTypes
<1>2. Gate!Pc(m) \in DeletePc \ {"begin"} /\ r.pc \in {"end"} \cup (DeletePc \ {"begin"})
  BY DEF DeletePc, Checked
<1>3. DeleteInv(m)
  BY <1>2, DeletionPc
<1>4. NoneLeased' = NoneLeased /\ NoGraphs' = NoGraphs
  BY DEF NoneLeased, NoGraphs, Gate!Leased, Gate!UsePc
<1>5. /\ agMgr[m].keep = agLife.cleanup /\ agLife.state = "deleting"
      /\ agMgr[m].found.cleanup = agLife.cleanup /\ agClosed
  BY <1>2, <1>3, DeletionPc DEF DeleteInv
<1>6. DeleteInv(m)'
  BY <1>1, <1>4, <1>5 DEF DeleteInv, Gate!Pc, Deletes, GateClosing, Fenced, Checked, Clearing, Gate!Kinds
<1> QED
  BY <1>2, <1>6, DeletionLooks

LEMMA ScanInv ==
  ASSUME GateSafe, "none" \notin Managers, NEW m \in Managers,
         Gate!Scan(m) \/ Gate!Rescan(m) \/ Gate!CancelAgent(m) \/ Gate!WaitForExecutions(m)
  PROVE  GateSafe'
\* A step that only goes on.
<1>1. ASSUME NEW q \in {"end"} \cup (Checked \ {"mark"}), Gate!Pc(m) \in Checked \ {"mark"},
             Gate!Goto(m, q),
             q \in {"rescan", "relook", "restop", "cleanup"} => NoneLeased,
             q = "cleanup" => NoGraphs,
             UNCHANGED <<agLife, agOwned, agClosed, agUse, agReserved, agSeen>>
      PROVE  GateSafe'
  <2>1. q \in {"end"} \cup DeletePc \cup UpsertPc
    BY DEF DeletePc
  <2>2. PICK r \in Manager :
           /\ agMgr' = [agMgr EXCEPT ![m] = r]
           /\ r.pc = q /\ r.op = agMgr[m].op /\ r.found = agMgr[m].found
           /\ r.token = agMgr[m].token /\ r.keep = agMgr[m].keep
    BY <1>1, <2>1, GotoIs
  <2> QED
    BY <1>1, <2>2, DeletionGoes
<1>2. Gate!Pc(m) \in {"rescan", "relook"} => NoneLeased
  BY DEF GateSafe, MgrInv, DeleteInv
<1>3. ASSUME NEW forced \in BOOLEAN, NEW next \in {"auth", "cleanup"}, NEW stopping \in {"stop", "restop"},
             Gate!Pc(m) \in {"scan", "look", "rescan", "relook"}, Gate!Look(m, forced, next, stopping),
             next = "cleanup" \/ stopping = "restop" => NoneLeased
      PROVE  GateSafe'
  <2>1. CASE Gate!Goto(m, "restore")
    BY <1>1, <1>3, <2>1 DEF Gate!Look, Checked
  <2>2. CASE Gate!Blocking = {} /\ Gate!Goto(m, next)
    <3>1. NoGraphs
      BY <2>2 DEF NoGraphs, Gate!Blocking, Gate!Live
    <3> QED
      BY <1>1, <1>3, <2>2, <3>1 DEF Gate!Look, Checked
  <2>3. CASE agMgr' = [agMgr EXCEPT ![m].list = Gate!Blocking, ![m].pc = stopping]
    <3> DEFINE r == [agMgr[m] EXCEPT !.list = Gate!Blocking, !.pc = stopping]
    <3>1. agMgr[m] \in Manager /\ Gate!Blocking \in SUBSET Users
      BY DEF GateSafe, GateTypes, Gate!Blocking
    <3>2. /\ r \in Manager /\ r.pc = stopping
          /\ r.op = agMgr[m].op /\ r.token = agMgr[m].token /\ r.found = agMgr[m].found
          /\ r.keep = agMgr[m].keep /\ agMgr' = [agMgr EXCEPT ![m] = r]
      BY <2>3, <3>1 DEF Manager, DeletePc, Checked
    <3> HIDE DEF r
    <3> QED
      BY <1>3, <3>2, DeletionGoes DEF Gate!Look, Checked
  <2> QED
    BY <1>3, <2>1, <2>2, <2>3 DEF Gate!Look
<1>4. CASE Gate!Scan(m)
  BY <1>3, <1>4 DEF Gate!Scan
<1>5. CASE Gate!Rescan(m)
  BY <1>2, <1>3, <1>5 DEF Gate!Rescan
<1>6. CASE Gate!CancelAgent(m)
  BY <1>1, <1>6 DEF Gate!CancelAgent, Checked
<1>7. CASE Gate!WaitForExecutions(m)
  BY <1>1, <1>7 DEF Gate!WaitForExecutions, Gate!Drained, NoneLeased, Checked
<1> QED
  BY <1>4, <1>5, <1>6, <1>7

\* A job that is stopped lets go of the Agent, or is on its way to.
LEMMA StopInv ==
  ASSUME GateSafe, "none" \notin Managers, NEW m \in Managers, Gate!StopJobs(m)
  PROVE  GateSafe'
<1>1. /\ Gate!Pc(m) \in {"stop", "restop"} /\ Gate!Pc(m) \in Checked \ {"mark"}
      /\ Gate!Pc(m) \in DeletePc \ {"begin"}
      /\ UNCHANGED <<agLife, agOwned, agClosed, agReserved, agSeen>>
  BY DEF Gate!StopJobs, Checked, DeletePc
<1>2. agMgr[m] \in Manager /\ agMgr \in [Managers -> Manager] /\ agUse \in [Users -> User]
  BY DEF GateSafe, GateTypes
<1>3. Gate!Pc(m) = "restop" => NoneLeased
  BY DEF GateSafe, MgrInv, DeleteInv
<1>4. ASSUME NEW u \in agMgr[m].list,
             agUse' = [agUse EXCEPT ![u] = Gate!Stopped(u)],
             agMgr' = [agMgr EXCEPT ![m].list = @ \ {u}]
      PROVE  GateSafe'
  <2>1. u \in Users
    BY <1>2 DEF Manager
  <2> DEFINE r == [agMgr[m] EXCEPT !.list = @ \ {u}]
  <2>2. /\ r \in Manager /\ r.pc = Gate!Pc(m) /\ r.op = agMgr[m].op /\ r.token = agMgr[m].token
        /\ r.found = agMgr[m].found /\ r.keep = agMgr[m].keep
        /\ agMgr' = [agMgr EXCEPT ![m] = r]
    BY <1>2, <1>4 DEF Manager, Gate!Pc
  <2> HIDE DEF r
  <2>3. agMgr'[m] = r /\ \A n \in Managers \ {m} : agMgr'[n] = agMgr[n]
    BY <1>2, <2>2
  <2> DEFINE w == Gate!Stopped(u)
  <2>4. agUse[u] \in User
    BY <1>2, <2>1
  <2>5. /\ w \in User
        /\ w = agUse[u] \/ w.pc = "idle" \/ (w.pc = "leaving" /\ Gate!UsePc(u) = "bound")
    <3>1. CASE Gate!UsePc(u) = "bound"
      BY <2>4, <3>1 DEF Gate!Stopped, User, UserPc
    <3>2. CASE Gate!UsePc(u) # "bound" /\ Gate!Live(u)
      BY <3>2, IdleTypes DEF Gate!Stopped, Gate!IdleUse
    <3>3. CASE Gate!UsePc(u) # "bound" /\ ~Gate!Live(u)
      BY <2>4, <3>3 DEF Gate!Stopped
    <3> QED
      BY <3>1, <3>2, <3>3
  <2>6. agUse' = [agUse EXCEPT ![u] = w]
    BY <1>4
  <2> HIDE DEF w
  <2>7. agUse'[u] = w /\ \A v \in Users \ {u} : agUse'[v] = agUse[v]
    BY <1>2, <2>1, <2>6
  <2>8. GateTypes'
    BY <1>1, <1>2, <2>2, <2>5, <2>6 DEF GateSafe, GateTypes
  <2>9. LifeInv' /\ UserInv'
    BY <1>1, <2>5, <2>7 DEF GateSafe, LifeInv, UserInv, Gate!UsePc
  <2>10. (NoneLeased => NoneLeased') /\ (NoGraphs => NoGraphs')
    BY <2>5, <2>7 DEF NoneLeased, NoGraphs, Gate!Leased, Gate!UsePc
  <2>11. FenceInv'
    BY <1>1, <2>10 DEF GateSafe, FenceInv, Fenced
  <2>12. \A n \in Managers : (Sees(n) <=> Sees(n)') /\ (Restoring(n) <=> Restoring(n)')
    BY <2>2, <2>3 DEF Sees, GateClosing, Deletes, Restoring, Gate!Pc
  <2>13. GateInv' /\ OwnedInv'
    BY <1>1, <2>12 DEF GateSafe, GateInv, OwnedInv, Tracked
  <2>14. MgrInv(m)'
    <3>1. DeleteInv(m) /\ UpsertInv(m) /\ MgrInv(m) /\ r.pc \in {"stop", "restop"}
      BY <1>1, <2>2 DEF GateSafe, MgrInv
    <3>2. DeleteInv(m)'
      BY <1>1, <1>3, <2>2, <2>3, <2>10, <3>1
         DEF DeleteInv, Gate!Pc, Deletes, GateClosing, Fenced, Checked, Clearing, Gate!Kinds
    <3>3. UpsertInv(m)'
      BY <2>2, <2>3, <3>1 DEF UpsertInv, Gate!Pc, Staged
    <3> QED
      BY <1>1, <2>2, <2>3, <3>1, <3>2, <3>3 DEF MgrInv, Gate!Pc, Deletes
  <2>15. \A n \in Managers \ {m} : MgrInv(n)'
    <3>1. \A n \in Managers \ {m} : agMgr'[n] = Gate!IdleMgr
      BY <1>1, <2>3, Alone, DeletionPc
    <3> QED
      BY <3>1, IdleInv
  <2> QED
    BY <2>8, <2>9, <2>11, <2>13, <2>14, <2>15 DEF GateSafe
<1>5. CASE agMgr' = [agMgr EXCEPT ![m].pc = "restore", ![m].list = {}] /\ UNCHANGED agUse
  <2> DEFINE r == [agMgr[m] EXCEPT !.pc = "restore", !.list = {}]
  <2>1. /\ r \in Manager /\ r.pc = "restore" /\ r.op = agMgr[m].op /\ r.token = agMgr[m].token
        /\ r.found = agMgr[m].found /\ r.keep = agMgr[m].keep
        /\ agMgr' = [agMgr EXCEPT ![m] = r]
    BY <1>2, <1>5 DEF Manager, DeletePc, Checked
  <2> HIDE DEF r
  <2>2. r.pc \in {"end"} \cup (Checked \ {"mark"})
    BY <2>1 DEF Checked
  <2> QED
    BY <1>1, <1>5, <2>1, <2>2, DeletionGoes
<1>6. CASE Gate!Goto(m, IF Gate!Pc(m) = "stop" THEN "look" ELSE "relook") /\ UNCHANGED agUse
  <2> DEFINE q == IF Gate!Pc(m) = "stop" THEN "look" ELSE "relook"
  <2>1. q \in {"look", "relook"} /\ (q = "relook" => NoneLeased)
    BY <1>1, <1>3
  <2>2. Gate!Goto(m, q)
    BY <1>6
  <2> HIDE DEF q
  <2>3. q \in {"end"} \cup DeletePc \cup UpsertPc /\ q \in {"end"} \cup (Checked \ {"mark"})
    BY <2>1 DEF DeletePc, Checked
  <2>4. PICK r \in Manager :
           /\ agMgr' = [agMgr EXCEPT ![m] = r]
           /\ r.pc = q /\ r.op = agMgr[m].op /\ r.found = agMgr[m].found
           /\ r.token = agMgr[m].token /\ r.keep = agMgr[m].keep
    BY <2>2, <2>3, GotoIs
  <2> QED
    BY <1>1, <1>6, <2>1, <2>3, <2>4, DeletionGoes
<1> QED
  BY <1>4, <1>5, <1>6 DEF Gate!StopJobs

\* A deletion that saves something on disk.
LEMMA DeletionSaves ==
  ASSUME GateSafe, "none" \notin Managers, NEW m \in Managers, NEW r \in Manager,
         Gate!Pc(m) \in DeletePc \ {"begin"}, agMgr' = [agMgr EXCEPT ![m] = r],
         r.op = agMgr[m].op, r.token = agMgr[m].token,
         r.pc \in {"end"} \cup (DeletePc \ {"begin"}),
         agLife' \in Lifecycle, agOwned' \in SUBSET Gate!Kinds,
         UNCHANGED <<agClosed, agUse, agReserved, agSeen>>,
         agLife.cleanup => agLife'.cleanup,
         LifeInv', Fenced' => NoneLeased /\ NoGraphs, DeleteInv(m)',
         agLife'.state = "deleted" /\ Tracked => agOwned' = {}
  PROVE  GateSafe'
<1>1. MgrInv(m)' /\ ~Restoring(m)' /\ Sees(m)' = r.token
  BY DeletionIs
<1>2. agClosed /\ ~agSeen.unregistered /\ ~agLife.cleanup => r.token
  BY Alone, DeletionPc DEF Sees, Gate!Pc, DeletePc, Checked, Clearing, Gate!Kinds
<1>3. NoneLeased' = NoneLeased /\ NoGraphs' = NoGraphs
  BY DEF NoneLeased, NoGraphs, Gate!Leased, Gate!UsePc
<1>4. FenceInv'
  BY <1>3, DeletionPc DEF FenceInv
<1>5. agLife'.state = "deleted" /\ Tracked' => agOwned' = {}
  BY DEF Tracked
<1> QED
  BY <1>1, <1>2, <1>4, <1>5, DeletionPc, ManagerStep DEF GateSafe, GateTypes

LEMMA GateMarkInv ==
  ASSUME GateSafe, "none" \notin Managers, NEW m \in Managers, Gate!MarkDeleting(m) \/ Gate!RestoreActive(m)
  PROVE  GateSafe'
<1>1. /\ Gate!Pc(m) \in {"mark", "restore"} /\ Gate!Pc(m) \in DeletePc \ {"begin"}
      /\ UNCHANGED <<agOwned, agClosed, agUse, agReserved, agSeen>>
  BY DEF Gate!MarkDeleting, Gate!RestoreActive, DeletePc, Checked
<1>2. /\ agLife \in Lifecycle /\ agLife.cleanup \in BOOLEAN
      /\ agLife.state \in {"active", "deleting", "deleted"}
  BY DEF GateSafe, GateTypes, Lifecycle
<1>3. /\ agMgr[m].keep = agLife.cleanup /\ agClosed /\ agMgr[m].found.cleanup = agLife.cleanup
      /\ agLife.state # "deleted"
      /\ Gate!Pc(m) = "restore" => agLife.state = "deleting"
  BY <1>1, DeletionPc DEF DeleteInv, Checked
<1>4. agLife.cleanup => Fenced /\ NoneLeased /\ NoGraphs
  BY <1>2, <1>3 DEF GateSafe, LifeInv, FenceInv, Fenced
<1>5. ASSUME NEW q \in {"scan", "end"}, Gate!Goto(m, q), agLife' \in Lifecycle,
             agLife'.cleanup = agLife.cleanup, agLife'.state # "deleted",
             agLife'.state = "active" => ~agLife.cleanup,
             q = "scan" => agLife'.state = "deleting"
      PROVE  GateSafe'
  <2>1. q \in {"end"} \cup DeletePc \cup UpsertPc /\ q \in {"end"} \cup (DeletePc \ {"begin"})
    BY DEF DeletePc, Checked
  <2>2. PICK r \in Manager :
           /\ agMgr' = [agMgr EXCEPT ![m] = r]
           /\ r.pc = q /\ r.op = agMgr[m].op /\ r.found = agMgr[m].found
           /\ r.token = agMgr[m].token /\ r.keep = agMgr[m].keep
    BY <1>5, <2>1, GotoIs
  <2>3. agMgr'[m] = r
    BY <2>2 DEF GateSafe, GateTypes
  <2>4. DeleteInv(m)'
    BY <1>1, <1>3, <1>5, <2>2, <2>3
       DEF DeleteInv, Gate!Pc, Deletes, GateClosing, Fenced, Checked, Clearing, Gate!Kinds
  <2>5. LifeInv' /\ (Fenced' => NoneLeased /\ NoGraphs)
    BY <1>4, <1>5 DEF LifeInv, Fenced
  <2>6. agOwned' \in SUBSET Gate!Kinds
    BY <1>1 DEF GateSafe, GateTypes
  <2> QED
    BY <1>1, <1>5, <2>1, <2>2, <2>4, <2>5, <2>6, DeletionSaves
<1>6. CASE Gate!MarkDeleting(m)
  <2> DEFINE new == [agLife EXCEPT !.state = "deleting"]
  <2>1. new \in Lifecycle /\ new.cleanup = agLife.cleanup /\ new.state = "deleting"
    BY <1>2 DEF Lifecycle
  <2>2. \/ agLife' = new /\ Gate!Goto(m, "scan")
        \/ agLife' = agLife /\ Gate!Goto(m, "end")
    BY <1>6 DEF Gate!MarkDeleting, Gate!Mutate
  <2> HIDE DEF new
  <2> QED
    BY <1>2, <1>3, <1>5, <2>1, <2>2 DEF GateSafe, LifeInv
<1>7. CASE Gate!RestoreActive(m)
  <2> DEFINE new == [agLife EXCEPT !.state = "active"]
  <2>1. new \in Lifecycle /\ new.cleanup = agLife.cleanup /\ new.state = "active"
    BY <1>2 DEF Lifecycle
  <2>2. \/ agLife' = new /\ Gate!Goto(m, "end") /\ ~agLife.cleanup
        \/ agLife' = agLife /\ Gate!Goto(m, "end")
    BY <1>3, <1>7 DEF Gate!RestoreActive, Gate!Mutate
  <2> HIDE DEF new
  <2> QED
    BY <1>2, <1>3, <1>5, <2>1, <2>2 DEF GateSafe, LifeInv
<1> QED
  BY <1>6, <1>7

LEMMA CleanupInv ==
  ASSUME GateSafe, "none" \notin Managers, NEW m \in Managers,
         Gate!StartCleanup(m) \/ Gate!Clear(m) \/ Gate!FinishDelete(m)
  PROVE  GateSafe'
<1>1. /\ Gate!Pc(m) \in {"cleanup"} \cup Clearing /\ Gate!Pc(m) \in DeletePc \ {"begin"}
      /\ UNCHANGED <<agClosed, agUse, agReserved, agSeen>>
  BY DEF Gate!StartCleanup, Gate!Clear, Gate!FinishDelete, DeletePc, Checked, Clearing, Gate!Kinds
<1>2. agLife \in Lifecycle /\ agLife.cleanup \in BOOLEAN /\ agMgr[m] \in Manager
      /\ agOwned \in SUBSET Gate!Kinds
  BY DEF GateSafe, GateTypes, Lifecycle
<1>3. /\ agMgr[m].keep = agLife.cleanup /\ agClosed /\ agLife.state = "deleting" /\ DeleteInv(m)
  BY <1>1, DeletionPc DEF DeleteInv, Checked
<1>4. NoneLeased /\ NoGraphs
  BY <1>1, <1>3 DEF DeleteInv, GateSafe, FenceInv, Fenced
<1>5. ASSUME NEW q \in {"settings", "defaults", "cache", "finish", "end"}, NEW r \in Manager,
             agMgr' = [agMgr EXCEPT ![m] = r], r.pc = q, r.op = agMgr[m].op, r.token = agMgr[m].token,
             agLife' \in Lifecycle, r.keep = agLife'.cleanup, agOwned' \in SUBSET Gate!Kinds,
             agLife'.state \in {"deleting", "deleted"},
             agLife.cleanup => agLife'.cleanup,
             agLife'.state = "deleted" => q = "end" /\ agOwned' = {} /\ agLife'.cleanup,
             q # "end" => agLife'.cleanup,
             q \in {"defaults", "cache", "finish"} => "settings" \notin agOwned',
             q \in {"cache", "finish"} => "defaults" \notin agOwned',
             q = "finish" => "cache" \notin agOwned'
      PROVE  GateSafe'
  <2>1. q \in {"end"} \cup (DeletePc \ {"begin"})
    BY DEF DeletePc, Clearing, Gate!Kinds
  <2>2. agMgr'[m] = r
    BY <1>5 DEF GateSafe, GateTypes
  <2>3. DeleteInv(m)'
    BY <1>1, <1>3, <1>5, <2>2
       DEF DeleteInv, Gate!Pc, Deletes, GateClosing, Fenced, Checked, Clearing, Gate!Kinds
  <2>4. LifeInv'
    BY <1>5 DEF LifeInv
  <2> QED
    BY <1>1, <1>4, <1>5, <2>1, <2>3, <2>4, DeletionSaves
<1>6. ASSUME NEW q \in {"settings", "defaults", "cache", "finish", "end"}, Gate!Goto(m, q),
             agLife' \in Lifecycle, agLife'.cleanup = agLife.cleanup, agOwned' \in SUBSET Gate!Kinds,
             agLife'.state \in {"deleting", "deleted"},
             agLife'.state = "deleted" => q = "end" /\ agOwned' = {} /\ agLife'.cleanup,
             q # "end" => agLife'.cleanup,
             q \in {"defaults", "cache", "finish"} => "settings" \notin agOwned',
             q \in {"cache", "finish"} => "defaults" \notin agOwned',
             q = "finish" => "cache" \notin agOwned'
      PROVE  GateSafe'
  <2>1. q \in {"end"} \cup DeletePc \cup UpsertPc
    BY DEF DeletePc, Clearing, Gate!Kinds
  <2>2. PICK r \in Manager :
           /\ agMgr' = [agMgr EXCEPT ![m] = r]
           /\ r.pc = q /\ r.op = agMgr[m].op /\ r.token = agMgr[m].token
           /\ r.keep = agMgr[m].keep
    BY <1>6, <2>1, GotoIs
  <2> QED
    BY <1>3, <1>5, <1>6, <2>2
<1>7. CASE Gate!StartCleanup(m)
  <2>1. CASE Gate!Goto(m, "end") /\ UNCHANGED <<agLife, agOwned>>
    BY <1>2, <1>3, <1>6, <2>1
  <2>2. CASE /\ agLife' = [agLife EXCEPT !.cleanup = TRUE]
             /\ agMgr' = [agMgr EXCEPT ![m].pc = "settings", ![m].keep = TRUE]
    <3> DEFINE r == [agMgr[m] EXCEPT !.pc = "settings", !.keep = TRUE]
    <3>1. /\ r \in Manager /\ r.pc = "settings" /\ r.op = agMgr[m].op /\ r.token = agMgr[m].token
          /\ r.keep = TRUE /\ agMgr' = [agMgr EXCEPT ![m] = r]
      BY <1>2, <2>2 DEF Manager, DeletePc, Clearing, Gate!Kinds
    <3> HIDE DEF r
    <3>2. agLife' \in Lifecycle /\ agLife'.cleanup = TRUE /\ agLife'.state = "deleting"
      BY <1>2, <1>3, <2>2 DEF Lifecycle
    <3>3. UNCHANGED agOwned
      BY <1>7 DEF Gate!StartCleanup
    <3> QED
      BY <1>2, <1>5, <3>1, <3>2, <3>3
  <2> QED
    BY <1>7, <2>1, <2>2 DEF Gate!StartCleanup
<1>8. CASE Gate!Clear(m)
  <2>1. Gate!Pc(m) \in Gate!Kinds /\ UNCHANGED agLife /\ agLife.cleanup
    BY <1>3, <1>8 DEF Gate!Clear, DeleteInv, Clearing, Gate!Kinds
  <2>2. CASE UNCHANGED agOwned /\ Gate!Goto(m, "end")
    BY <1>2, <1>3, <1>6, <2>1, <2>2
  <2>3. CASE agOwned' = agOwned \ {Gate!Pc(m)} /\ Gate!Goto(m, Gate!AfterClearing(Gate!Pc(m)))
    <3>1. CASE Gate!Pc(m) = "settings"
      BY <1>2, <1>3, <1>6, <2>1, <2>3, <3>1 DEF Gate!AfterClearing
    <3>2. CASE Gate!Pc(m) = "defaults"
      BY <1>2, <1>3, <1>6, <2>1, <2>3, <3>2 DEF Gate!AfterClearing, DeleteInv
    <3>3. CASE Gate!Pc(m) = "cache"
      BY <1>2, <1>3, <1>6, <2>1, <2>3, <3>3 DEF Gate!AfterClearing, DeleteInv
    <3> QED
      BY <2>1, <3>1, <3>2, <3>3 DEF Gate!Kinds
  <2> QED
    BY <1>8, <2>2, <2>3 DEF Gate!Clear
<1>9. CASE Gate!FinishDelete(m)
  <2> DEFINE new == [agLife EXCEPT !.state = "deleted"]
  <2>1. new \in Lifecycle /\ new.cleanup = agLife.cleanup /\ new.state = "deleted"
    BY <1>2 DEF Lifecycle
  <2>2. \/ agLife' = new /\ Gate!Goto(m, "end")
        \/ agLife' = agLife /\ Gate!Goto(m, "end")
    BY <1>9 DEF Gate!FinishDelete, Gate!Mutate
  <2> HIDE DEF new
  <2>3. agOwned' = agOwned /\ agOwned = {} /\ agLife.cleanup
    BY <1>2, <1>3, <1>9 DEF Gate!FinishDelete, DeleteInv, Gate!Kinds, Clearing
  <2> QED
    BY <1>2, <1>3, <1>6, <2>1, <2>2, <2>3
<1> QED
  BY <1>7, <1>8, <1>9

\* The request leaves the gate as its flags say, which is as the disk says.
LEMMA EndInv ==
  ASSUME GateSafe, "none" \notin Managers, NEW m \in Managers, Gate!ManageEnds(m)
  PROVE  GateSafe'
<1>1. /\ Gate!Pc(m) = "end" /\ Gate!Pc(m) # "idle" /\ agMgr' = [agMgr EXCEPT ![m] = Gate!IdleMgr]
      /\ agClosed' = IF agMgr[m].token THEN agMgr[m].keep ELSE agClosed
      /\ UNCHANGED <<agLife, agOwned, agUse, agSeen>>
  BY DEF Gate!ManageEnds, Gate!End
<1>2. /\ agMgr[m].token => Deletes(m)
      /\ agMgr[m].token /\ Fenced => agMgr[m].keep
      /\ agMgr[m].token /\ agMgr[m].keep => agLife.cleanup
  BY <1>1 DEF GateSafe, MgrInv, DeleteInv
<1>3. agMgr[m] \in Manager /\ agMgr'[m] = Gate!IdleMgr /\ agClosed' \in BOOLEAN
  BY <1>1 DEF GateSafe, GateTypes, Manager
<1>4. MgrInv(m)'
  BY <1>3, IdleInv
<1>5. NoneLeased' = NoneLeased /\ NoGraphs' = NoGraphs /\ Fenced' = Fenced /\ Tracked' = Tracked
  BY <1>1 DEF NoneLeased, NoGraphs, Gate!Leased, Gate!UsePc, Fenced, Tracked
<1>6. LifeInv' /\ FenceInv'
  BY <1>1, <1>2, <1>5 DEF GateSafe, LifeInv, FenceInv
<1>7. Sees(m) => agMgr[m].token
  BY <1>1 DEF Sees
<1>8. agClosed' /\ ~agSeen'.unregistered /\ ~agLife'.cleanup => Sees(m)'
  BY <1>1, <1>2, <1>7, Alone
<1>9. agLife'.state = "deleted" /\ Tracked' => agOwned' = {}
  BY <1>1, <1>5, Alone DEF Restoring
<1> QED
  BY <1>1, <1>3, <1>4, <1>6, <1>8, <1>9, IdleTypes, ManagerStep DEF GateSafe, GateTypes

(***************************************************************************)
(* Update and restoration.                                                 *)
(***************************************************************************)
LEMMA UpsertPcIs ==
  ASSUME GateSafe, NEW m \in Managers, Gate!Pc(m) \in UpsertPc
  PROVE  /\ Gate!Pc(m) # "idle" /\ agReserved = m /\ ~Deletes(m) /\ ~agMgr[m].token
         /\ Sees(m) => Gate!Pc(m) = "register"
         /\ UpsertInv(m)
BY DEF GateSafe, MgrInv, UpsertPc, Sees, GateClosing

LEMMA UpsertStep ==
  ASSUME GateSafe, "none" \notin Managers, NEW m \in Managers, NEW q \in {"end"} \cup UpsertPc,
         NEW r \in Manager, Gate!Pc(m) \in UpsertPc, agMgr' = [agMgr EXCEPT ![m] = r],
         r.pc = q, r.op = agMgr[m].op, r.token = agMgr[m].token,
         agLife' \in Lifecycle, agOwned' \in SUBSET Gate!Kinds, agClosed' \in BOOLEAN,
         agSeen' \in [restarted : BOOLEAN, unregistered : BOOLEAN, unrolled : BOOLEAN],
         UNCHANGED <<agUse, agReserved>>, LifeInv', FenceInv', UpsertInv(m)',
         agClosed' /\ ~agSeen'.unregistered /\ ~agLife'.cleanup => q = "register",
         agLife'.state = "deleted" /\ Tracked' /\ (q \in {"end", "read"} \/ r.op # "restore")
           => agOwned' = {}
  PROVE  GateSafe'
<1>1. agMgr'[m] = r
  BY DEF GateSafe, GateTypes
<1>2. r.op \notin {"delete", "force"} /\ ~r.token
  BY UpsertPcIs DEF Deletes
<1>3. q # "idle" /\ q \notin DeletePc
  BY DEF UpsertPc, DeletePc, Checked, Clearing, Gate!Kinds
<1>4. DeleteInv(m)'
  BY <1>1, <1>2, <1>3 DEF DeleteInv, GateClosing, Deletes, Gate!Pc, DeletePc, Checked, Clearing, Gate!Kinds
<1>5. MgrInv(m)'
  BY <1>1, <1>2, <1>3, <1>4, UpsertPcIs DEF MgrInv, Deletes, Gate!Pc
<1>6. q = "register" => Sees(m)'
  BY <1>1 DEF Sees, Gate!Pc
<1>7. ~Restoring(m)' => q \in {"end", "read"} \/ r.op # "restore"
  BY <1>1 DEF Restoring, Gate!Pc
<1> QED
  BY <1>5, <1>6, <1>7, UpsertPcIs, ManagerStep

LEMMA UpsertStepInv ==
  ASSUME GateSafe, "none" \notin Managers, NEW m \in Managers,
         Gate!ReadForUpsert(m) \/ Gate!StageEnv(m) \/ Gate!Publish(m) \/ Gate!RollbackEnv(m) \/
         Gate!Register(m)
  PROVE  GateSafe'
<1>1. /\ Gate!Pc(m) \in UpsertPc /\ UNCHANGED <<agUse, agReserved>>
  BY DEF Gate!ReadForUpsert, Gate!StageEnv, Gate!Publish, Gate!RollbackEnv, Gate!Register, UpsertPc
<1>2. /\ agLife \in Lifecycle /\ agOwned \in SUBSET Gate!Kinds /\ agClosed \in BOOLEAN
      /\ agSeen \in [restarted : BOOLEAN, unregistered : BOOLEAN, unrolled : BOOLEAN]
      /\ agMgr[m] \in Manager
  BY DEF GateSafe, GateTypes
<1>3. agClosed /\ ~agSeen.unregistered /\ ~agLife.cleanup => Gate!Pc(m) = "register"
  BY <1>1, Alone, UpsertPcIs
<1>4. agLife.state = "deleted" /\ Tracked /\ (Gate!Pc(m) = "read" \/ agMgr[m].op # "restore") => agOwned = {}
  BY <1>1, Alone, UpsertPcIs DEF Restoring
<1>5. NoneLeased' = NoneLeased /\ NoGraphs' = NoGraphs
  BY <1>1 DEF NoneLeased, NoGraphs, Gate!Leased, Gate!UsePc
<1>6. UpsertInv(m) /\ LifeInv /\ FenceInv
  BY <1>1, UpsertPcIs DEF GateSafe
\* A step that only goes on, whatever it saves.
<1>7. ASSUME NEW q \in {"end"} \cup UpsertPc, Gate!Goto(m, q)
      PROVE  \E r \in Manager :
               /\ agMgr' = [agMgr EXCEPT ![m] = r] /\ agMgr'[m] = r
               /\ r.pc = q /\ r.op = agMgr[m].op /\ r.token = agMgr[m].token
               /\ r.keep = agMgr[m].keep
  <2>1. q \in {"end"} \cup DeletePc \cup UpsertPc
    OBVIOUS
  <2>2. PICK r \in Manager :
           /\ agMgr' = [agMgr EXCEPT ![m] = r]
           /\ r.pc = q /\ r.op = agMgr[m].op /\ r.token = agMgr[m].token
           /\ r.keep = agMgr[m].keep
    BY <1>7, <2>1, GotoIs
  <2>3. agMgr'[m] = r
    BY <2>2 DEF GateSafe, GateTypes
  <2> QED
    BY <2>2, <2>3
<1>8. CASE Gate!ReadForUpsert(m)
  <2>1. /\ Gate!Pc(m) = "read" /\ UNCHANGED <<agLife, agOwned, agClosed, agSeen>>
    BY <1>8 DEF Gate!ReadForUpsert
  <2>2. PICK q \in {"end", "stage", "publish"} :
          /\ Gate!Goto(m, q)
          /\ q = "stage" => agLife.state = "deleted" /\ agMgr[m].op = "restore"
          /\ q = "publish" => agLife.state = "active" /\ agMgr[m].op # "restore"
    BY <1>8 DEF Gate!ReadForUpsert
  <2>3. q \in {"end"} \cup UpsertPc
    BY DEF UpsertPc
  <2>4. PICK r \in Manager :
          /\ agMgr' = [agMgr EXCEPT ![m] = r] /\ agMgr'[m] = r
          /\ r.pc = q /\ r.op = agMgr[m].op /\ r.token = agMgr[m].token
    BY <1>7, <2>2, <2>3
  <2>5. UpsertInv(m)'
    BY <1>4, <2>1, <2>2, <2>4 DEF UpsertInv, Gate!Pc, Staged, Tracked
  <2>6. LifeInv' /\ FenceInv'
    BY <1>5, <1>6, <2>1 DEF LifeInv, FenceInv, Fenced
  <2>7. ~(agClosed' /\ ~agSeen'.unregistered /\ ~agLife'.cleanup)
    BY <1>3, <2>1
  <2>8. agLife'.state = "deleted" /\ Tracked' => agOwned' = {}
    BY <1>4, <2>1 DEF Tracked
  <2> QED
    BY <1>1, <1>2, <2>1, <2>3, <2>4, <2>5, <2>6, <2>7, <2>8, UpsertStep
<1>9. CASE Gate!StageEnv(m)
  <2>1. /\ Gate!Pc(m) = "stage" /\ UNCHANGED <<agLife, agClosed, agSeen>>
        /\ agMgr[m].op = "restore" /\ agLife.state = "deleted"
        /\ Tracked => agOwned = {}
    BY <1>6, <1>9 DEF Gate!StageEnv, UpsertInv
  <2>2. LifeInv' /\ FenceInv'
    BY <1>5, <1>6, <2>1 DEF LifeInv, FenceInv, Fenced
  <2>3. ~(agClosed' /\ ~agSeen'.unregistered /\ ~agLife'.cleanup)
    BY <1>3, <2>1
  <2>4. CASE Gate!Goto(m, "end") /\ UNCHANGED agOwned
    <3>1. PICK r \in Manager :
            /\ agMgr' = [agMgr EXCEPT ![m] = r] /\ agMgr'[m] = r
            /\ r.pc = "end" /\ r.op = agMgr[m].op /\ r.token = agMgr[m].token
      BY <1>7, <2>4
    <3>2. UpsertInv(m)'
      BY <3>1 DEF UpsertInv, Gate!Pc, Staged
    <3>3. agLife'.state = "deleted" /\ Tracked' => agOwned' = {}
      BY <2>1, <2>4 DEF Tracked
    <3> QED
      BY <1>1, <1>2, <2>1, <2>2, <2>3, <2>4, <3>1, <3>2, <3>3, UpsertStep
  <2>5. CASE /\ agOwned' = agOwned \cup {"settings"}
             /\ agMgr' = [agMgr EXCEPT ![m].pc = "publish", ![m].keep = "settings" \in agOwned]
    <3> DEFINE had == "settings" \in agOwned
    <3>1. had \in BOOLEAN /\ (had <=> "settings" \in agOwned)
      OBVIOUS
    <3>2. agMgr' = [agMgr EXCEPT ![m].pc = "publish", ![m].keep = had]
      BY <2>5
    <3> HIDE DEF had
    <3> DEFINE r == [agMgr[m] EXCEPT !.pc = "publish", !.keep = had]
    <3>3. /\ r \in Manager /\ r.pc = "publish" /\ r.op = agMgr[m].op /\ r.token = agMgr[m].token
          /\ r.keep = had /\ agMgr' = [agMgr EXCEPT ![m] = r]
      BY <1>2, <3>1, <3>2 DEF Manager, UpsertPc
    <3> HIDE DEF r
    <3>4. agMgr'[m] = r
      BY <3>3 DEF GateSafe, GateTypes
    <3>5. agOwned' \in SUBSET Gate!Kinds
      BY <1>2, <2>5 DEF Gate!Kinds
    <3>6. UpsertInv(m)'
      BY <2>1, <2>5, <3>1, <3>3, <3>4 DEF UpsertInv, Gate!Pc, Staged, Tracked
    <3>7. "publish" \in {"end"} \cup UpsertPc
      BY DEF UpsertPc
    <3> QED
      BY <1>1, <1>2, <2>1, <2>2, <2>3, <3>3, <3>5, <3>6, <3>7, UpsertStep
  <2> QED
    BY <1>9, <2>4, <2>5 DEF Gate!StageEnv
<1>10. CASE Gate!Publish(m)
  <2>1. Gate!Pc(m) = "publish" /\ UNCHANGED <<agOwned, agClosed, agSeen>>
    BY <1>10 DEF Gate!Publish
  <2>2. ~(agClosed /\ ~agSeen.unregistered /\ ~agLife.cleanup)
    BY <1>3, <2>1
  <2>3. CASE agLife' = [state |-> "active", cleanup |-> FALSE] /\ Gate!Goto(m, "register")
    <3>1. "register" \in {"end"} \cup UpsertPc
      BY DEF UpsertPc
    <3>2. PICK r \in Manager :
            /\ agMgr' = [agMgr EXCEPT ![m] = r] /\ agMgr'[m] = r
            /\ r.pc = "register" /\ r.op = agMgr[m].op /\ r.token = agMgr[m].token
      BY <1>7, <2>3, <3>1
    <3>3. agLife' \in Lifecycle /\ agLife'.state = "active" /\ agLife'.cleanup = FALSE
      BY <2>3 DEF Lifecycle
    <3>4. UpsertInv(m)' /\ LifeInv' /\ FenceInv'
      BY <3>2, <3>3 DEF UpsertInv, Gate!Pc, Staged, LifeInv, FenceInv, Fenced
    <3> QED
      BY <1>1, <1>2, <2>1, <3>1, <3>2, <3>3, <3>4, UpsertStep
  <2>4. CASE UNCHANGED agLife /\ Gate!Goto(m, IF agMgr[m].op = "restore" THEN "rollback" ELSE "end")
    <3> DEFINE q == IF agMgr[m].op = "restore" THEN "rollback" ELSE "end"
    <3>1. /\ q \in {"end"} \cup UpsertPc /\ q \in {"rollback", "end"} /\ Gate!Goto(m, q)
          /\ q = "rollback" <=> agMgr[m].op = "restore"
      BY <2>4 DEF UpsertPc
    <3> HIDE DEF q
    <3>2. PICK r \in Manager :
            /\ agMgr' = [agMgr EXCEPT ![m] = r] /\ agMgr'[m] = r
            /\ r.pc = q /\ r.op = agMgr[m].op /\ r.token = agMgr[m].token /\ r.keep = agMgr[m].keep
      BY <1>7, <3>1
    <3>3. UpsertInv(m)'
      BY <1>6, <2>1, <2>4, <3>1, <3>2 DEF UpsertInv, Gate!Pc, Staged, Tracked
    <3>4. LifeInv' /\ FenceInv'
      BY <1>5, <1>6, <2>1, <2>4 DEF LifeInv, FenceInv, Fenced
    <3>5. agLife'.state = "deleted" /\ Tracked' /\ agMgr[m].op # "restore" => agOwned' = {}
      BY <1>4, <2>1, <2>4 DEF Tracked
    <3> QED
      BY <1>1, <1>2, <2>1, <2>2, <2>4, <3>1, <3>2, <3>3, <3>4, <3>5, UpsertStep
  <2> QED
    BY <1>10, <2>3, <2>4 DEF Gate!Publish, Gate!Mutate
<1>11. CASE Gate!RollbackEnv(m)
  <2>1. /\ Gate!Pc(m) = "rollback" /\ UNCHANGED <<agLife, agClosed>> /\ Gate!Goto(m, "end")
        /\ \/ agOwned' = (IF agMgr[m].keep THEN agOwned ELSE agOwned \ {"settings"}) /\ UNCHANGED agSeen
           \/ UNCHANGED agOwned /\ agSeen' = [agSeen EXCEPT !.unrolled = TRUE]
    BY <1>11 DEF Gate!RollbackEnv
  <2>2. PICK r \in Manager :
          /\ agMgr' = [agMgr EXCEPT ![m] = r] /\ agMgr'[m] = r
          /\ r.pc = "end" /\ r.op = agMgr[m].op /\ r.token = agMgr[m].token
    BY <1>7, <2>1
  <2>3. /\ agSeen' \in [restarted : BOOLEAN, unregistered : BOOLEAN, unrolled : BOOLEAN]
        /\ agSeen'.restarted = agSeen.restarted /\ agSeen'.unregistered = agSeen.unregistered
        /\ agSeen' = agSeen \/ agSeen'.unrolled = TRUE
    BY <1>2, <2>1
  <2>4. agOwned' \in SUBSET Gate!Kinds
    BY <1>2, <2>1
  <2>5. UpsertInv(m)'
    BY <2>2 DEF UpsertInv, Gate!Pc, Staged
  <2>6. LifeInv' /\ FenceInv'
    BY <1>5, <1>6, <2>1, <2>3 DEF LifeInv, FenceInv, Fenced
  <2>7. ~(agClosed' /\ ~agSeen'.unregistered /\ ~agLife'.cleanup)
    BY <1>3, <2>1, <2>3
  <2>8. Tracked' => agOwned' = {}
    <3>1. Tracked => agOwned \subseteq {"settings"} /\ ~agMgr[m].keep
      BY <1>6, <2>1 DEF UpsertInv, Staged
    <3>2. Tracked' => Tracked /\ agSeen' = agSeen
      BY <2>3 DEF Tracked
    <3>3. ASSUME Tracked' PROVE agOwned' = agOwned \ {"settings"}
      <4>1. agSeen.unrolled = FALSE
        BY <1>2, <3>2, <3>3 DEF Tracked
      <4>2. agSeen' # [agSeen EXCEPT !.unrolled = TRUE]
        BY <1>2, <3>2, <3>3, <4>1
      <4> QED
        BY <2>1, <3>1, <3>2, <3>3, <4>2
    <3> QED
      BY <3>1, <3>2, <3>3
  <2> QED
    BY <1>1, <1>2, <2>1, <2>2, <2>3, <2>4, <2>5, <2>6, <2>7, <2>8, UpsertStep
<1>12. CASE Gate!Register(m)
  <2>1. /\ Gate!Pc(m) = "register" /\ UNCHANGED <<agLife, agOwned>> /\ Gate!Goto(m, "end")
        /\ \/ agClosed' = FALSE /\ agSeen' = [agSeen EXCEPT !.unregistered = FALSE]
           \/ UNCHANGED agClosed /\ agSeen' = [agSeen EXCEPT !.unregistered = TRUE]
    BY <1>12 DEF Gate!Register
  <2>2. PICK r \in Manager :
          /\ agMgr' = [agMgr EXCEPT ![m] = r] /\ agMgr'[m] = r
          /\ r.pc = "end" /\ r.op = agMgr[m].op /\ r.token = agMgr[m].token
    BY <1>7, <2>1
  <2>3. agLife.state = "active" /\ ~agLife.cleanup
    BY <1>6, <2>1 DEF UpsertInv, LifeInv
  <2>4. /\ agSeen' \in [restarted : BOOLEAN, unregistered : BOOLEAN, unrolled : BOOLEAN]
        /\ agClosed' \in BOOLEAN
        /\ agClosed' => agSeen'.unregistered
    BY <1>2, <2>1
  <2>5. UpsertInv(m)'
    BY <2>2 DEF UpsertInv, Gate!Pc, Staged
  <2>6. LifeInv' /\ FenceInv'
    BY <2>1, <2>3 DEF LifeInv, FenceInv, Fenced
  <2> QED
    BY <1>1, <1>2, <2>1, <2>2, <2>3, <2>4, <2>5, <2>6, UpsertStep
<1> QED
  BY <1>8, <1>9, <1>10, <1>11, <1>12

(***************************************************************************)
(* The process starts again: nobody holds anything, and a cleanup that had *)
(* begun keeps the gate closed.                                            *)
(***************************************************************************)
LEMMA RestartInv ==
  ASSUME GateSafe, Gate!Restart
  PROVE  GateSafe'
<1>1. /\ agSeen' = [restarted |-> TRUE, unregistered |-> FALSE, unrolled |-> FALSE]
      /\ agUse' = [u \in Users |-> Gate!IdleUse] /\ agMgr' = [m \in Managers |-> Gate!IdleMgr]
  BY DEF Gate!Restart
<1>2. /\ agLife \in Lifecycle /\ agLife.state \in {"active", "deleting", "deleted"}
      /\ agLife.cleanup \in BOOLEAN /\ agOwned \in SUBSET Gate!Kinds
  BY DEF GateSafe, GateTypes, Lifecycle
<1>3. /\ agLife' \in Lifecycle /\ agOwned' \in SUBSET Gate!Kinds /\ agClosed' \in BOOLEAN
      /\ LifeInv' /\ (agClosed' => agLife'.cleanup)
      /\ agLife'.cleanup /\ agLife'.state = "deleting" => agClosed'
  <2>1. CASE agLife.state = "active"
    BY <1>2, <2>1 DEF Gate!Restart, GateSafe, LifeInv
  <2>2. CASE agLife.state = "deleted"
    BY <1>2, <2>2 DEF Gate!Restart, GateSafe, LifeInv
  <2>3. CASE agLife.state = "deleting" /\ agLife.cleanup
    <3>1. Gate!ResumeCleanup
      BY <2>3 DEF Gate!Restart
    <3>2. agLife' = agLife \/ agLife' = [agLife EXCEPT !.state = "deleted"]
      BY <3>1 DEF Gate!ResumeCleanup
    <3>3. agLife' \in Lifecycle /\ agLife'.cleanup /\ agLife'.state \in {"deleting", "deleted"}
      BY <1>2, <2>3, <3>2 DEF Lifecycle
    <3>4. agClosed' = TRUE /\ agOwned' \in SUBSET Gate!Kinds
      BY <1>2, <3>1 DEF Gate!ResumeCleanup
    <3> QED
      BY <3>3, <3>4 DEF LifeInv
  <2>4. CASE agLife.state = "deleting" /\ ~agLife.cleanup
    <3>1. /\ agClosed' = FALSE /\ agOwned' = agOwned
          /\ agLife' = [agLife EXCEPT !.state = "active"] \/ agLife' = agLife
      BY <2>4 DEF Gate!Restart
    <3>2. agLife' \in Lifecycle /\ ~agLife'.cleanup /\ agLife'.state \in {"deleting", "active"}
      BY <1>2, <2>4, <3>1 DEF Lifecycle
    <3> QED
      BY <1>2, <3>1, <3>2 DEF LifeInv
  <2> QED
    BY <1>2, <2>1, <2>2, <2>3, <2>4
<1>4. GateTypes'
  BY <1>1, <1>3, IdleTypes DEF GateTypes
<1>5. UserInv' /\ NoneLeased' /\ NoGraphs'
  BY <1>1 DEF UserInv, NoneLeased, NoGraphs, Gate!Leased, Gate!UsePc, Gate!IdleUse
<1>6. FenceInv' /\ GateInv' /\ OwnedInv'
  BY <1>1, <1>3, <1>5 DEF FenceInv, Fenced, GateInv, OwnedInv, Tracked
<1>7. \A m \in Managers : MgrInv(m)'
  BY <1>1, IdleInv
<1> QED
  BY <1>3, <1>4, <1>5, <1>6, <1>7 DEF GateSafe

(***************************************************************************)
(* The invariant, and what it means for whoever uses the Agent.            *)
(***************************************************************************)
LEMMA GateInitInv == Gate!Init => GateSafe
<1> SUFFICES ASSUME Gate!Init PROVE GateSafe
  OBVIOUS
<1>1. GateTypes
  BY IdleTypes DEF Gate!Init, GateTypes, Lifecycle
<1>2. LifeInv /\ UserInv /\ FenceInv /\ GateInv /\ OwnedInv
  BY DEF Gate!Init, LifeInv, UserInv, FenceInv, Fenced, GateInv, OwnedInv, Gate!UsePc, Gate!IdleUse
<1>3. \A m \in Managers : MgrInv(m)
  BY DEF Gate!Init, MgrInv, DeleteInv, UpsertInv, Gate!Pc, Gate!IdleMgr, Deletes, GateClosing, Staged,
         DeletePc,
         UpsertPc, Checked, Clearing, Gate!Kinds
<1> QED
  BY <1>1, <1>2, <1>3 DEF GateSafe

LEMMA GateNextInv ==
  ASSUME GateSafe, "none" \notin Managers, [Gate!Next]_Gate!agVars
  PROVE  GateSafe'
<1>1. ASSUME NEW u \in Users, UserNext(u) PROVE GateSafe'
  BY <1>1, UserInvStep
<1>2. ASSUME NEW m \in Managers,
             \/ Gate!ManageBegins(m) \/ Gate!BeginDelete(m) \/ Gate!FindAgent(m) \/ Gate!MarkDeleting(m)
             \/ Gate!Scan(m) \/ Gate!Rescan(m) \/ Gate!StopJobs(m) \/ Gate!RestoreActive(m)
             \/ Gate!CancelAgent(m)
             \/ Gate!WaitForExecutions(m) \/ Gate!StartCleanup(m) \/ Gate!Clear(m) \/ Gate!FinishDelete(m)
             \/ Gate!ManageEnds(m)
      PROVE  GateSafe'
  BY <1>2, BeginInv, FindInv, GateMarkInv, ScanInv, StopInv, CleanupInv, EndInv
<1>3. ASSUME NEW m \in Managers,
             Gate!ReadForUpsert(m) \/ Gate!StageEnv(m) \/ Gate!Publish(m) \/ Gate!RollbackEnv(m) \/
             Gate!Register(m)
      PROVE  GateSafe'
  BY <1>3, UpsertStepInv
<1>4. CASE Gate!Restart
  BY <1>4, RestartInv
<1>5. CASE UNCHANGED Gate!agVars
  BY <1>5
     DEF Gate!agVars, GateSafe, GateTypes, LifeInv, UserInv, FenceInv, Fenced, GateInv, OwnedInv,
         Tracked, MgrInv,
         DeleteInv, UpsertInv, NoneLeased, NoGraphs, Gate!Leased, Gate!UsePc, Gate!Pc, Deletes,
         GateClosing, Sees,
         Staged, Restoring
<1> QED
  BY <1>1, <1>2, <1>3, <1>4, <1>5 DEF Gate!Next, UserNext

\* What the invariant says of the users and of the gate.
LEMMA GateInvHolds == GateSafe => Gate!CleanupExclusive /\ Gate!GateFollowsLifecycle
<1>1. GateSafe => Gate!CleanupExclusive
  <2>1. GateSafe /\ Gate!CleaningUp => NoneLeased /\ NoGraphs
    BY DEF GateSafe, FenceInv, Fenced, Gate!CleaningUp
  <2>2. (\A m \in Managers : agMgr[m].op # "restore" \/ Gate!Pc(m) \in {"read", "end"})
          => \A m \in Managers : ~Restoring(m)
    BY DEF Restoring
  <2>3. GateSafe /\ agLife.state = "deleted" /\ ~agSeen.restarted /\ ~agSeen.unrolled
          /\ (\A m \in Managers : ~Restoring(m)) => agOwned = {}
    BY DEF GateSafe, OwnedInv, Tracked
  <2> QED
    BY <2>1, <2>2, <2>3 DEF Gate!CleanupExclusive, NoneLeased, NoGraphs
<1>2. GateSafe => Gate!GateFollowsLifecycle
  <2>1. GateSafe /\ Gate!CleaningUp => agClosed
    BY DEF GateSafe, FenceInv, Fenced, Gate!CleaningUp
  <2>2. ASSUME GateSafe, \A m \in Managers : Gate!Pc(m) = "idle", agLife.state = "active",
               ~agSeen.unregistered
        PROVE  ~agClosed
    <3>1. ~agLife.cleanup
      BY <2>2 DEF GateSafe, LifeInv
    <3>2. \A m \in Managers : ~Sees(m)
      BY <2>2 DEF GateSafe, MgrInv, Sees, GateClosing, Deletes, Gate!IdleMgr
    <3> QED
      BY <2>2, <3>1, <3>2 DEF GateSafe, GateInv
  <2> QED
    BY <2>1, <2>2 DEF Gate!GateFollowsLifecycle
<1> QED
  BY <1>1, <1>2

\* For every number of users and managing requests, and whatever fails: while the
\* destructive cleanup of an Agent is on disk nobody holds the Agent and no run that
\* was started or resumed refers to it; what was cleared stays cleared until the
\* Agent is restored; and a request that is over has left the gate as the lifecycle
\* says (agent_execution_gate.go, agent_custom.go).
THEOREM CleanupIsExclusive ==
  ASSUME "none" \notin Managers
  PROVE  Gate!Spec => [](Gate!CleanupExclusive /\ Gate!GateFollowsLifecycle)
<1>1. Gate!Init => GateSafe
  BY GateInitInv
<1>2. GateSafe /\ [Gate!Next]_Gate!agVars => GateSafe'
  BY GateNextInv
<1>3. GateSafe => Gate!CleanupExclusive /\ Gate!GateFollowsLifecycle
  BY GateInvHolds
<1> QED
  BY <1>1, <1>2, <1>3, PTL DEF Gate!Spec

=============================================================================
