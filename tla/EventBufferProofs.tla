------------------------- MODULE EventBufferProofs -------------------------
(***************************************************************************)
(* What the collector of the event buffer may do to its readers, for any   *)
(* number of clients and events and any limits.                            *)
(*                                                                         *)
(* The collector drops a released prefix, and an event can be released     *)
(* long before it is dropped: a reader that subscribes in between, below   *)
(* the released event, would lose it.  The proof shows that this happens   *)
(* in one way only.  What a collection releases is closed downwards in the *)
(* order of events but for late ones, because a round is an interval of    *)
(* events and is released as a whole.  So all of it is dropped by the same *)
(* collection, unless a tool result stitched after its round's end (Late)  *)
(* lies before it: then it stays, released, until the hard cap releases    *)
(* that event as well.  Who is connected at that moment is in passed.      *)
(***************************************************************************)
EXTENDS EventBuffer, TLAPS, WellFoundedInduction, FiniteSetTheorems, SequenceTheorems

(***************************************************************************)
(* Sets of numbers.                                                        *)
(***************************************************************************)
\* A bounded set of numbers that is not empty has a largest one.
LEMMA LargestExists ==
  ASSUME NEW S \in SUBSET Nat, NEW n \in Nat, S # {}, \A s \in S : s <= n
  PROVE  \E m \in S : \A s \in S : s <= m
<1> DEFINE T == {t \in Nat : n - t \in S}
<1> DEFINE R == OpToRel(<, Nat)
<1>1. T \subseteq Nat /\ T # {}
  <2>1. PICK s \in S : TRUE
    OBVIOUS
  <2>2. n - s \in Nat /\ n - (n - s) = s
    BY <2>1
  <2> QED
    BY <2>1, <2>2
<1>2. \E x \in T : \A y \in T : ~ (<<y, x>> \in R)
  <2> HIDE DEF R, T
  <2> QED
    BY <1>1, NatLessThanWellFounded, WFMin DEF R
<1>3. PICK x \in T : \A y \in T : ~ (y < x)
  BY <1>1, <1>2 DEF OpToRel
<1>4. ASSUME NEW s \in S PROVE s <= n - x
  <2>1. n - s \in Nat /\ n - (n - s) = s
    OBVIOUS
  <2>2. ~ (n - s < x)
    BY <1>3, <2>1
  <2>3. s \in Nat /\ x \in Nat
    OBVIOUS
  <2> QED
    BY <2>1, <2>2, <2>3
<1> QED
  BY <1>3, <1>4

\* The first numbers of an interval, in order, are its lower end and the ones that follow.
LEMMA FirstOfInterval ==
  ASSUME NEW a \in Nat, NEW n \in Nat, a < n, NEW m \in Nat \ {0}
  PROVE  LET f == FirstOf(a + 1 .. n, m)
         IN  /\ f \in Seq(Nat) /\ f # <<>>
             /\ \A k \in DOMAIN f : f[k] = a + k
<1> DEFINE S == a + 1 .. n
<1> DEFINE rank(s) == Cardinality({t \in S : t <= s})
<1> DEFINE l == IF Cardinality(S) < m THEN Cardinality(S) ELSE m
<1>1. ASSUME NEW s \in S PROVE rank(s) = s - a
  <2>1. {t \in S : t <= s} = a + 1 .. s
    OBVIOUS
  <2>2. Cardinality(a + 1 .. s) = s - a
    BY FS_Interval
  <2> QED
    BY <2>1, <2>2
<1>2. Cardinality(S) = n - a
  BY FS_Interval
<1>3. l \in Nat \ {0} /\ l <= n - a
  BY <1>2
<1>4. ASSUME NEW k \in 1 .. l PROVE (CHOOSE s \in S : rank(s) = k) = a + k
  <2>1. a + k \in S
    BY <1>3
  <2>2. rank(a + k) = k
    BY <1>1, <2>1
  <2>3. \A s \in S : rank(s) = k => s = a + k
    BY <1>1
  <2> HIDE DEF rank, S
  <2> QED
    BY <2>1, <2>2, <2>3
<1>5. FirstOf(S, m) = [k \in 1 .. l |-> CHOOSE s \in S : rank(s) = k]
  BY DEF FirstOf
<1>6. FirstOf(S, m) = [k \in 1 .. l |-> a + k]
  <2> HIDE DEF rank, S, l
  <2> QED
    BY <1>4, <1>5
<1> HIDE DEF rank, l, S
<1>7. FirstOf(S, m) \in Seq(Nat)
  BY <1>3, <1>6, IsASeq
<1>8. DOMAIN FirstOf(S, m) = 1 .. l /\ \A k \in 1 .. l : FirstOf(S, m)[k] = a + k
  BY <1>6
<1>9. FirstOf(S, m) # <<>>
  <2>1. 1 \in DOMAIN FirstOf(S, m)
    BY <1>3, <1>8
  <2> QED
    BY <2>1
<1> QED
  BY <1>7, <1>8, <1>9 DEF S

(***************************************************************************)
(* The operators of the buffer: types, bounds, and what they leave alone.  *)
(***************************************************************************)
\* What is held is what was published after the head, once each.
Contiguous(b) ==
  /\ \A e \in b.events : b.headSeq < e.seq /\ e.seq <= b.nextSeq
  /\ \A e, f \in b.events : e.seq = f.seq => e = f
  /\ ~b.closed => \A s \in b.headSeq + 1 .. b.nextSeq : s \in Held(b)

Bounded(b) ==
  /\ b \in Buffer
  /\ b.headSeq <= b.nextSeq /\ b.open <= b.nextSeq
  /\ Contiguous(b)

\* Only what is held and numbered matters to these bounds.
LEMMA SameEventsBounded ==
  ASSUME NEW b, NEW d \in Buffer, Bounded(b),
         d.events = b.events, d.headSeq = b.headSeq, d.nextSeq = b.nextSeq, d.open = b.open,
         d.closed = b.closed
  PROVE  Bounded(d)
BY DEF Bounded, Contiguous, Held

\* Releasing events changes no number.
LEMMA ReleaseContiguous ==
  ASSUME NEW b, Bounded(b), NEW E \in SUBSET Event,
         \A e \in E : \E f \in b.events : e.seq = f.seq,
         \A f \in b.events : \E e \in E : e.seq = f.seq,
         \A e, f \in E : e.seq = f.seq => e = f
  PROVE  Bounded([b EXCEPT !.events = E])
<1> DEFINE d == [b EXCEPT !.events = E]
<1>1. /\ d \in Buffer /\ d.events = E /\ d.headSeq = b.headSeq /\ d.nextSeq = b.nextSeq
      /\ d.open = b.open /\ d.closed = b.closed
  BY DEF Bounded, Buffer
<1>2. Held(d) = Held(b)
  BY <1>1 DEF Held
<1> HIDE DEF d
<1>3. Contiguous(d)
  BY <1>1, <1>2 DEF Contiguous, Bounded
<1> QED
  BY <1>1, <1>3 DEF Bounded, d

\* A collection changes only what is held, remembered and, by an eviction, read.
Collected(b, d) ==
  /\ d.nextSeq = b.nextSeq /\ d.open = b.open /\ d.cursor = b.cursor /\ d.closed = b.closed
  /\ d.terminal = b.terminal /\ d.readers \subseteq b.readers /\ b.passed \subseteq d.passed

LEMMA CollectedTransitive ==
  ASSUME NEW b, NEW d, NEW f, Collected(b, d), Collected(d, f)
  PROVE  Collected(b, f)
BY DEF Collected

LEMMA MarkedBounded ==
  ASSUME NEW b, Bounded(b)
  PROVE  Bounded(Marked(b)) /\ Collected(b, Marked(b)) /\ Marked(b).rounds = b.rounds
<1> DEFINE rel(e) == [e EXCEPT !.released = @ \/ Releasable(b, e)]
<1> DEFINE E == {rel(e) : e \in b.events}
<1>1. ASSUME NEW e \in b.events PROVE rel(e) \in Event /\ rel(e).seq = e.seq
  <2>1. e \in Event
    BY DEF Bounded, Buffer
  <2>2. (e.released \/ Releasable(b, e)) \in BOOLEAN
    OBVIOUS
  <2> QED
    BY <2>1, <2>2 DEF Event
<1>2. \A e, f \in b.events : rel(e).seq = rel(f).seq => e = f
  BY <1>1 DEF Bounded, Contiguous
<1> HIDE DEF rel
<1>3. /\ E \in SUBSET Event
      /\ \A e \in E : \E f \in b.events : e.seq = f.seq
      /\ \A f \in b.events : \E e \in E : e.seq = f.seq
      /\ \A e, f \in E : e.seq = f.seq => e = f
  BY <1>1, <1>2
<1> HIDE DEF E
<1>4. Marked(b) = [b EXCEPT !.events = E]
  BY DEF Marked, E, rel
<1>5. Collected(b, Marked(b)) /\ Marked(b).rounds = b.rounds
  BY <1>4 DEF Bounded, Collected, Buffer
<1> QED
  BY <1>3, <1>4, <1>5, ReleaseContiguous

LEMMA ConsumedBounded ==
  ASSUME NEW b, Bounded(b)
  PROVE  Bounded(Consumed(b)) /\ Collected(b, Consumed(b)) /\ Consumed(b).rounds = b.rounds
<1> DEFINE rel(e) == [e EXCEPT !.released = @ \/ Crossed(b, e.seq)]
<1> DEFINE E == {rel(e) : e \in b.events}
<1>1. ASSUME NEW e \in b.events PROVE rel(e) \in Event /\ rel(e).seq = e.seq
  <2>1. e \in Event
    BY DEF Bounded, Buffer
  <2>2. (e.released \/ Crossed(b, e.seq)) \in BOOLEAN
    OBVIOUS
  <2> QED
    BY <2>1, <2>2 DEF Event
<1>2. \A e, f \in b.events : rel(e).seq = rel(f).seq => e = f
  BY <1>1 DEF Bounded, Contiguous
<1> HIDE DEF rel
<1>3. /\ E \in SUBSET Event
      /\ \A e \in E : \E f \in b.events : e.seq = f.seq
      /\ \A f \in b.events : \E e \in E : e.seq = f.seq
      /\ \A e, f \in E : e.seq = f.seq => e = f
  BY <1>1, <1>2
<1> HIDE DEF E
<1> DEFINE r == [b EXCEPT !.events = E]
<1> DEFINE p == IF Forced(b) THEN b.passed \cup b.readers ELSE b.passed
<1>4. Bounded(r)
  BY <1>3, ReleaseContiguous
<1>5. Consumed(b) = [b EXCEPT !.events = E, !.passed = p]
  BY DEF Consumed, E, rel, Bounded, Buffer
<1>6. p \in SUBSET Client /\ b.passed \subseteq p
  BY DEF Bounded, Buffer
<1> HIDE DEF p
<1>7. /\ Consumed(b) \in Buffer /\ Consumed(b).events = r.events
      /\ Consumed(b).headSeq = r.headSeq /\ Consumed(b).nextSeq = r.nextSeq
      /\ Consumed(b).open = r.open /\ Consumed(b).closed = r.closed
  BY <1>3, <1>5, <1>6 DEF Bounded, Buffer
<1>8. Collected(b, Consumed(b)) /\ Consumed(b).rounds = b.rounds
  BY <1>5, <1>6 DEF Bounded, Collected, Buffer
<1> HIDE DEF r
<1> QED
  BY <1>4, <1>7, <1>8, SameEventsBounded

LEMMA EvictedBounded ==
  ASSUME NEW b, NEW r, Bounded(b)
  PROVE  Bounded(Evicted(b, r)) /\ Collected(b, Evicted(b, r)) /\ Evicted(b, r).rounds = b.rounds
BY DEF Evicted, Bounded, Contiguous, Held, Collected, Buffer

LEMMA RelievedBounded ==
  ASSUME NEW b, NEW d \in Relieved(b), Bounded(b)
  PROVE  Bounded(d) /\ Collected(b, d) /\ d.rounds = b.rounds
<1>1. \/ d = b
      \/ d = Consumed(b)
      \/ \E r \in Stuck(b) : d = Consumed(Evicted(b, r))
  BY DEF Relieved
<1>2. CASE d = b
  BY <1>2 DEF Collected
<1>3. CASE d = Consumed(b)
  BY <1>3, ConsumedBounded
<1>4. ASSUME NEW r \in Stuck(b), d = Consumed(Evicted(b, r))
      PROVE  Bounded(d) /\ Collected(b, d) /\ d.rounds = b.rounds
  <2>1. Bounded(Evicted(b, r)) /\ Collected(b, Evicted(b, r)) /\ Evicted(b, r).rounds = b.rounds
    BY EvictedBounded
  <2> QED
    BY <1>4, <2>1, ConsumedBounded, CollectedTransitive
<1> QED
  BY <1>1, <1>2, <1>3, <1>4

\* The new head is the last event of the prefix.
LEMMA CutHead ==
  ASSUME NEW b, Bounded(b), Prefix(b) # {}
  PROVE  /\ \E e \in Prefix(b) : Cut(b).headSeq = e.seq
         /\ \A e \in Prefix(b) : e.seq <= Cut(b).headSeq
<1> DEFINE S == {e.seq : e \in Prefix(b)}
<1>1. Prefix(b) \subseteq b.events /\ b.events \subseteq Event /\ b.nextSeq \in Nat
  BY DEF Prefix, Bounded, Buffer
<1>2. S \in SUBSET Nat /\ S # {} /\ \A s \in S : s <= b.nextSeq
  BY <1>1 DEF Event, Bounded, Contiguous
<1>3. \E m \in S : \A s \in S : s <= m
  <2> HIDE DEF S
  <2> QED
    BY <1>1, <1>2, LargestExists
<1>4. Cut(b).headSeq = CHOOSE s \in S : \A e \in Prefix(b) : e.seq <= s
  BY DEF Cut, Bounded, Buffer
<1>5. \E m \in S : \A e \in Prefix(b) : e.seq <= m
  BY <1>3
<1> QED
  BY <1>4, <1>5

LEMMA CutBounded ==
  ASSUME NEW b, Bounded(b)
  PROVE  Bounded(Cut(b)) /\ Collected(b, Cut(b))
<1> DEFINE h == Cut(b).headSeq
<1> DEFINE d == Cut(b)
<1>1. /\ d = [b EXCEPT !.events = b.events \ Prefix(b), !.rounds = b.rounds \ Forgotten(b),
                       !.headSeq = h]
      /\ Prefix(b) = {} => h = b.headSeq
  BY DEF Cut, Bounded, Buffer
<1>2. /\ b.events \subseteq Event /\ b.headSeq \in Nat /\ b.nextSeq \in Nat
      /\ \A e \in b.events : e.seq \in Nat
  BY DEF Bounded, Buffer, Event
<1>3. /\ h \in Nat /\ b.headSeq <= h /\ h <= b.nextSeq
      /\ \A e \in b.events : e \in Prefix(b) <=> e.seq <= h
  <2>1. CASE Prefix(b) = {}
    BY <1>1, <1>2, <2>1 DEF Bounded, Contiguous
  <2>2. CASE Prefix(b) # {}
    <3>1. PICK e \in Prefix(b) : h = e.seq
      BY <2>2, CutHead
    <3>2. \A f \in Prefix(b) : f.seq <= h
      BY <2>2, CutHead
    <3>3. e \in b.events /\ \A f \in b.events : f.seq <= e.seq => f.released
      BY DEF Prefix
    <3>4. ASSUME NEW f \in b.events, f.seq <= h PROVE f \in Prefix(b)
      BY <1>2, <3>1, <3>3, <3>4 DEF Prefix
    <3>5. h \in Nat /\ b.headSeq <= h /\ h <= b.nextSeq
      BY <1>2, <3>1, <3>3 DEF Bounded, Contiguous
    <3> QED
      BY <3>2, <3>4, <3>5
  <2> QED
    BY <2>1, <2>2
<1> HIDE DEF h
<1>4. /\ d \in Buffer /\ d.events = b.events \ Prefix(b) /\ d.headSeq = h
      /\ d.nextSeq = b.nextSeq /\ d.open = b.open /\ d.closed = b.closed
      /\ Collected(b, d)
  BY <1>1, <1>3 DEF Bounded, Collected, Buffer
<1> HIDE DEF d
<1>5. ASSUME ~b.closed, NEW s \in h + 1 .. b.nextSeq PROVE s \in Held(d)
  <2>1. s \in b.headSeq + 1 .. b.nextSeq
    BY <1>2, <1>3
  <2>2. PICK e \in b.events : e.seq = s
    BY <1>5, <2>1 DEF Bounded, Contiguous, Held
  <2>3. e \in d.events
    BY <1>3, <1>4, <2>2
  <2> QED
    BY <2>2, <2>3 DEF Held
<1>6. Contiguous(d)
  BY <1>2, <1>3, <1>4, <1>5 DEF Bounded, Contiguous
<1> QED
  BY <1>3, <1>4, <1>6 DEF Bounded, d

LEMMA CollectBounded ==
  ASSUME NEW b, NEW d \in Collect(b), Bounded(b)
  PROVE  Bounded(d) /\ Collected(b, d)
<1>1. CASE d = b
  BY <1>1 DEF Collected
<1>2. ASSUME NEW r \in Relieved(Marked(b)), d = Cut(r)
      PROVE  Bounded(d) /\ Collected(b, d)
  <2>1. Bounded(r) /\ Collected(b, r)
    BY MarkedBounded, RelievedBounded, CollectedTransitive
  <2> QED
    BY <1>2, <2>1, CutBounded, CollectedTransitive
<1> QED
  BY <1>1, <1>2 DEF Collect

LEMMA AppendedBounded ==
  ASSUME NEW b, NEW kind, Bounded(b)
  PROVE  /\ Bounded(Appended(b, kind))
         /\ Appended(b, kind).nextSeq = b.nextSeq + 1
         /\ Appended(b, kind).cursor = b.cursor /\ Appended(b, kind).closed = b.closed
         /\ Appended(b, kind).readers = b.readers /\ Appended(b, kind).headSeq = b.headSeq
         /\ Appended(b, kind).passed = b.passed
<1> DEFINE seq == b.nextSeq + 1
<1> DEFINE round == IF kind = "start" THEN seq ELSE b.open
<1> DEFINE event == [seq |-> seq, classB |-> ClassB(kind), round |-> round, released |-> FALSE]
<1> DEFINE R == CASE kind = "start" -> b.rounds \cup {[start |-> seq, end |-> 0]}
                  [] kind = "end" -> {[r EXCEPT !.end = IF r.start = round THEN seq ELSE @]
                                      : r \in b.rounds}
                  [] OTHER -> b.rounds
<1> DEFINE o == CASE kind = "start" -> seq [] kind = "end" -> 0 [] OTHER -> b.open
<1>1. b \in Buffer /\ seq \in Nat /\ b.open \in Nat /\ b.rounds \subseteq Round
  BY DEF Bounded, Buffer
<1>2. event \in Event
  BY <1>1 DEF Event, ClassB
<1>3. R \in SUBSET Round
  <2>1. CASE kind = "start"
    BY <1>1, <2>1 DEF Round
  <2>2. CASE kind = "end"
    BY <1>1, <2>2 DEF Round
  <2>3. CASE kind \notin {"start", "end"}
    BY <1>1, <2>3
  <2> QED
    BY <2>1, <2>2, <2>3
<1>4. o \in Nat /\ o <= seq
  BY <1>1 DEF Bounded, Buffer
<1> HIDE DEF R, o
<1>5. Appended(b, kind) = [b EXCEPT !.nextSeq = seq, !.events = @ \cup {event}, !.rounds = R,
                                    !.open = o, !.terminal = @ \/ kind = "terminal"]
  BY DEF Appended, R, o, Buffer
<1>6. (b.terminal \/ kind = "terminal") \in BOOLEAN
  OBVIOUS
<1> DEFINE t == b.terminal \/ kind = "terminal"
<1>7. Appended(b, kind) = [b EXCEPT !.nextSeq = seq, !.events = b.events \cup {event}, !.rounds = R,
                                    !.open = o, !.terminal = t]
  BY <1>1, <1>5 DEF Buffer
<1>8. t \in BOOLEAN /\ event.seq = seq
  OBVIOUS
<1> HIDE DEF event, t
<1>9. Appended(b, kind) \in Buffer
  <2> DEFINE E == b.events \cup {event}
  <2>1. E \in SUBSET Event
    BY <1>1, <1>2 DEF Buffer
  <2>2. Appended(b, kind) = [b EXCEPT !.nextSeq = seq, !.events = E, !.rounds = R,
                                      !.open = o, !.terminal = t]
    BY <1>7
  <2> HIDE DEF E, seq
  <2> QED
    BY <1>1, <1>3, <1>4, <1>8, <2>1, <2>2 DEF Buffer
<1>10. /\ Appended(b, kind).nextSeq = seq /\ Appended(b, kind).open = o
       /\ Appended(b, kind).events = b.events \cup {event}
       /\ Appended(b, kind).cursor = b.cursor /\ Appended(b, kind).closed = b.closed
       /\ Appended(b, kind).readers = b.readers /\ Appended(b, kind).headSeq = b.headSeq
       /\ Appended(b, kind).passed = b.passed
  BY <1>1, <1>7 DEF Buffer
<1>11. Contiguous(Appended(b, kind))
  <2>1. \A e \in b.events : b.headSeq < e.seq /\ e.seq < seq
    BY <1>1 DEF Bounded, Contiguous, Buffer, Event
  <2>2. b.headSeq < seq
    BY <1>1 DEF Bounded, Buffer
  <2>3. ASSUME ~b.closed, NEW s \in b.headSeq + 1 .. seq
        PROVE  \E e \in b.events \cup {event} : e.seq = s
    <3>1. CASE s = seq
      BY <1>8, <3>1
    <3>2. CASE s # seq
      <4>1. s \in b.headSeq + 1 .. b.nextSeq
        BY <1>1, <3>2 DEF Bounded, Buffer
      <4> QED
        BY <2>3, <4>1 DEF Bounded, Contiguous, Held
    <3> QED
      BY <3>1, <3>2
  <2> QED
    BY <1>1, <1>8, <1>10, <2>1, <2>2, <2>3 DEF Bounded, Contiguous, Held, Buffer, Event
<1>12. b.headSeq <= seq
  BY <1>1 DEF Bounded, Buffer
<1> QED
  BY <1>4, <1>9, <1>10, <1>11, <1>12 DEF Bounded

(***************************************************************************)
(* What holds whatever the runs publish: the types, and what a connection  *)
(* whose subscription was rejected knows of the buffer.                    *)
(***************************************************************************)
\* The clamp leaves room for Slack events between the two steps of a retry.
RetryInv ==
  \A c \in Client :
    pc[c] = "resub" => /\ fresh[c] <= at[c] /\ at[c] <= buf.nextSeq
                       /\ at[c] - fresh[c] <= ReplayLimit - Slack

\* A connection holds a batch while it writes and acknowledges.
BatchHeld == \A c \in Client : pc[c] \in {"write", "ack"} <=> batch[c] # <<>>

BaseInv == TypeOK /\ Bounded(buf) /\ RetryInv /\ BatchHeld

\* Nothing but the buffer, which has not lost a number.
BufferStep == /\ Bounded(buf') /\ buf.nextSeq <= buf'.nextSeq
              /\ buf'.cursor \in [Client -> Nat]
              /\ UNCHANGED <<pc, last, fresh, at, batch>>

LEMMA BufferStepBase ==
  ASSUME BaseInv, BufferStep, phase' \in Phase
  PROVE  BaseInv'
BY DEF BaseInv, BufferStep, RetryInv, BatchHeld, TypeOK, Bounded, Buffer

LEMMA PublishBase ==
  ASSUME BaseInv, NEW kind, Publish(kind)
  PROVE  BufferStep
<1>1. PICK d \in Collect(Appended(buf, kind)) : buf' = d
  BY DEF Publish
<1>2. Bounded(Appended(buf, kind)) /\ Appended(buf, kind).nextSeq = buf.nextSeq + 1
  BY AppendedBounded DEF BaseInv
<1>3. Bounded(d) /\ Collected(Appended(buf, kind), d)
  BY <1>2, CollectBounded
<1>4. d.cursor \in [Client -> Nat] /\ buf.nextSeq <= d.nextSeq
  BY <1>2, <1>3 DEF Bounded, Buffer, Collected, BaseInv
<1> QED
  BY <1>1, <1>3, <1>4 DEF BufferStep, Publish

LEMMA SnapshotClamped ==
  ASSUME BufferAssumption, NEW b, Bounded(b)
  PROVE  /\ SnapshotSeq(b) \in Nat /\ SnapshotSeq(b) <= b.nextSeq
         /\ b.nextSeq - SnapshotSeq(b) <= ReplayLimit - Slack
BY DEF BufferAssumption, Bounded, Buffer, SnapshotSeq, Larger

\* A connection's step that leaves the buffer's numbers and the retries of the others alone.
Grows == Bounded(buf') /\ buf.nextSeq <= buf'.nextSeq

LEMMA SameGrows ==
  ASSUME BaseInv, buf' = buf
  PROVE  Grows
BY DEF BaseInv, Grows, TypeOK, Buffer

ConnStep(c) ==
  /\ Grows
  /\ phase' = phase
  /\ \E p \in ConnPc \ {"resub"}, s \in Seq(Nat) :
       /\ p \in {"write", "ack"} <=> s # <<>>
       /\ pc' = [pc EXCEPT ![c] = p] /\ batch' = [batch EXCEPT ![c] = s]
  /\ last' \in [Client -> Nat]
  /\ \/ UNCHANGED <<fresh, at>>
     \/ fresh' = [fresh EXCEPT ![c] = 0] /\ at' = [at EXCEPT ![c] = 0]

LEMMA ConnStepBase ==
  ASSUME BaseInv, NEW c \in Client, ConnStep(c)
  PROVE  BaseInv'
<1>1. PICK p \in ConnPc \ {"resub"}, s \in Seq(Nat) :
        /\ p \in {"write", "ack"} <=> s # <<>>
        /\ pc' = [pc EXCEPT ![c] = p] /\ batch' = [batch EXCEPT ![c] = s]
  BY DEF ConnStep
<1>2. TypeOK' /\ BatchHeld'
  <2>1. fresh' \in [Client -> Nat] /\ at' \in [Client -> Nat]
    <3>1. fresh \in [Client -> Nat] /\ at \in [Client -> Nat]
      BY DEF BaseInv, TypeOK
    <3>2. \/ fresh' = fresh /\ at' = at
          \/ fresh' = [fresh EXCEPT ![c] = 0] /\ at' = [at EXCEPT ![c] = 0]
      BY DEF ConnStep
    <3>3. CASE fresh' = fresh /\ at' = at
      BY <3>1, <3>3
    <3>4. CASE fresh' = [fresh EXCEPT ![c] = 0] /\ at' = [at EXCEPT ![c] = 0]
      BY <3>1, <3>4
    <3> QED
      BY <3>2, <3>3, <3>4
  <2>2. pc' \in [Client -> ConnPc] /\ batch' \in [Client -> Seq(Nat)]
    BY <1>1 DEF BaseInv, TypeOK
  <2>3. BatchHeld'
    BY <1>1 DEF BaseInv, TypeOK, BatchHeld
  <2> QED
    BY <2>1, <2>2, <2>3 DEF BaseInv, ConnStep, Grows, TypeOK, Bounded
<1>3. ASSUME NEW d \in Client, pc'[d] = "resub"
      PROVE  /\ fresh'[d] <= at'[d] /\ at'[d] <= buf'.nextSeq
             /\ at'[d] - fresh'[d] <= ReplayLimit - Slack
  <2>1. d # c /\ pc[d] = "resub"
    BY <1>1, <1>3 DEF BaseInv, TypeOK
  <2>2. fresh'[d] = fresh[d] /\ at'[d] = at[d]
    BY <2>1 DEF ConnStep, BaseInv, TypeOK
  <2>3. at[d] \in Nat /\ buf.nextSeq \in Nat /\ buf'.nextSeq \in Nat /\ at[d] <= buf.nextSeq
    BY <2>1 DEF BaseInv, RetryInv, TypeOK, ConnStep, Grows, Bounded, Buffer
  <2> QED
    BY <2>1, <2>2, <2>3 DEF BaseInv, RetryInv, ConnStep, Grows
<1> QED
  BY <1>2, <1>3 DEF BaseInv, RetryInv, ConnStep, Grows

\* The form most of these steps take.
LEMMA PcStep ==
  ASSUME BaseInv, NEW c \in Client, NEW p \in ConnPc \ {"resub"},
         p \in {"write", "ack"} <=> batch[c] # <<>>,
         pc' = [pc EXCEPT ![c] = p], batch' = batch, phase' = phase, Grows,
         last' \in [Client -> Nat],
         \/ UNCHANGED <<fresh, at>>
         \/ fresh' = [fresh EXCEPT ![c] = 0] /\ at' = [at EXCEPT ![c] = 0]
  PROVE  BaseInv'
<1>1. batch[c] \in Seq(Nat) /\ batch' = [batch EXCEPT ![c] = batch[c]]
  BY DEF BaseInv, TypeOK
<1>2. ConnStep(c)
  BY <1>1 DEF ConnStep
<1> QED
  BY <1>2, ConnStepBase

LEMMA SubscribeBounded ==
  ASSUME BaseInv, NEW c \in Client, NEW s \in Nat, Subscribe(c, s)
  PROVE  Bounded(buf') /\ buf'.nextSeq = buf.nextSeq
<1>1. /\ buf' \in Buffer /\ buf'.events = buf.events /\ buf'.headSeq = buf.headSeq
      /\ buf'.nextSeq = buf.nextSeq /\ buf'.open = buf.open /\ buf'.closed = buf.closed
  BY DEF BaseInv, Subscribe, Bounded, Buffer
<1> QED
  BY <1>1, SameEventsBounded DEF BaseInv

\* The largest of two numbers is a number.
LEMMA LargerType ==
  ASSUME NEW m \in Nat, NEW n \in Nat
  PROVE  Larger(m, n) \in Nat /\ m <= Larger(m, n) /\ n <= Larger(m, n)
BY DEF Larger

LEMMA BaseInit ==
  ASSUME Init
  PROVE  BaseInv
<1>1. TypeOK
  BY DEF Init, TypeOK, Buffer, Phase, ConnPc
<1>2. Bounded(buf)
  BY DEF Init, Bounded, Contiguous, Buffer
<1>3. RetryInv
  BY DEF Init, RetryInv
<1>4. BatchHeld
  BY DEF Init, BatchHeld
<1> QED
  BY <1>1, <1>2, <1>3, <1>4 DEF BaseInv

\* Nothing but flags, or nobody's events, is assigned.
SameEvents(b, d) ==
  /\ d \in Buffer
  /\ d.events = b.events /\ d.headSeq = b.headSeq /\ d.nextSeq = b.nextSeq /\ d.open = b.open
  /\ d.closed = b.closed /\ d.cursor = b.cursor

LEMMA FlagsBase ==
  ASSUME BaseInv, phase' \in Phase, UNCHANGED <<pc, last, fresh, at, batch>>,
         SameEvents(buf, buf')
  PROVE  BaseInv'
<1>1. Bounded(buf')
  BY SameEventsBounded DEF BaseInv, SameEvents
<1>2. BufferStep
  BY <1>1 DEF BufferStep, SameEvents, BaseInv, TypeOK, Buffer
<1> QED
  BY <1>2, BufferStepBase

LEMMA PublisherBase ==
  ASSUME BaseInv, Publisher \/ Timer
  PROVE  BaseInv'
<1>1. buf \in Buffer /\ phase \in Phase
  BY DEF BaseInv, TypeOK
<1>2. CASE RunStarted \/ Chunk \/ RunOutcome \/ JobTerminal \/ State \/ Stitched
  <2>1. BufferStep
    BY <1>2, PublishBase DEF RunStarted, Chunk, RunOutcome, JobTerminal, State, Stitched
  <2>2. phase' \in Phase
    BY <1>1, <1>2 DEF RunStarted, Chunk, RunOutcome, JobTerminal, State, Stitched, Phase
  <2> QED
    BY <2>1, <2>2, BufferStepBase
<1>3. CASE ResumeGC
  <2>1. phase' \in Phase
    BY <1>3 DEF ResumeGC, Phase
  <2>2. (buf.suspended \/ buf.readers = {}) \in BOOLEAN
    OBVIOUS
  <2>3. SameEvents(buf, buf')
    BY <1>1, <1>3, <2>2 DEF ResumeGC, Buffer, SameEvents
  <2> QED
    BY <1>3, <2>1, <2>3, FlagsBase DEF ResumeGC
<1>4. CASE Timer
  <2>1. SameEvents(buf, buf')
    BY <1>1, <1>4 DEF Timer, SuspensionExpires, GraceExpires, Buffer, SameEvents
  <2> QED
    BY <1>1, <1>4, <2>1, FlagsBase DEF Timer, SuspensionExpires, GraceExpires
<1>5. CASE CloseBuffer
  <2>1. /\ buf' \in Buffer /\ buf'.events = {} /\ buf'.headSeq = buf.headSeq
        /\ buf'.nextSeq = buf.nextSeq /\ buf'.open = buf.open /\ buf'.closed
        /\ buf'.cursor = buf.cursor
    BY <1>1, <1>5 DEF CloseBuffer, Buffer
  <2>2. Bounded(buf')
    BY <2>1 DEF BaseInv, Bounded, Contiguous
  <2>3. BufferStep
    BY <1>1, <1>5, <2>1, <2>2 DEF BufferStep, CloseBuffer, Buffer
  <2> QED
    BY <1>1, <1>5, <2>3, BufferStepBase DEF CloseBuffer
<1> QED
  BY <1>2, <1>3, <1>4, <1>5 DEF Publisher

\* What a reader finds after its cursor follows its cursor, or the head.
LEMMA RestIsInterval ==
  ASSUME Bounded(buf), ~buf.closed, NEW n \in Nat
  PROVE  /\ Larger(n, buf.headSeq) \in Nat
         /\ {s \in Held(buf) : s > n} = Larger(n, buf.headSeq) + 1 .. buf.nextSeq
<1>1. buf.headSeq \in Nat /\ buf.nextSeq \in Nat /\ \A e \in buf.events : e.seq \in Nat
  BY DEF Bounded, Buffer, Event
<1>2. Held(buf) = buf.headSeq + 1 .. buf.nextSeq
  BY <1>1 DEF Bounded, Contiguous, Held
<1> QED
  BY <1>1, <1>2, LargerType DEF Larger

LEMMA ReadBase ==
  ASSUME BufferAssumption, BaseInv, NEW c \in Client, Read(c)
  PROVE  BaseInv'
<1> DEFINE rest == {s \in Held(buf) : s > buf.cursor[c]}
<1> DEFINE a == Larger(buf.cursor[c], buf.headSeq)
<1>1. buf \in Buffer /\ buf.cursor[c] \in Nat /\ buf.nextSeq \in Nat /\ buf.headSeq \in Nat
  BY DEF BaseInv, TypeOK, Buffer
<1>2. a \in Nat /\ rest = a + 1 .. buf.nextSeq
  BY <1>1, RestIsInterval DEF BaseInv, Read
<1>3. CASE rest # {}
  <2>1. a < buf.nextSeq
    BY <1>1, <1>2, <1>3
  <2>2. BatchSize \in Nat \ {0}
    BY DEF BufferAssumption
  <2>3. FirstOf(rest, BatchSize) \in Seq(Nat) /\ FirstOf(rest, BatchSize) # <<>>
    <3> HIDE DEF a, rest
    <3>1. /\ FirstOf(a + 1 .. buf.nextSeq, BatchSize) \in Seq(Nat)
          /\ FirstOf(a + 1 .. buf.nextSeq, BatchSize) # <<>>
      BY <1>1, <1>2, <2>1, <2>2, FirstOfInterval
    <3> QED
      BY <1>2, <3>1
  <2>4. /\ batch' = [batch EXCEPT ![c] = FirstOf(rest, BatchSize)]
        /\ pc' = [pc EXCEPT ![c] = "write"]
        /\ buf' = buf
    BY <1>3 DEF Read
  <2> HIDE DEF rest, a
  <2>5. Grows /\ last' \in [Client -> Nat] /\ UNCHANGED <<fresh, at, phase>>
    BY <2>4, SameGrows DEF Read, BaseInv, TypeOK
  <2>6. "write" \in ConnPc \ {"resub"}
    BY DEF ConnPc
  <2>7. ConnStep(c)
    BY <2>3, <2>4, <2>5, <2>6 DEF ConnStep
  <2> QED
    BY <2>7, ConnStepBase
<1>4. CASE rest = {}
  <2>1. buf' = [buf EXCEPT !.cursor[c] = buf.nextSeq] /\ UNCHANGED <<batch, pc>>
    BY <1>4 DEF Read
  <2>2. /\ buf' \in Buffer /\ buf'.events = buf.events /\ buf'.headSeq = buf.headSeq
        /\ buf'.nextSeq = buf.nextSeq /\ buf'.open = buf.open /\ buf'.closed = buf.closed
    BY <1>1, <2>1 DEF Buffer
  <2>3. Bounded(buf')
    BY <2>2, SameEventsBounded DEF BaseInv
  <2>4. BufferStep
    BY <1>1, <2>1, <2>2, <2>3 DEF BufferStep, Read, Buffer
  <2> QED
    BY <2>4, BufferStepBase DEF Read, BaseInv, TypeOK
<1> QED
  BY <1>3, <1>4

LEMMA AckBase ==
  ASSUME BaseInv, NEW c \in Client, Ack(c)
  PROVE  BaseInv'
<1> DEFINE moved == [buf EXCEPT !.cursor[c] = Larger(@, AckedTo(c))]
<1>1. buf \in Buffer /\ buf.cursor \in [Client -> Nat] /\ batch[c] \in Seq(Nat)
  BY DEF BaseInv, TypeOK, Buffer
<1>2. AckedTo(c) \in Nat /\ Tail(batch[c]) \in Seq(Nat)
  BY <1>1, HeadTailProperties DEF AckedTo, Ack, BaseInv, BatchHeld
<1>3. Larger(buf.cursor[c], AckedTo(c)) \in Nat
  BY <1>1, <1>2, LargerType
<1>4. /\ moved \in Buffer /\ moved.events = buf.events /\ moved.headSeq = buf.headSeq
      /\ moved.nextSeq = buf.nextSeq /\ moved.open = buf.open /\ moved.closed = buf.closed
  BY <1>1, <1>3 DEF Buffer
<1>5. Bounded(moved)
  BY <1>4, SameEventsBounded DEF BaseInv
<1> HIDE DEF moved
<1>6. PICK d \in Collect(moved) : buf' = d
  BY DEF Ack, moved
<1>7. Grows
  BY <1>1, <1>4, <1>5, <1>6, CollectBounded DEF Collected, Grows, Buffer
<1> DEFINE p == IF Len(batch[c]) = 1 THEN "live" ELSE "write"
<1>8. pc' = [pc EXCEPT ![c] = p]
  BY DEF Ack
<1>9. p \in ConnPc \ {"resub"} /\ (p \in {"write", "ack"} <=> Tail(batch[c]) # <<>>)
  <2>1. batch[c] # <<>>
    BY DEF Ack, BaseInv, BatchHeld
  <2>2. Len(Tail(batch[c])) = Len(batch[c]) - 1 /\ Len(batch[c]) \in Nat
    BY <1>1, <2>1, HeadTailProperties, LenProperties
  <2>3. Tail(batch[c]) = <<>> <=> Len(Tail(batch[c])) = 0
    BY <1>2, EmptySeq
  <2>4. Len(batch[c]) = 1 <=> Tail(batch[c]) = <<>>
    BY <2>2, <2>3
  <2> QED
    BY <2>4 DEF ConnPc
<1>10. /\ batch' = [batch EXCEPT ![c] = Tail(batch[c])]
       /\ last' \in [Client -> Nat] /\ UNCHANGED <<fresh, at, phase>>
  BY DEF Ack, BaseInv, TypeOK
<1>11. ConnStep(c)
  BY <1>2, <1>7, <1>8, <1>9, <1>10 DEF ConnStep
<1> QED
  BY <1>11, ConnStepBase

LEMMA CloseReaderBase ==
  ASSUME BaseInv, NEW c \in Client, CloseReader(c)
  PROVE  BaseInv'
<1> DEFINE rest == buf.readers \ {c}
<1> DEFINE g == buf.grace \/ (rest = {} /\ ~buf.terminal)
<1> DEFINE left == [buf EXCEPT !.readers = rest, !.grace = g]
<1>1. buf \in Buffer
  BY DEF BaseInv, TypeOK
<1>2. Grows
  <2>1. CASE c \in buf.readers
    <3>1. g \in BOOLEAN /\ rest \in SUBSET Client
      BY <1>1 DEF Buffer
    <3>2. \E d \in Collect(left) : buf' = d
      BY <1>1, <2>1 DEF CloseReader, Buffer
    <3> HIDE DEF g, rest
    <3>3. /\ left \in Buffer /\ left.events = buf.events /\ left.headSeq = buf.headSeq
          /\ left.nextSeq = buf.nextSeq /\ left.open = buf.open /\ left.closed = buf.closed
      BY <1>1, <3>1 DEF Buffer
    <3>4. Bounded(left)
      BY <3>3, SameEventsBounded DEF BaseInv
    <3> HIDE DEF left
    <3> QED
      BY <1>1, <3>2, <3>3, <3>4, CollectBounded DEF Collected, Grows, Buffer
  <2>2. CASE c \notin buf.readers
    BY <2>2, SameGrows DEF CloseReader
  <2> QED
    BY <2>1, <2>2
<1>3. "off" \in ConnPc \ {"resub"} /\ batch[c] = <<>>
  BY DEF ConnPc, CloseReader, BaseInv, BatchHeld
<1> QED
  BY <1>2, <1>3, PcStep DEF CloseReader, BaseInv, TypeOK

LEMMA SubscriptionBase ==
  ASSUME BufferAssumption, BaseInv, NEW c \in Client,
         Reload(c) \/ Connect(c) \/ RetrySeq(c) \/ Resubscribe(c)
  PROVE  BaseInv'
<1>1. /\ {"off", "retry", "gone", "live"} \subseteq ConnPc \ {"resub"}
      /\ pc[c] \in {"off", "retry", "resub", "gone"} => batch[c] = <<>>
  BY DEF ConnPc, BaseInv, BatchHeld
<1>2. last[c] \in Nat /\ fresh[c] \in Nat /\ buf.nextSeq \in Nat /\ last \in [Client -> Nat]
  BY DEF BaseInv, TypeOK, Buffer
<1>3. SnapshotSeq(buf) \in Nat /\ SnapshotSeq(buf) <= buf.nextSeq
      /\ buf.nextSeq - SnapshotSeq(buf) <= ReplayLimit - Slack
  BY SnapshotClamped DEF BaseInv
<1>4. CASE Reload(c)
  <2>1. Grows /\ last' \in [Client -> Nat]
    BY <1>2, <1>3, <1>4, SameGrows DEF Reload
  <2> QED
    BY <1>1, <1>4, <2>1, PcStep DEF Reload
<1>5. CASE Connect(c)
  <2>1. CASE Subscribe(c, last[c])
    <3>1. Grows
      BY <1>2, <2>1, SubscribeBounded DEF Grows
    <3>2. pc' = [pc EXCEPT ![c] = "live"]
      BY <2>1 DEF Subscribe
    <3> QED
      BY <1>1, <1>2, <1>5, <3>1, <3>2, PcStep DEF Connect
  <2>2. CASE ~Subscribe(c, last[c])
    <3>1. Grows
      BY <1>5, <2>2, SameGrows DEF Connect
    <3>2. pc' = [pc EXCEPT ![c] = "retry"] \/ pc' = [pc EXCEPT ![c] = "gone"]
      BY <1>5, <2>2 DEF Connect
    <3> QED
      BY <1>1, <1>2, <1>5, <3>1, <3>2, PcStep DEF Connect
  <2> QED
    BY <2>1, <2>2
<1>6. CASE Resubscribe(c)
  <2>1. CASE Subscribe(c, fresh[c])
    <3>1. Grows
      BY <1>2, <2>1, SubscribeBounded DEF Grows
    <3>2. pc' = [pc EXCEPT ![c] = "live"]
      BY <2>1 DEF Subscribe
    <3> QED
      BY <1>1, <1>2, <1>6, <3>1, <3>2, PcStep DEF Resubscribe
  <2>2. CASE ~Subscribe(c, fresh[c])
    <3>1. Grows
      BY <1>6, <2>2, SameGrows DEF Resubscribe
    <3>2. pc' = [pc EXCEPT ![c] = "gone"]
      BY <1>6, <2>2 DEF Resubscribe
    <3> QED
      BY <1>1, <1>2, <1>6, <3>1, <3>2, PcStep DEF Resubscribe
  <2> QED
    BY <2>1, <2>2
<1>7. CASE RetrySeq(c)
  <2>1. /\ pc' = [pc EXCEPT ![c] = "resub"] /\ pc[c] = "retry"
        /\ fresh' = [fresh EXCEPT ![c] = SnapshotSeq(buf)]
        /\ at' = [at EXCEPT ![c] = buf.nextSeq]
        /\ buf' = buf /\ phase' = phase /\ last' = last /\ batch' = batch
    BY <1>7 DEF RetrySeq
  <2>2. Bounded(buf')
    BY <2>1, SameGrows DEF Grows
  <2>3. TypeOK'
    BY <1>2, <1>3, <2>1 DEF BaseInv, TypeOK, ConnPc
  <2>4. BatchHeld'
    BY <2>1 DEF BaseInv, TypeOK, BatchHeld
  <2>5. RetryInv'
    BY <1>2, <1>3, <2>1 DEF BaseInv, TypeOK, RetryInv
  <2> QED
    BY <2>2, <2>3, <2>4, <2>5 DEF BaseInv
<1> QED
  BY <1>4, <1>5, <1>6, <1>7

LEMMA WritingBase ==
  ASSUME BaseInv, NEW c \in Client, Write(c) \/ WriteFails(c) \/ ReadClosed(c) \/ Disconnect(c)
  PROVE  BaseInv'
<1>1. {"ack", "closing"} \subseteq ConnPc \ {"resub"} /\ batch[c] \in Seq(Nat)
  BY DEF ConnPc, BaseInv, TypeOK
<1>2. pc[c] = "write" => Head(batch[c]) \in Nat /\ batch[c] # <<>>
  BY <1>1, HeadTailProperties DEF BaseInv, BatchHeld
<1>3. Grows
  BY SameGrows DEF Write, WriteFails, ReadClosed, Disconnect
<1>4. last \in [Client -> Nat]
  BY DEF BaseInv, TypeOK
<1>5. CASE Write(c)
  <2>1. last' \in [Client -> Nat]
    BY <1>2, <1>4, <1>5 DEF Write
  <2> QED
    BY <1>1, <1>2, <1>3, <1>5, <2>1, PcStep DEF Write
<1>6. CASE WriteFails(c)
  <2>1. last' \in [Client -> Nat]
    BY <1>2, <1>4, <1>6 DEF WriteFails
  <2>2. <<>> \in Seq(Nat) /\ batch' = [batch EXCEPT ![c] = <<>>]
    BY <1>6 DEF WriteFails
  <2>3. ConnStep(c)
    BY <1>1, <1>3, <1>6, <2>1, <2>2 DEF ConnStep, WriteFails
  <2> QED
    BY <2>3, ConnStepBase
<1>7. CASE ReadClosed(c) \/ Disconnect(c)
  <2>1. batch[c] = <<>>
    BY <1>7 DEF ReadClosed, Disconnect, BaseInv, BatchHeld
  <2> QED
    BY <1>1, <1>3, <1>4, <1>7, <2>1, PcStep DEF ReadClosed, Disconnect
<1> QED
  BY <1>5, <1>6, <1>7

LEMMA BaseNext ==
  ASSUME BufferAssumption, BaseInv, [Next]_vars
  PROVE  BaseInv'
<1>1. CASE Publisher \/ Timer
  BY <1>1, PublisherBase
<1>2. ASSUME NEW c \in Client, Connection(c) \/ Reload(c) \/ Connect(c) \/ Disconnect(c)
      PROVE  BaseInv'
  BY <1>2, SubscriptionBase, ReadBase, WritingBase, AckBase, CloseReaderBase DEF Connection
<1>3. CASE UNCHANGED vars
  BY <1>3 DEF vars, BaseInv, TypeOK, Bounded, Contiguous, Held, RetryInv, BatchHeld
<1> QED
  BY <1>1, <1>2, <1>3 DEF Next

\* What every reachable state of the buffer and its connections satisfies, late stitches
\* included: types, numbering, cursors within the buffer.
THEOREM BaseInvariant == Spec => []BaseInv
<1>1. Init => BaseInv
  BY BaseInit
<1>2. BaseInv /\ [Next]_vars => BaseInv'
  BY BaseNext, BufferAssumption
<1> QED
  BY <1>1, <1>2, PTL DEF Spec

\* Every variable keeps its type whatever is published, read or collected.
THEOREM BufferTypes == Spec => []TypeOK
<1>1. BaseInv => TypeOK
  BY DEF BaseInv
<1> QED
  BY <1>1, BaseInvariant, PTL

\* SnapshotSeq's clamp leaves clampSlack events of room, so that the second attempt of a
\* rejected subscription is accepted unless more were published or the collector passed it.
THEOREM SlackIsEnough == Spec => []SlackSuffices
<1>1. BaseInv => SlackSuffices
  BY BufferAssumption DEF BaseInv, TypeOK, Buffer, Bounded, RetryInv, SlackSuffices, Accepts,
                          BufferAssumption
<1> QED
  BY <1>1, BaseInvariant, PTL

(***************************************************************************)
(* What a collection releases it drops, but what lies behind a late event. *)
(***************************************************************************)
\* A closed round is an interval of the events; the open one goes up to the newest.
RoundsOK(b) ==
  /\ \A e \in b.events :
       e.round # 0 => e.round <= e.seq /\ \E r \in b.rounds : r.start = e.round
  /\ \A r \in b.rounds : r.start # 0 /\ r.start <= b.nextSeq
  /\ \A r, q \in b.rounds : r.start = q.start => r = q
  /\ \A r \in b.rounds : r.end = 0 => r.start = b.open
  /\ \A r \in b.rounds : r.end # 0 =>
       /\ r.start <= r.end /\ r.end <= b.nextSeq
       /\ \A e \in b.events : e.round = r.start <=> r.start <= e.seq /\ e.seq <= r.end
  /\ b.open # 0 =>
       /\ [start |-> b.open, end |-> 0] \in b.rounds
       /\ \A e \in b.events : e.seq >= b.open => e.round = b.open

\* What is released is closed downwards, but for late events.
Down(b) ==
  \A e, f \in b.events : e.released /\ f.seq <= e.seq => f.released \/ Late(f)

\* A late event before it keeps e.
Blocked(b, e) == \E g \in b.events : Late(g) /\ ~g.released /\ g.seq < e.seq

Ahead(b) == \A r \in b.readers \ b.passed : b.headSeq <= b.cursor[r]

\* Between two collections only events behind a late one are released.
Sound(b) ==
  /\ RoundsOK(b) /\ Ahead(b) /\ Down(b)
  /\ \A e \in b.events : e.released => Blocked(b, e)

\* Within one, what is released and not behind a late event has been crossed, or
\* the hard cap has forced a late event out.
Ripe(b) ==
  /\ RoundsOK(b) /\ Ahead(b) /\ Down(b)
  /\ \A e \in b.events :
       e.released => Blocked(b, e) \/ Crossed(b, e.seq) \/ b.readers \subseteq b.passed

\* Rounds do not depend on what is released.
LEMMA SameRounds ==
  ASSUME NEW b, NEW d, RoundsOK(b),
         d.rounds = b.rounds, d.open = b.open, d.nextSeq = b.nextSeq,
         \A e \in d.events : \E f \in b.events :
           e.seq = f.seq /\ e.round = f.round /\ e.classB = f.classB
  PROVE  RoundsOK(d)
BY DEF RoundsOK

\* What the first pass would release is closed downwards, but for late events.
LEMMA ReleasableDown ==
  ASSUME NEW b, Bounded(b), RoundsOK(b), NEW e \in b.events, NEW f \in b.events,
         f.seq <= e.seq, Releasable(b, e)
  PROVE  Releasable(b, f) \/ Late(f)
<1>1. /\ e.seq \in Nat /\ f.seq \in Nat /\ e.round \in Nat /\ f.round \in Nat
      /\ \A r \in b.rounds : r.start \in Nat /\ r.end \in Nat
      /\ \A r \in b.readers : b.cursor[r] \in Nat
      /\ b.open \in Nat
  BY DEF Bounded, Buffer, Event, Round
<1>2. ASSUME NEW s \in Nat, NEW t \in Nat, s <= t, Crossed(b, t) PROVE Crossed(b, s)
  BY <1>1, <1>2 DEF Crossed
<1>3. Crossed(b, f.seq)
  BY <1>1, <1>2 DEF Releasable
<1>4. CASE f.round = 0
  BY <1>3, <1>4 DEF Releasable, Late
<1>5. CASE f.round # 0
  <2>1. PICK q \in b.rounds : q.start = f.round
    BY <1>5 DEF RoundsOK
  <2>2. f.round <= f.seq
    BY <1>5 DEF RoundsOK
  <2>3. q.start <= e.seq
    BY <1>1, <2>1, <2>2
  <2>4. CASE e.round = f.round
    BY <1>3, <1>5, <2>4 DEF Releasable
  <2>5. CASE e.round # f.round
    <3>1. q.end # 0
      <4>1. SUFFICES ASSUME q.end = 0 PROVE FALSE
        OBVIOUS
      <4>2. q.start = b.open /\ b.open # 0
        BY <1>5, <2>1, <4>1 DEF RoundsOK
      <4>3. e.round = b.open
        BY <1>1, <2>3, <4>2 DEF RoundsOK
      <4> QED
        BY <2>1, <2>5, <4>2, <4>3
    <3>2. q.end < e.seq
      BY <1>1, <2>1, <2>3, <2>5, <3>1 DEF RoundsOK
    <3>3. Crossed(b, q.end)
      BY <1>1, <1>2, <3>2 DEF Releasable
    <3> QED
      BY <1>3, <1>5, <2>1, <3>1, <3>3 DEF Releasable
  <2> QED
    BY <2>4, <2>5
<1> QED
  BY <1>4, <1>5

LEMMA MarkedRipe ==
  ASSUME NEW b, Bounded(b), Sound(b)
  PROVE  Ripe(Marked(b))
<1> DEFINE d == Marked(b)
<1> DEFINE rel(e) == [e EXCEPT !.released = @ \/ Releasable(b, e)]
<1>1. /\ d.events = {rel(e) : e \in b.events}
      /\ d.rounds = b.rounds /\ d.open = b.open /\ d.nextSeq = b.nextSeq
      /\ d.readers = b.readers /\ d.cursor = b.cursor /\ d.headSeq = b.headSeq
      /\ d.passed = b.passed
  BY DEF Marked, Bounded, Buffer
<1>2. ASSUME NEW e \in b.events
      PROVE  /\ rel(e).seq = e.seq /\ rel(e).round = e.round /\ rel(e).classB = e.classB
             /\ rel(e).released <=> e.released \/ Releasable(b, e)
             /\ Late(rel(e)) <=> Late(e)
  <2>1. e \in Event
    BY DEF Bounded, Buffer
  <2> QED
    BY <2>1 DEF Event, Late
<1> HIDE DEF rel, d
<1>3. RoundsOK(d)
  BY <1>1, <1>2, SameRounds DEF Sound
<1>4. Ahead(d)
  BY <1>1 DEF Sound, Ahead
<1>5. ASSUME NEW e \in d.events, e.released PROVE Blocked(d, e) \/ Crossed(d, e.seq)
  <2>1. PICK x \in b.events : e = rel(x)
    BY <1>1
  <2>2. CASE Releasable(b, x)
    BY <1>1, <1>2, <2>1, <2>2 DEF Releasable, Crossed
  <2>3. CASE x.released
    <3>1. PICK g \in b.events : Late(g) /\ ~g.released /\ g.seq < x.seq
      BY <2>3 DEF Sound, Blocked
    <3>2. ~Releasable(b, g)
      BY <3>1 DEF Late, Releasable
    <3>3. rel(g) \in d.events /\ Late(rel(g)) /\ ~rel(g).released /\ rel(g).seq < e.seq
      BY <1>1, <1>2, <2>1, <3>1, <3>2
    <3> QED
      BY <3>3 DEF Blocked
  <2> QED
    BY <1>2, <1>5, <2>1, <2>2, <2>3
<1>6. ASSUME NEW e \in d.events, NEW f \in d.events, f.seq <= e.seq, e.released
      PROVE  f.released \/ Late(f)
  <2>1. PICK x \in b.events, y \in b.events : e = rel(x) /\ f = rel(y)
    BY <1>1
  <2>2. y.seq <= x.seq /\ (x.released \/ Releasable(b, x))
    BY <1>2, <1>6, <2>1
  <2>3. y.released \/ Releasable(b, y) \/ Late(y)
    BY <2>2, ReleasableDown DEF Sound, Down
  <2> QED
    BY <1>2, <2>1, <2>3
<1> QED
  BY <1>3, <1>4, <1>5, <1>6 DEF Ripe, Down, d

LEMMA ConsumedRipe ==
  ASSUME NEW b, Bounded(b), Ripe(b)
  PROVE  Ripe(Consumed(b))
<1> DEFINE d == Consumed(b)
<1> DEFINE rel(e) == [e EXCEPT !.released = @ \/ Crossed(b, e.seq)]
<1>1. /\ d.events = {rel(e) : e \in b.events}
      /\ d.rounds = b.rounds /\ d.open = b.open /\ d.nextSeq = b.nextSeq
      /\ d.readers = b.readers /\ d.cursor = b.cursor /\ d.headSeq = b.headSeq
      /\ d.passed = IF Forced(b) THEN b.passed \cup b.readers ELSE b.passed
  BY DEF Consumed, Bounded, Buffer
<1>2. ASSUME NEW e \in b.events
      PROVE  /\ rel(e).seq = e.seq /\ rel(e).round = e.round /\ rel(e).classB = e.classB
             /\ rel(e).released <=> e.released \/ Crossed(b, e.seq)
             /\ Late(rel(e)) <=> Late(e)
  <2>1. e \in Event
    BY DEF Bounded, Buffer
  <2> QED
    BY <2>1 DEF Event, Late
<1>3. /\ \A e \in b.events : e.seq \in Nat
      /\ \A r \in b.readers : b.cursor[r] \in Nat
  BY DEF Bounded, Buffer, Event
<1> HIDE DEF rel, d
<1>4. RoundsOK(d)
  BY <1>1, <1>2, SameRounds DEF Ripe
<1>5. Ahead(d)
  BY <1>1 DEF Ripe, Ahead
<1>6. ASSUME NEW e \in d.events, e.released
      PROVE  Blocked(d, e) \/ Crossed(d, e.seq) \/ d.readers \subseteq d.passed
  <2>1. PICK x \in b.events : e = rel(x)
    BY <1>1
  <2>2. CASE Crossed(b, x.seq)
    BY <1>1, <1>2, <2>1, <2>2 DEF Crossed
  <2>3. CASE Blocked(b, x)
    <3>1. PICK g \in b.events : Late(g) /\ ~g.released /\ g.seq < x.seq
      BY <2>3 DEF Blocked
    <3>2. CASE Crossed(b, g.seq)
      <4>1. Forced(b)
        BY <3>1, <3>2 DEF Forced
      <4> QED
        BY <1>1, <4>1
    <3>3. CASE ~Crossed(b, g.seq)
      <4>1. rel(g) \in d.events /\ Late(rel(g)) /\ ~rel(g).released /\ rel(g).seq < e.seq
        BY <1>1, <1>2, <2>1, <3>1, <3>3
      <4> QED
        BY <4>1 DEF Blocked
    <3> QED
      BY <3>2, <3>3
  <2>4. CASE b.readers \subseteq b.passed
    BY <1>1, <2>4
  <2> QED
    BY <1>2, <1>6, <2>1, <2>2, <2>3, <2>4 DEF Ripe
<1>7. ASSUME NEW e \in d.events, NEW f \in d.events, f.seq <= e.seq, e.released
      PROVE  f.released \/ Late(f)
  <2>1. PICK x \in b.events, y \in b.events : e = rel(x) /\ f = rel(y)
    BY <1>1
  <2>2. y.seq <= x.seq /\ (x.released \/ Crossed(b, x.seq))
    BY <1>2, <1>7, <2>1
  <2>3. y.released \/ Crossed(b, y.seq) \/ Late(y)
    BY <1>3, <2>2 DEF Ripe, Down, Crossed
  <2> QED
    BY <1>2, <2>1, <2>3
<1> QED
  BY <1>4, <1>5, <1>6, <1>7 DEF Ripe, Down, d

\* An eviction leaves fewer readers to wait for.
LEMMA EvictedRipe ==
  ASSUME NEW b, NEW r, Bounded(b), Ripe(b)
  PROVE  Ripe(Evicted(b, r))
<1>1. /\ Evicted(b, r).events = b.events /\ Evicted(b, r).rounds = b.rounds
      /\ Evicted(b, r).open = b.open /\ Evicted(b, r).nextSeq = b.nextSeq
      /\ Evicted(b, r).readers \subseteq b.readers /\ Evicted(b, r).cursor = b.cursor
      /\ Evicted(b, r).headSeq = b.headSeq /\ Evicted(b, r).passed = b.passed
  BY DEF Evicted, Bounded, Buffer
<1>2. RoundsOK(Evicted(b, r))
  BY <1>1, SameRounds DEF Ripe
<1> QED
  BY <1>1, <1>2 DEF Ripe, Ahead, Down, Blocked, Crossed

LEMMA RelievedRipe ==
  ASSUME NEW b, NEW d \in Relieved(b), Bounded(b), Ripe(b)
  PROVE  Ripe(d)
<1>1. \/ d = b
      \/ d = Consumed(b)
      \/ \E r \in Stuck(b) : d = Consumed(Evicted(b, r))
  BY DEF Relieved
<1> QED
  BY <1>1, ConsumedRipe, EvictedRipe, EvictedBounded

\* The cut drops all that is released and not behind a late event, every round whose end
\* is dropped with it, and no event that a reader not in passed has not crossed.
LEMMA CutSound ==
  ASSUME NEW b, Bounded(b), Ripe(b)
  PROVE  Sound(Cut(b))
<1> DEFINE d == Cut(b)
<1>1. /\ b.events \subseteq Event /\ b.rounds \subseteq Round
      /\ \A e \in b.events : e.seq \in Nat /\ e.round \in Nat
  BY DEF Bounded, Buffer, Event
<1>2. /\ d.events = b.events \ Prefix(b) /\ d.rounds = b.rounds \ Forgotten(b)
      /\ d.open = b.open /\ d.nextSeq = b.nextSeq /\ d.readers = b.readers
      /\ d.cursor = b.cursor /\ d.passed = b.passed
      /\ Prefix(b) = {} => d.headSeq = b.headSeq
  BY DEF Cut, Bounded, Buffer
<1>3. ASSUME NEW e \in Prefix(b) PROVE e.released /\ ~Blocked(b, e)
  BY <1>1 DEF Prefix, Blocked
<1>4. Prefix(b) \subseteq b.events
  BY DEF Prefix
<1>5. Ahead(d)
  <2>1. CASE Prefix(b) = {}
    BY <1>2, <2>1 DEF Ripe, Ahead
  <2>2. CASE Prefix(b) # {}
    <3>1. PICK e \in Prefix(b) : d.headSeq = e.seq
      BY <2>2, CutHead
    <3>2. Crossed(b, e.seq) \/ b.readers \subseteq b.passed
      BY <1>3, <1>4 DEF Ripe
    <3>3. \A r \in b.readers : b.cursor[r] \in Nat
      BY DEF Bounded, Buffer
    <3> QED
      BY <1>1, <1>2, <1>4, <3>1, <3>2, <3>3 DEF Ahead, Crossed
  <2> QED
    BY <2>1, <2>2
<1> HIDE DEF d
<1>6. Down(d) /\ \A e \in d.events : e.released => Blocked(d, e)
  <2>1. Down(d)
    BY <1>2 DEF Ripe, Down
  <2>2. ASSUME NEW e \in d.events, e.released PROVE Blocked(d, e)
    <3>1. PICK f \in b.events : f.seq <= e.seq /\ ~f.released
      BY <1>2, <2>2 DEF Prefix
    <3>2. Late(f) /\ f \in d.events
      BY <1>2, <1>3, <2>2, <3>1 DEF Ripe, Down
    <3>3. f.seq # e.seq /\ f.seq \in Nat /\ e.seq \in Nat
      BY <1>1, <1>2, <2>2, <3>1 DEF Bounded, Contiguous
    <3> QED
      BY <3>1, <3>2, <3>3 DEF Blocked
  <2> QED
    BY <2>1, <2>2
<1>7. ASSUME NEW e \in d.events, e.round # 0 PROVE \E r \in d.rounds : r.start = e.round
  <2>1. PICK r \in b.rounds : r.start = e.round
    BY <1>2, <1>7 DEF Ripe, RoundsOK
  <2>2. SUFFICES ASSUME r \in Forgotten(b) PROVE FALSE
    BY <1>2, <2>1
  <2>3. PICK p \in Prefix(b) : p.round = r.start /\ p.seq = r.end /\ r.end # 0
    BY <2>2 DEF Forgotten
  <2>4. e \in b.events /\ e \notin Prefix(b)
    BY <1>2
  <2>5. e.seq <= p.seq
    BY <2>1, <2>3, <2>4 DEF Ripe, RoundsOK
  <2>6. p \in b.events /\ \A f \in b.events : f.seq <= p.seq => f.released
    BY DEF Prefix
  <2>7. \A f \in b.events : f.seq <= e.seq => f.seq <= p.seq
    BY <1>1, <2>4, <2>5, <2>6
  <2> QED
    BY <2>4, <2>6, <2>7 DEF Prefix
<1>8. b.open # 0 => [start |-> b.open, end |-> 0] \in d.rounds
  <2>1. ASSUME b.open # 0 PROVE [start |-> b.open, end |-> 0] \notin Forgotten(b)
    BY DEF Forgotten
  <2> QED
    BY <1>2, <2>1 DEF Ripe, RoundsOK
<1>9. RoundsOK(b) /\ d.events \subseteq b.events /\ d.rounds \subseteq b.rounds
  BY <1>2 DEF Ripe
<1>10. RoundsOK(d)
  <2> HIDE DEF d
  <2>1. /\ \A e \in d.events :
             e.round # 0 => e.round <= e.seq /\ \E r \in d.rounds : r.start = e.round
    BY <1>7, <1>9 DEF RoundsOK
  <2>2. /\ \A r \in d.rounds : r.start # 0 /\ r.start <= d.nextSeq
        /\ \A r, q \in d.rounds : r.start = q.start => r = q
        /\ \A r \in d.rounds : r.end = 0 => r.start = d.open
    BY <1>2, <1>9 DEF RoundsOK
  <2>3. \A r \in d.rounds : r.end # 0 =>
          /\ r.start <= r.end /\ r.end <= d.nextSeq
          /\ \A e \in d.events : e.round = r.start <=> r.start <= e.seq /\ e.seq <= r.end
    BY <1>2, <1>9 DEF RoundsOK
  <2>4. d.open # 0 => \A e \in d.events : e.seq >= d.open => e.round = d.open
    BY <1>2, <1>9 DEF RoundsOK
  <2> QED
    BY <1>2, <1>8, <2>1, <2>2, <2>3, <2>4 DEF RoundsOK
<1> QED
  BY <1>5, <1>6, <1>10 DEF Sound, d

LEMMA CollectSound ==
  ASSUME NEW b, NEW d \in Collect(b), Bounded(b), Sound(b)
  PROVE  Sound(d)
<1>1. CASE d = b
  BY <1>1
<1>2. ASSUME NEW r \in Relieved(Marked(b)), d = Cut(r)
      PROVE  Sound(d)
  <2>1. Bounded(Marked(b)) /\ Ripe(Marked(b))
    BY MarkedBounded, MarkedRipe
  <2>2. Bounded(r) /\ Ripe(r)
    BY <2>1, RelievedBounded, RelievedRipe
  <2> QED
    BY <1>2, <2>2, CutSound
<1> QED
  BY <1>1, <1>2 DEF Collect

\* A publication that keeps to the rounds keeps them intervals.
LEMMA AppendedSound ==
  ASSUME NEW b, NEW kind, Bounded(b), Sound(b),
         kind = "start" => b.open = 0,
         kind = "end" => b.open # 0
  PROVE  Sound(Appended(b, kind))
<1> DEFINE d == Appended(b, kind)
<1> DEFINE seq == b.nextSeq + 1
<1> DEFINE round == IF kind = "start" THEN seq ELSE b.open
<1> DEFINE event == [seq |-> seq, classB |-> ClassB(kind), round |-> round, released |-> FALSE]
<1>1. /\ b.events \subseteq Event /\ b.rounds \subseteq Round
      /\ b.nextSeq \in Nat /\ b.open \in Nat /\ b.open <= b.nextSeq
      /\ \A e \in b.events : e.seq \in Nat /\ e.round \in Nat /\ e.seq <= b.nextSeq
      /\ \A r \in b.rounds : r.start \in Nat /\ r.end \in Nat
  BY DEF Bounded, Buffer, Event, Round, Contiguous
<1>2. /\ d.events = b.events \cup {event} /\ d.nextSeq = seq
      /\ d.rounds = CASE kind = "start" -> b.rounds \cup {[start |-> seq, end |-> 0]}
                      [] kind = "end" -> {[r EXCEPT !.end = IF r.start = round THEN seq ELSE @]
                                          : r \in b.rounds}
                      [] OTHER -> b.rounds
      /\ d.open = CASE kind = "start" -> seq [] kind = "end" -> 0 [] OTHER -> b.open
      /\ d.readers = b.readers /\ d.cursor = b.cursor /\ d.headSeq = b.headSeq
      /\ d.passed = b.passed
  BY DEF Appended, Bounded, Buffer
<1> HIDE DEF d
<1>3. /\ event.seq = seq /\ event.classB = (kind # "chunk") /\ event.round = round
      /\ ~event.released
  BY DEF ClassB
<1> HIDE DEF event
<1>4. Ahead(d) /\ Down(d) /\ \A e \in d.events : e.released => Blocked(d, e)
  BY <1>1, <1>2, <1>3 DEF Sound, Ahead, Down, Blocked
<1>5. RoundsOK(b)
  BY DEF Sound
<1>6. ASSUME kind = "start" PROVE Sound(d)
  <2> DEFINE new == [start |-> seq, end |-> 0]
  <2>1. d.rounds = b.rounds \cup {new} /\ d.open = seq /\ event.round = seq /\ event.classB
    BY <1>2, <1>3, <1>6
  <2>2. new.start = seq /\ new.end = 0
    OBVIOUS
  <2>3. ASSUME NEW r \in b.rounds PROVE r.end # 0 /\ r.start < seq /\ r.start # 0
    BY <1>1, <1>5, <1>6 DEF RoundsOK
  <2>4. new \in d.rounds
    BY <2>1
  <2> HIDE DEF new
  <2>5. \A e \in d.events :
          e.round # 0 => e.round <= e.seq /\ \E r \in d.rounds : r.start = e.round
    BY <1>1, <1>2, <1>3, <1>5, <2>1, <2>2 DEF RoundsOK
  <2>6. /\ \A r \in d.rounds : r.start # 0 /\ r.start <= seq
        /\ \A r, q \in d.rounds : r.start = q.start => r = q
        /\ \A r \in d.rounds : r.end = 0 => r.start = seq
    BY <1>1, <1>5, <2>1, <2>2, <2>3 DEF RoundsOK
  <2>7. ASSUME NEW r \in d.rounds, r.end # 0
        PROVE  /\ r.start <= r.end /\ r.end <= seq
               /\ \A e \in d.events : e.round = r.start <=> r.start <= e.seq /\ e.seq <= r.end
    <3>1. r \in b.rounds
      BY <2>1, <2>2, <2>7
    <3>2. r.start <= r.end /\ r.end <= b.nextSeq
      BY <1>5, <2>7, <3>1 DEF RoundsOK
    <3>3. \A e \in b.events : e.round = r.start <=> r.start <= e.seq /\ e.seq <= r.end
      BY <1>5, <2>7, <3>1 DEF RoundsOK
    <3>4. event.round # r.start /\ ~ (event.seq <= r.end)
      BY <1>1, <1>3, <2>1, <2>3, <3>1, <3>2
    <3> QED
      BY <1>1, <1>2, <3>1, <3>2, <3>3, <3>4
  <2>8. \A e \in d.events : e.seq >= seq => e.round = seq
    BY <1>1, <1>2, <2>1
  <2>9. [start |-> d.open, end |-> 0] \in d.rounds
    BY <2>1, <2>4 DEF new
  <2> QED
    BY <1>2, <1>4, <2>1, <2>5, <2>6, <2>7, <2>8, <2>9 DEF Sound, RoundsOK
<1>7. ASSUME kind = "end" PROVE Sound(d)
  <2> DEFINE upd(r) == [r EXCEPT !.end = IF r.start = round THEN seq ELSE @]
  <2> DEFINE open == [start |-> b.open, end |-> 0]
  <2>1. /\ d.rounds = {upd(r) : r \in b.rounds} /\ d.open = 0
        /\ round = b.open /\ event.round = b.open /\ event.classB /\ b.open # 0
    BY <1>2, <1>3, <1>7
  <2>2. ASSUME NEW r \in b.rounds
        PROVE  /\ upd(r).start = r.start
               /\ r.start = b.open => upd(r).end = seq
               /\ r.start # b.open => upd(r).end = r.end /\ r.end # 0
    <3>1. upd(r).start = r.start /\ upd(r).end = IF r.start = b.open THEN seq ELSE r.end
      BY <1>1, <2>1 DEF Round
    <3> QED
      BY <1>5, <3>1 DEF RoundsOK
  <2>3. open \in b.rounds /\ open.start = b.open
    BY <1>5, <2>1 DEF RoundsOK
  <2> HIDE DEF upd, open
  <2>4. \A e \in d.events :
          e.round # 0 => e.round <= e.seq /\ \E r \in d.rounds : r.start = e.round
    <3>1. ASSUME NEW n, \E r \in b.rounds : r.start = n PROVE \E r \in d.rounds : r.start = n
      BY <2>1, <2>2, <3>1
    <3>2. \E r \in d.rounds : r.start = b.open
      BY <2>3, <3>1
    <3>3. ASSUME NEW e \in b.events
          PROVE  e.round # 0 => e.round <= e.seq /\ \E r \in d.rounds : r.start = e.round
      BY <1>5, <3>1 DEF RoundsOK
    <3>4. event.round <= event.seq
      BY <1>1, <1>3, <2>1
    <3> QED
      BY <1>2, <2>1, <3>2, <3>3, <3>4
  <2>5. /\ \A r \in d.rounds : r.start # 0 /\ r.start <= seq
        /\ \A r, q \in d.rounds : r.start = q.start => r = q
        /\ \A r \in d.rounds : r.end # 0
    <3>1. ASSUME NEW r \in d.rounds PROVE r.start # 0 /\ r.start <= seq /\ r.end # 0
      <4>1. PICK x \in b.rounds : r = upd(x)
        BY <2>1
      <4>2. seq # 0 /\ x.start # 0 /\ x.start <= b.nextSeq
        BY <1>1, <1>5 DEF RoundsOK
      <4> QED
        BY <1>1, <2>2, <4>1, <4>2
    <3>2. ASSUME NEW r \in d.rounds, NEW q \in d.rounds, r.start = q.start PROVE r = q
      <4>1. PICK x \in b.rounds, y \in b.rounds : r = upd(x) /\ q = upd(y)
        BY <2>1
      <4>2. x.start = y.start
        BY <2>2, <3>2, <4>1
      <4>3. x = y
        BY <1>5, <4>2 DEF RoundsOK
      <4> QED
        BY <4>1, <4>3
    <3> QED
      BY <3>1, <3>2
  <2>6. ASSUME NEW r \in d.rounds
        PROVE  /\ r.start <= r.end /\ r.end <= seq
               /\ \A e \in d.events : e.round = r.start <=> r.start <= e.seq /\ e.seq <= r.end
    <3>1. PICK x \in b.rounds : r = upd(x)
      BY <2>1
    <3>2. CASE x.start = b.open
      <4>1. r.start = b.open /\ r.end = seq
        BY <2>2, <3>1, <3>2
      <4>2. \A e \in b.events : e.round = b.open <=> b.open <= e.seq
        BY <1>1, <1>5, <2>1 DEF RoundsOK
      <4> QED
        BY <1>1, <1>2, <1>3, <2>1, <4>1, <4>2
    <3>3. CASE x.start # b.open
      <4>1. r.start = x.start /\ r.end = x.end /\ x.end # 0
        BY <2>2, <3>1, <3>3
      <4>2. x.start <= x.end /\ x.end <= b.nextSeq
        BY <1>5, <4>1 DEF RoundsOK
      <4>3. \A e \in b.events : e.round = x.start <=> x.start <= e.seq /\ e.seq <= x.end
        BY <1>5, <4>1 DEF RoundsOK
      <4>4. event.round # x.start /\ ~ (event.seq <= x.end)
        BY <1>1, <1>3, <2>1, <3>3, <4>2
      <4> QED
        BY <1>1, <1>2, <4>1, <4>2, <4>3, <4>4
    <3> QED
      BY <3>2, <3>3
  <2>7. d.nextSeq = seq /\ d.open = 0
    BY <1>2, <2>1
  <2> HIDE DEF seq, round
  <2>8. /\ \A r \in d.rounds : r.start # 0 /\ r.start <= d.nextSeq
        /\ \A r \in d.rounds : r.end = 0 => r.start = d.open
        /\ d.open # 0 =>
             /\ [start |-> d.open, end |-> 0] \in d.rounds
             /\ \A e \in d.events : e.seq >= d.open => e.round = d.open
    BY <2>5, <2>7
  <2>9. \A r \in d.rounds : r.end # 0 =>
          /\ r.start <= r.end /\ r.end <= d.nextSeq
          /\ \A e \in d.events : e.round = r.start <=> r.start <= e.seq /\ e.seq <= r.end
    BY <2>6, <2>7
  <2>10. RoundsOK(d)
    BY <2>4, <2>5, <2>8, <2>9 DEF RoundsOK
  <2> QED
    BY <1>4, <2>10 DEF Sound
<1>8. ASSUME kind \notin {"start", "end"} PROVE Sound(d)
  <2>1. /\ d.rounds = b.rounds /\ d.open = b.open /\ round = b.open /\ event.round = b.open
    BY <1>2, <1>3, <1>8
  <2>2. b.open # 0 => \E r \in b.rounds : r.start = b.open
    BY <1>5 DEF RoundsOK
  <2>3. \A e \in d.events :
          e.round # 0 => e.round <= e.seq /\ \E r \in d.rounds : r.start = e.round
    BY <1>1, <1>2, <1>3, <1>5, <2>1, <2>2 DEF RoundsOK
  <2>4. /\ \A r \in d.rounds : r.start # 0 /\ r.start <= seq
        /\ \A r, q \in d.rounds : r.start = q.start => r = q
        /\ \A r \in d.rounds : r.end = 0 => r.start = d.open
    BY <1>1, <1>5, <2>1 DEF RoundsOK
  <2>5. ASSUME NEW r \in d.rounds, r.end # 0
        PROVE  /\ r.start <= r.end /\ r.end <= seq
               /\ \A e \in d.events : e.round = r.start <=> r.start <= e.seq /\ e.seq <= r.end
    <3>1. r \in b.rounds /\ r.start <= r.end /\ r.end <= b.nextSeq
      BY <1>5, <2>1, <2>5 DEF RoundsOK
    <3>2. \A e \in b.events : e.round = r.start <=> r.start <= e.seq /\ e.seq <= r.end
      BY <1>5, <2>1, <2>5 DEF RoundsOK
    <3>3. r.start # b.open
      <4>1. SUFFICES ASSUME r.start = b.open PROVE FALSE
        OBVIOUS
      <4>2. b.open # 0
        BY <1>5, <3>1, <4>1 DEF RoundsOK
      <4>3. [start |-> b.open, end |-> 0] \in b.rounds
        BY <1>5, <4>2 DEF RoundsOK
      <4>4. r = [start |-> b.open, end |-> 0]
        BY <1>5, <3>1, <4>1, <4>3 DEF RoundsOK
      <4> QED
        BY <2>5, <4>4
    <3>4. event.round # r.start /\ ~ (event.seq <= r.end)
      BY <1>1, <1>3, <2>1, <3>1, <3>3
    <3> QED
      BY <1>1, <1>2, <3>1, <3>2, <3>4
  <2>6. d.open # 0 => \A e \in d.events : e.seq >= d.open => e.round = d.open
    BY <1>1, <1>2, <1>3, <1>5, <2>1 DEF RoundsOK
  <2>7. d.open # 0 => [start |-> d.open, end |-> 0] \in d.rounds
    BY <1>5, <2>1 DEF RoundsOK
  <2> QED
    BY <1>2, <1>4, <2>1, <2>3, <2>4, <2>5, <2>6, <2>7 DEF Sound, RoundsOK
<1> QED
  BY <1>6, <1>7, <1>8 DEF d

(***************************************************************************)
(* The readers.                                                            *)
(***************************************************************************)
\* A round is open in the buffer while the run is in one.
PhaseInv == ~buf.closed => (phase = "round" <=> buf.open # 0)

StreamInv == BaseInv /\ Sound(buf) /\ PhaseInv /\ StreamComplete

\* Flags and readers say nothing about rounds.
LEMMA SameSound ==
  ASSUME NEW b, NEW d, Sound(b), Ahead(d),
         d.events = b.events \/ d.events = {},
         d.rounds = b.rounds, d.open = b.open, d.nextSeq = b.nextSeq
  PROVE  Sound(d)
<1>1. RoundsOK(d)
  BY SameRounds DEF Sound
<1> QED
  BY <1>1 DEF Sound, Down, Blocked

LEMMA PublishSound ==
  ASSUME StreamInv, NEW kind \in {"start", "chunk", "end", "terminal", "state"}, Publish(kind),
         kind = "start" => buf.open = 0, kind = "end" => buf.open # 0
  PROVE  /\ Sound(buf') /\ StreamComplete' /\ buf'.closed = buf.closed
         /\ buf'.open # 0 <=> kind = "start" \/ (kind # "end" /\ buf.open # 0)
<1> DEFINE b == Appended(buf, kind)
<1>1. PICK d \in Collect(b) : buf' = d
  BY DEF Publish
<1>2. /\ Bounded(b) /\ b.cursor = buf.cursor /\ b.closed = buf.closed
      /\ b.passed = buf.passed
  BY AppendedBounded DEF StreamInv, BaseInv
<1>3. b.open = CASE kind = "start" -> buf.nextSeq + 1 [] kind = "end" -> 0 [] OTHER -> buf.open
  BY DEF Appended, StreamInv, BaseInv, TypeOK, Buffer
<1>4. Sound(b)
  BY AppendedSound DEF StreamInv, BaseInv
<1> HIDE DEF b
<1>5. Sound(d) /\ Collected(b, d)
  BY <1>2, <1>4, CollectSound, CollectBounded
<1>6. StreamComplete'
  BY <1>1, <1>2, <1>5 DEF StreamInv, StreamComplete, Collected, Publish
<1>7. buf.nextSeq + 1 # 0
  BY DEF StreamInv, BaseInv, TypeOK, Buffer
<1> QED
  BY <1>1, <1>2, <1>3, <1>5, <1>6, <1>7 DEF Collected

LEMMA PublisherSound ==
  ASSUME StreamInv, Publisher \/ Timer
  PROVE  Sound(buf') /\ PhaseInv' /\ StreamComplete'
<1>1. buf \in Buffer /\ Ahead(buf)
  BY DEF StreamInv, BaseInv, TypeOK, Sound
<1>2. ASSUME NEW kind, Publish(kind) PROVE ~buf.closed
  BY <1>2 DEF Publish
<1>3. CASE RunStarted
  <2>1. buf.open = 0 /\ ~buf.closed
    BY <1>2, <1>3 DEF RunStarted, StreamInv, PhaseInv
  <2> QED
    BY <1>3, <2>1, PublishSound DEF RunStarted, PhaseInv
<1>4. CASE Chunk
  <2>1. buf.open # 0 /\ ~buf.closed
    BY <1>2, <1>4 DEF Chunk, StreamInv, PhaseInv
  <2> QED
    BY <1>4, <2>1, PublishSound DEF Chunk, PhaseInv
<1>5. CASE RunOutcome
  <2>1. buf.open # 0 /\ ~buf.closed
    BY <1>2, <1>5 DEF RunOutcome, StreamInv, PhaseInv
  <2> QED
    BY <1>5, <2>1, PublishSound DEF RunOutcome, PhaseInv
<1>6. CASE JobTerminal
  <2>1. buf.open = 0 /\ ~buf.closed
    BY <1>2, <1>6 DEF JobTerminal, StreamInv, PhaseInv
  <2> QED
    BY <1>6, <2>1, PublishSound DEF JobTerminal, PhaseInv
<1>7. CASE State
  BY <1>2, <1>7, PublishSound DEF State, PhaseInv, StreamInv
<1>8. CASE Stitched
  <2>1. buf.open = 0 /\ ~buf.closed
    BY <1>2, <1>8 DEF Stitched, StreamInv, PhaseInv
  <2> QED
    BY <1>8, <2>1, PublishSound DEF Stitched, PhaseInv
<1>9. CASE ResumeGC
  <2>1. /\ buf'.events = buf.events /\ buf'.rounds = buf.rounds /\ buf'.open = buf.open
        /\ buf'.nextSeq = buf.nextSeq /\ buf'.readers = buf.readers
        /\ buf'.cursor = buf.cursor /\ buf'.headSeq = buf.headSeq /\ buf'.closed = buf.closed
        /\ buf'.passed = buf.passed
    BY <1>1, <1>9 DEF ResumeGC, Buffer
  <2>2. Sound(buf')
    BY <1>1, <2>1, SameSound DEF StreamInv, Ahead
  <2> QED
    BY <1>9, <2>1, <2>2 DEF ResumeGC, StreamInv, PhaseInv, StreamComplete
<1>10. CASE Timer
  <2>1. /\ buf'.events = buf.events /\ buf'.rounds = buf.rounds /\ buf'.open = buf.open
        /\ buf'.nextSeq = buf.nextSeq /\ buf'.readers = buf.readers
        /\ buf'.cursor = buf.cursor /\ buf'.headSeq = buf.headSeq /\ buf'.closed = buf.closed
        /\ buf'.passed = buf.passed
    BY <1>1, <1>10 DEF Timer, SuspensionExpires, GraceExpires, Buffer
  <2>2. Sound(buf')
    BY <1>1, <2>1, SameSound DEF StreamInv, Ahead
  <2> QED
    BY <1>10, <2>1, <2>2 DEF Timer, SuspensionExpires, GraceExpires, StreamInv, PhaseInv,
                             StreamComplete
<1>11. CASE CloseBuffer
  <2>1. /\ buf'.events = {} /\ buf'.rounds = buf.rounds /\ buf'.open = buf.open
        /\ buf'.nextSeq = buf.nextSeq /\ buf'.readers = buf.readers
        /\ buf'.cursor = buf.cursor /\ buf'.headSeq = buf.headSeq /\ buf'.closed
        /\ buf'.passed = buf.passed
    BY <1>1, <1>11 DEF CloseBuffer, Buffer
  <2>2. Sound(buf')
    BY <1>1, <2>1, SameSound DEF StreamInv, Ahead
  <2> QED
    BY <1>11, <2>1, <2>2 DEF CloseBuffer, StreamInv, PhaseInv, StreamComplete
<1> QED
  BY <1>3, <1>4, <1>5, <1>6, <1>7, <1>8, <1>9, <1>10, <1>11 DEF Publisher

LEMMA SubscribeSound ==
  ASSUME StreamInv, NEW c \in Client, NEW s \in Nat, Subscribe(c, s), batch[c] = <<>>,
         UNCHANGED <<phase, batch>>
  PROVE  Sound(buf') /\ PhaseInv' /\ StreamComplete'
<1>1. /\ buf'.events = buf.events /\ buf'.rounds = buf.rounds /\ buf'.open = buf.open
      /\ buf'.nextSeq = buf.nextSeq /\ buf'.readers = buf.readers \cup {c}
      /\ buf'.cursor = [buf.cursor EXCEPT ![c] = s] /\ buf.cursor \in [Client -> Nat]
      /\ buf'.headSeq = buf.headSeq /\ buf'.closed = buf.closed
      /\ buf.readers \subseteq Client /\ buf'.passed = buf.passed \ {c}
  BY DEF Subscribe, StreamInv, BaseInv, TypeOK, Buffer
<1>2. buf.headSeq <= s
  BY DEF Subscribe, Accepts
<1>3. Ahead(buf')
  BY <1>1, <1>2 DEF StreamInv, Sound, Ahead
<1>4. Sound(buf')
  BY <1>1, <1>3, SameSound DEF StreamInv
<1>5. StreamComplete'
  <2>1. DOMAIN batch'[c] = {}
    OBVIOUS
  <2>2. ASSUME NEW e \in Client \ buf'.passed, NEW k \in DOMAIN batch'[e]
        PROVE  batch'[e][k] = buf'.cursor[e] + k
    <3>1. e # c
      BY <2>1
    <3> QED
      BY <1>1, <3>1 DEF StreamInv, StreamComplete
  <2> QED
    BY <2>2 DEF StreamComplete
<1> QED
  BY <1>1, <1>4, <1>5 DEF StreamInv, PhaseInv

LEMMA SubscriptionSound ==
  ASSUME StreamInv, NEW c \in Client, Reload(c) \/ Connect(c) \/ RetrySeq(c) \/ Resubscribe(c)
  PROVE  Sound(buf') /\ PhaseInv' /\ StreamComplete'
<1>1. batch[c] = <<>> /\ last[c] \in Nat /\ fresh[c] \in Nat /\ UNCHANGED <<phase, batch>>
  BY DEF StreamInv, BaseInv, BatchHeld, TypeOK, Reload, Connect, RetrySeq, Resubscribe
<1>2. CASE UNCHANGED buf
  BY <1>1, <1>2 DEF StreamInv, PhaseInv, StreamComplete
<1>3. CASE Subscribe(c, last[c]) \/ Subscribe(c, fresh[c])
  BY <1>1, <1>3, SubscribeSound
<1> QED
  BY <1>2, <1>3 DEF Reload, Connect, RetrySeq, Resubscribe

\* What a live reader reads follows its cursor, which the head has not passed.
LEMMA ReadSound ==
  ASSUME BufferAssumption, StreamInv, NEW c \in Client, Read(c)
  PROVE  Sound(buf') /\ PhaseInv' /\ StreamComplete'
<1> DEFINE rest == {s \in Held(buf) : s > buf.cursor[c]}
<1>1. /\ buf \in Buffer /\ buf.cursor \in [Client -> Nat] /\ buf.nextSeq \in Nat
      /\ buf.headSeq \in Nat /\ buf.headSeq <= buf.nextSeq
      /\ batch \in [Client -> Seq(Nat)] /\ batch[c] = <<>>
      /\ phase' = phase /\ ~buf.closed /\ c \in buf.readers
  BY DEF StreamInv, BaseInv, TypeOK, BatchHeld, Bounded, Buffer, Read
<1>2. CASE rest # {}
  <2>1. /\ batch' = [batch EXCEPT ![c] = FirstOf(rest, BatchSize)]
        /\ buf' = buf
    BY <1>2 DEF Read
  <2>2. ASSUME c \notin buf.passed
        PROVE  \A k \in DOMAIN FirstOf(rest, BatchSize) :
                 FirstOf(rest, BatchSize)[k] = buf.cursor[c] + k
    <3>1. buf.headSeq <= buf.cursor[c] /\ buf.cursor[c] < buf.nextSeq
      BY <1>1, <2>2 DEF StreamInv, Sound, Ahead, Read, Readable
    <3>2. Larger(buf.cursor[c], buf.headSeq) = buf.cursor[c]
      BY <1>1, <3>1 DEF Larger
    <3>3. rest = buf.cursor[c] + 1 .. buf.nextSeq
      <4>1. Bounded(buf)
        BY DEF StreamInv, BaseInv
      <4> QED
        BY <1>1, <3>2, <4>1, RestIsInterval
    <3>4. BatchSize \in Nat \ {0} /\ buf.cursor[c] \in Nat
      BY <1>1 DEF BufferAssumption
    <3>5. \A k \in DOMAIN FirstOf(buf.cursor[c] + 1 .. buf.nextSeq, BatchSize) :
            FirstOf(buf.cursor[c] + 1 .. buf.nextSeq, BatchSize)[k] = buf.cursor[c] + k
      <4> DEFINE x == buf.cursor[c]
      <4> DEFINE y == buf.nextSeq
      <4>1. x \in Nat /\ y \in Nat /\ x < y
        BY <1>1, <3>1, <3>4
      <4> HIDE DEF x, y
      <4>2. \A k \in DOMAIN FirstOf(x + 1 .. y, BatchSize) :
              FirstOf(x + 1 .. y, BatchSize)[k] = x + k
        BY <3>4, <4>1, FirstOfInterval
      <4> QED
        BY <4>2 DEF x, y
    <3> HIDE DEF rest
    <3> QED
      BY <3>3, <3>5
  <2> HIDE DEF rest
  <2>3. StreamComplete'
    BY <1>1, <2>1, <2>2 DEF StreamInv, StreamComplete
  <2> QED
    BY <1>1, <2>1, <2>3 DEF StreamInv, PhaseInv
<1>3. CASE rest = {}
  <2>1. buf' = [buf EXCEPT !.cursor[c] = buf.nextSeq] /\ UNCHANGED <<batch, pc>>
    BY <1>3 DEF Read
  <2>2. /\ buf'.events = buf.events /\ buf'.rounds = buf.rounds /\ buf'.open = buf.open
        /\ buf'.nextSeq = buf.nextSeq /\ buf'.readers = buf.readers
        /\ buf'.cursor = [buf.cursor EXCEPT ![c] = buf.nextSeq]
        /\ buf'.headSeq = buf.headSeq /\ buf'.closed = buf.closed
        /\ buf.readers \subseteq Client /\ buf'.passed = buf.passed
    BY <1>1, <2>1 DEF Buffer
  <2>3. Ahead(buf')
    BY <1>1, <2>2 DEF StreamInv, Sound, Ahead
  <2>4. Sound(buf')
    BY <2>2, <2>3, SameSound DEF StreamInv
  <2>5. DOMAIN batch[c] = {}
    BY <1>1
  <2>6. StreamComplete'
    <3>1. ASSUME NEW d \in Client \ buf.passed, NEW k \in DOMAIN batch[d]
          PROVE  d # c /\ batch[d][k] = buf.cursor[d] + k
      BY <2>5 DEF StreamInv, StreamComplete
    <3>2. batch' = batch /\ buf'.passed = buf.passed
      BY <2>1, <2>2
    <3>3. ASSUME NEW d \in Client, d # c PROVE buf'.cursor[d] = buf.cursor[d]
      BY <1>1, <2>2, <3>3
    <3> QED
      BY <3>1, <3>2, <3>3 DEF StreamComplete
  <2> QED
    BY <1>1, <2>2, <2>4, <2>6 DEF StreamInv, PhaseInv
<1> QED
  BY <1>2, <1>3

LEMMA WritingSound ==
  ASSUME StreamInv, NEW c \in Client, Write(c) \/ WriteFails(c) \/ ReadClosed(c) \/ Disconnect(c)
  PROVE  Sound(buf') /\ PhaseInv' /\ StreamComplete'
<1>1. buf' = buf /\ phase' = phase /\ (batch' = batch \/ batch' = [batch EXCEPT ![c] = <<>>])
  BY DEF Write, WriteFails, ReadClosed, Disconnect
<1>2. batch \in [Client -> Seq(Nat)]
  BY DEF StreamInv, BaseInv, TypeOK
<1>3. StreamComplete'
  <2>1. CASE batch' = batch
    BY <1>1, <2>1 DEF StreamInv, StreamComplete
  <2>2. CASE batch' = [batch EXCEPT ![c] = <<>>]
    <3>1. batch'[c] = <<>> /\ \A d \in Client \ {c} : batch'[d] = batch[d]
      BY <1>2, <2>2
    <3>2. DOMAIN batch'[c] = {}
      BY <3>1
    <3> QED
      BY <1>1, <3>1, <3>2 DEF StreamInv, StreamComplete
  <2> QED
    BY <1>1, <2>1, <2>2
<1> QED
  BY <1>1, <1>3 DEF StreamInv, PhaseInv

\* An acknowledgement moves the cursor forward, for a reader not in passed by one.
LEMMA AckSound ==
  ASSUME StreamInv, NEW c \in Client, Ack(c)
  PROVE  Sound(buf') /\ PhaseInv' /\ StreamComplete'
<1> DEFINE n == Larger(buf.cursor[c], AckedTo(c))
<1> DEFINE moved == [buf EXCEPT !.cursor[c] = n]
<1>1. /\ buf \in Buffer /\ buf.cursor \in [Client -> Nat] /\ batch \in [Client -> Seq(Nat)]
      /\ batch[c] # <<>> /\ phase' = phase /\ buf.headSeq \in Nat
      /\ buf.readers \subseteq Client
  BY DEF StreamInv, BaseInv, TypeOK, BatchHeld, Buffer, Ack
<1>2. 1 \in DOMAIN batch[c] /\ AckedTo(c) = batch[c][1] /\ AckedTo(c) \in Nat
  BY <1>1, HeadTailProperties, LenProperties DEF AckedTo
<1>3. buf.cursor[c] \in Nat /\ n \in Nat /\ buf.cursor[c] <= n
  BY <1>1, <1>2, LargerType
<1>4. ASSUME c \notin buf.passed PROVE n = buf.cursor[c] + 1
  <2>1. AckedTo(c) = buf.cursor[c] + 1
    BY <1>2, <1>4 DEF StreamInv, StreamComplete
  <2> QED
    BY <1>3, <2>1 DEF Larger
<1> HIDE DEF n
<1>5. /\ moved \in Buffer /\ moved.events = buf.events /\ moved.rounds = buf.rounds
      /\ moved.open = buf.open /\ moved.nextSeq = buf.nextSeq
      /\ moved.readers = buf.readers /\ moved.headSeq = buf.headSeq
      /\ moved.closed = buf.closed /\ moved.cursor = [buf.cursor EXCEPT ![c] = n]
      /\ moved.passed = buf.passed
  BY <1>1, <1>3 DEF Buffer
<1>6. \E d \in Collect(moved) : buf' = d
  BY <1>1 DEF Ack, n
<1> HIDE DEF moved
<1>7. Bounded(moved)
  BY <1>5, SameEventsBounded DEF StreamInv, BaseInv
<1>8. Ahead(moved)
  BY <1>1, <1>3, <1>5 DEF StreamInv, Sound, Ahead
<1>9. Sound(moved)
  BY <1>5, <1>8, SameSound DEF StreamInv
<1>10. Sound(buf') /\ Collected(moved, buf')
  BY <1>6, <1>7, <1>9, CollectSound, CollectBounded
<1>11. /\ batch' = [batch EXCEPT ![c] = Tail(batch[c])]
       /\ buf'.cursor = [buf.cursor EXCEPT ![c] = n] /\ buf.passed \subseteq buf'.passed
  BY <1>5, <1>10 DEF Ack, Collected
<1>12. ASSUME c \notin buf.passed, NEW k \in DOMAIN Tail(batch[c])
       PROVE  Tail(batch[c])[k] = n + k
  <2>1. /\ k \in Nat /\ k + 1 \in DOMAIN batch[c] /\ Tail(batch[c])[k] = batch[c][k + 1]
    BY <1>1, HeadTailProperties, LenProperties
  <2>2. batch[c][k + 1] = buf.cursor[c] + (k + 1)
    BY <1>12, <2>1 DEF StreamInv, StreamComplete
  <2>3. buf.cursor[c] + (k + 1) = n + k
    BY <1>3, <1>4, <1>12, <2>1
  <2> QED
    BY <2>1, <2>2, <2>3
<1>13. StreamComplete'
  BY <1>1, <1>11, <1>12 DEF StreamInv, StreamComplete
<1> QED
  BY <1>1, <1>5, <1>10, <1>13 DEF StreamInv, PhaseInv, Collected

LEMMA CloseReaderSound ==
  ASSUME StreamInv, NEW c \in Client, CloseReader(c)
  PROVE  Sound(buf') /\ PhaseInv' /\ StreamComplete'
<1> DEFINE rest == buf.readers \ {c}
<1> DEFINE g == buf.grace \/ (rest = {} /\ ~buf.terminal)
<1> DEFINE left == [buf EXCEPT !.readers = rest, !.grace = g]
<1>1. buf \in Buffer /\ UNCHANGED <<phase, batch>>
  BY DEF StreamInv, BaseInv, TypeOK, CloseReader
<1>2. CASE c \in buf.readers
  <2>1. g \in BOOLEAN /\ rest \in SUBSET Client /\ rest \subseteq buf.readers
    BY <1>1 DEF Buffer
  <2>2. \E d \in Collect(left) : buf' = d
    BY <1>1, <1>2 DEF CloseReader, Buffer
  <2> HIDE DEF g, rest
  <2>3. /\ left \in Buffer /\ left.events = buf.events /\ left.rounds = buf.rounds
        /\ left.open = buf.open /\ left.nextSeq = buf.nextSeq /\ left.readers = rest
        /\ left.headSeq = buf.headSeq /\ left.closed = buf.closed /\ left.cursor = buf.cursor
        /\ left.passed = buf.passed
    BY <1>1, <2>1 DEF Buffer
  <2> HIDE DEF left
  <2>4. Bounded(left)
    BY <2>3, SameEventsBounded DEF StreamInv, BaseInv
  <2>5. Ahead(left)
    BY <2>1, <2>3 DEF StreamInv, Sound, Ahead
  <2>6. Sound(left)
    BY <2>3, <2>5, SameSound DEF StreamInv
  <2>7. Sound(buf') /\ Collected(left, buf')
    BY <2>2, <2>4, <2>6, CollectSound, CollectBounded
  <2> QED
    BY <1>1, <2>3, <2>7 DEF StreamInv, PhaseInv, StreamComplete, Collected
<1>3. CASE c \notin buf.readers
  BY <1>1, <1>3 DEF CloseReader, StreamInv, PhaseInv, StreamComplete
<1> QED
  BY <1>2, <1>3

LEMMA StreamInit ==
  ASSUME Init
  PROVE  StreamInv
<1>1. BaseInv
  BY BaseInit
<1>2. Sound(buf)
  BY DEF Init, Sound, RoundsOK, Down, Ahead
<1>3. PhaseInv /\ StreamComplete
  BY DEF Init, PhaseInv, StreamComplete
<1> QED
  BY <1>1, <1>2, <1>3 DEF StreamInv

LEMMA StreamNext ==
  ASSUME BufferAssumption, StreamInv, [Next]_vars
  PROVE  StreamInv'
<1>1. BaseInv'
  BY BaseNext DEF StreamInv
<1>2. CASE Publisher \/ Timer
  BY <1>1, <1>2, PublisherSound DEF StreamInv
<1>3. ASSUME NEW c \in Client, Connection(c) \/ Reload(c) \/ Connect(c) \/ Disconnect(c)
      PROVE  Sound(buf') /\ PhaseInv' /\ StreamComplete'
  BY <1>3, SubscriptionSound, ReadSound, WritingSound, AckSound, CloseReaderSound DEF Connection
<1>4. CASE UNCHANGED vars
  BY <1>1, <1>4 DEF vars, StreamInv, PhaseInv, StreamComplete
<1> QED
  BY <1>1, <1>2, <1>3, <1>4 DEF StreamInv, Next

\* Spec keeps the invariant of the streams, late tool results included: between two
\* collections nothing held is released but what lies behind a late event.
THEOREM StreamInvariant == Spec => []StreamInv
<1>1. Init => StreamInv
  BY StreamInit
<1>2. StreamInv /\ [Next]_vars => StreamInv'
  BY StreamNext, BufferAssumption
<1> QED
  BY <1>1, <1>2, PTL DEF Spec

\* gcLocked never drops an event that a connected reader has not acknowledged, however
\* readers come, go and are evicted and tool results come late, but for the readers that
\* were connected while the hard cap forced a late event out.
THEOREM LiveReadersKeepUp == Spec => []LiveReaderNotOvertaken
<1>1. StreamInv => LiveReaderNotOvertaken
  BY DEF StreamInv, Sound, Ahead, LiveReaderNotOvertaken
<1> QED
  BY <1>1, StreamInvariant, PTL

\* What a connection is about to write continues what it has acknowledged, with no event
\* missing and none twice, late tool results included, with the same exception.
THEOREM StreamsAreComplete == Spec => []StreamComplete
<1>1. StreamInv => StreamComplete
  BY DEF StreamInv
<1> QED
  BY <1>1, StreamInvariant, PTL
=============================================================================
