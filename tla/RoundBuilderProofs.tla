-------------------------- MODULE RoundBuilderProofs --------------------------
(***************************************************************************)
(* The history of an ACP Agent is kept: every call in it has its result    *)
(* once and in place, every prompt that was taken is in it, and a Run that *)
(* reports success finds on disk what it was given, for any number of      *)
(* Runs, updates, faults and stops (HistoryHolds).                         *)
(*                                                                         *)
(* PhaseInv says who may be at work beside whom: the dispatcher, the Run's *)
(* close-out and a stop work for the Run that holds the semaphore, and     *)
(* nobody works any more for one that has succeeded.  QueueInv and         *)
(* HolderInv make the appends of two writers harmless: only whole rounds   *)
(* are on their way, and a call is in one place - the open round, a round  *)
(* on its way, or the disk.  So DiskInv is kept by every append: the       *)
(* results stand behind the round that declares them, only the last append *)
(* that was torn is incomplete, and no prompt stands behind it, which is   *)
(* why the cut of BeginRun takes no prompt away.                           *)
(*                                                                         *)
(* ResultInv follows a result from the update that brings it to the disk.  *)
(* While a Run may still succeed, what it was given is on disk or on its   *)
(* way; once it has, its results are Safe: before every incomplete round,  *)
(* so that no later cut reaches them.  ViewInv compares this with what the *)
(* handlers were told: the view of a Run that prompts is that of its       *)
(* builder but for the notice that the dispatcher has in its hands.        *)
(*                                                                         *)
(* A call that is declared again once its round is flushed, or behind the  *)
(* last round, is recorded as stray: from then on it may be on disk twice, *)
(* and the second copy can hide a round with a result missing from the     *)
(* cut.  Until then HistoryInv holds, which has what follows the disk;     *)
(* what was shown (ViewInv) needs no exception but in what it takes from   *)
(* the disk.                                                               *)
(***************************************************************************)
EXTENDS RoundBuilder, SequenceTheorems, WellFoundedInduction, TLAPS

(***************************************************************************)
(* Sequences of rows.                                                      *)
(***************************************************************************)
Ids == 0 .. MaxRuns
UserRow == [kind : {"user"}, of : RunIds]
AssistantRow == [kind : {"assistant"}, calls : Seq(Tools)]
ToolRow == [kind : {"tool"}, id : Tools, real : BOOLEAN]
Row == UserRow \cup AssistantRow \cup ToolRow

IsUser(r) == r.kind = "user"
IsCall(r) == r.kind = "assistant"
IsTool(r) == r.kind = "tool"

\* No call of a round is declared twice.
Distinct(calls) == \A i, j \in DOMAIN calls : calls[i] = calls[j] => i = j

\* The result at t is the one that the round at i declares for that place.
Answers(rows, t, i) ==
  /\ IsCall(rows[i]) /\ t - i \in DOMAIN rows[i].calls
  /\ rows[t].id = rows[i].calls[t - i]

\* A round, or what an append that failed has left of it.
Piece(s) == s # <<>> =>
  /\ IsCall(s[1]) /\ Distinct(s[1].calls) /\ Len(s) <= 1 + Len(s[1].calls)
  /\ \A t \in 2 .. Len(s) : IsTool(s[t]) /\ s[t].id = s[1].calls[t - 1]

Whole(s) == Piece(s) /\ (s # <<>> => Len(s) = 1 + Len(s[1].calls))

\* The call is declared in the rows.
Claims(rows, id) ==
  \E i \in DOMAIN rows : IsCall(rows[i]) /\ \E j \in DOMAIN rows[i].calls : rows[i].calls[j] = id

\* Every result is where its declaration says, and no call is declared twice.
Ordered(rows) ==
  /\ \A i \in DOMAIN rows : IsCall(rows[i]) => Distinct(rows[i].calls)
  /\ \A i, j \in DOMAIN rows : IsCall(rows[i]) /\ IsCall(rows[j]) =>
        \A k \in DOMAIN rows[i].calls, l \in DOMAIN rows[j].calls :
           rows[i].calls[k] = rows[j].calls[l] => i = j
  /\ \A t \in DOMAIN rows : IsTool(rows[t]) => \E i \in DOMAIN rows : Answers(rows, t, i)

\* The round at i is followed by all its results.
PairedAt(rows, i) ==
  /\ Len(rows) >= i + Len(rows[i].calls)
  /\ \A j \in DOMAIN rows[i].calls : IsTool(rows[i + j]) /\ rows[i + j].id = rows[i].calls[j]
Broken(rows, i) == i \in DOMAIN rows /\ IsCall(rows[i]) /\ ~PairedAt(rows, i)
AllPaired(rows) == \A i \in DOMAIN rows : ~Broken(rows, i)
\* No prompt follows a round with a result missing.
PromptsBehind(rows) == \A i, u \in DOMAIN rows : Broken(rows, i) /\ IsUser(rows[u]) => u < i

Has(rows, id, real) == \E i \in DOMAIN rows : rows[i] = Result(id, real)
\* A result that no cut takes away.
Safe(rows, id) ==
  \E i \in DOMAIN rows : rows[i] = Result(id, TRUE) /\ \A o \in DOMAIN rows : Broken(rows, o) => i < o

\* The prompts on disk are those of the set, in their order.
Prompted(rows, set) ==
  LET Prompts == {i \in DOMAIN rows : rows[i].kind = "user"} IN
  /\ {rows[i].of : i \in Prompts} = set
  /\ \A i, j \in Prompts : i < j => rows[i].of < rows[j].of

-----------------------------------------------------------------------------
\* A row is a prompt, a declaration or a result.
LEMMA RowKinds ==
  ASSUME NEW r \in Row
  PROVE  /\ ~(IsUser(r) /\ IsCall(r)) /\ ~(IsUser(r) /\ IsTool(r)) /\ ~(IsCall(r) /\ IsTool(r))
         /\ IsUser(r) \/ IsCall(r) \/ IsTool(r)
         /\ IsUser(r) => r.of \in RunIds
         /\ IsCall(r) => r.calls \in Seq(Tools)
         /\ IsTool(r) => r.id \in Tools /\ r.real \in BOOLEAN
BY DEF Row, UserRow, AssistantRow, ToolRow, IsUser, IsCall, IsTool

LEMMA Makers ==
  /\ \A n \in RunIds : User(n) \in Row /\ IsUser(User(n)) /\ User(n).of = n
  /\ \A calls \in Seq(Tools) : Assistant(calls) \in Row /\ IsCall(Assistant(calls)) /\ Assistant(calls).calls = calls
  /\ \A id \in Tools, real \in BOOLEAN :
        Result(id, real) \in Row /\ IsTool(Result(id, real)) /\ Result(id, real).id = id
BY DEF Row, UserRow, AssistantRow, ToolRow, IsUser, IsCall, IsTool, User, Assistant, Result

\* Two results are the same row when they are of the same call and both real or not.
LEMMA ResultsDiffer ==
  /\ \A id, jd : \A x, y \in BOOLEAN : Result(id, x) = Result(jd, y) <=> id = jd /\ (x <=> y)
  /\ \A id, real : IsTool(Result(id, real)) /\ Result(id, real).id = id
BY DEF Result, IsTool

\* A set of positions that is not empty has a first one.
LEMMA FirstExists ==
  ASSUME NEW S \in SUBSET Nat, S # {}
  PROVE  \E m \in S : \A s \in S : m <= s
<1> DEFINE R == OpToRel(<, Nat)
<1>1. \E x \in S : \A y \in S : ~ (<<y, x>> \in R)
  <2> HIDE DEF R
  <2> QED
    BY NatLessThanWellFounded, WFMin DEF R
<1>2. PICK x \in S : \A y \in S : ~ (y < x)
  BY <1>1 DEF OpToRel
<1> QED
  BY <1>2

\* What is appended to rows is found behind them.
LEMMA Joined ==
  ASSUME NEW d \in Seq(Row), NEW s \in Seq(Row)
  PROVE  /\ d \o s \in Seq(Row) /\ Len(d \o s) = Len(d) + Len(s)
         /\ \A i \in DOMAIN d : i \in DOMAIN (d \o s) /\ (d \o s)[i] = d[i]
         /\ \A i \in DOMAIN s : Len(d) + i \in DOMAIN (d \o s) /\ (d \o s)[Len(d) + i] = s[i]
         /\ \A i \in DOMAIN (d \o s) :
               \/ i \in DOMAIN d
               \/ i - Len(d) \in DOMAIN s /\ (d \o s)[i] = s[i - Len(d)] /\ i > Len(d)
OBVIOUS

\* What a piece is made of: its declaration first, then results of that declaration.
LEMMA PieceRows ==
  ASSUME NEW s \in Seq(Row), Piece(s), NEW i \in DOMAIN s
  PROVE  /\ IsCall(s[1]) /\ s[1].calls \in Seq(Tools)
         /\ IsCall(s[i]) => i = 1
         /\ IsTool(s[i]) => i > 1 /\ Answers(s, i, 1)
         /\ ~IsUser(s[i])
<1>1. s # <<>> /\ 1 \in DOMAIN s
  OBVIOUS
<1>2. IsCall(s[1]) /\ s[1].calls \in Seq(Tools)
  BY <1>1, RowKinds DEF Piece
<1>3. CASE i = 1
  BY <1>2, <1>3, RowKinds
<1>4. CASE i # 1
  <2>1. i \in 2 .. Len(s)
    BY <1>4
  <2>2. IsTool(s[i]) /\ s[i].id = s[1].calls[i - 1]
    BY <1>1, <2>1 DEF Piece
  <2>3. i - 1 \in DOMAIN s[1].calls
    BY <1>1, <1>2, <2>1 DEF Piece
  <2> QED
    BY <1>2, <1>4, <2>1, <2>2, <2>3, RowKinds DEF Answers
<1> QED
  BY <1>3, <1>4

\* A whole round is answered.
LEMMA WholeIsPaired ==
  ASSUME NEW s \in Seq(Row), Whole(s), s # <<>>
  PROVE  PairedAt(s, 1)
<1>1. s[1].calls \in Seq(Tools)
  BY PieceRows DEF Whole
<1>2. Len(s) = 1 + Len(s[1].calls)
  BY DEF Whole
<1>3. ASSUME NEW j \in DOMAIN s[1].calls
      PROVE  IsTool(s[1 + j]) /\ s[1 + j].id = s[1].calls[j]
  <2>1. 1 + j \in 2 .. Len(s) /\ (1 + j) - 1 = j
    BY <1>1, <1>2
  <2> QED
    BY <2>1 DEF Whole, Piece
<1> QED
  BY <1>2, <1>3 DEF PairedAt

\* What an append leaves alone.
LEMMA JoinKeeps ==
  ASSUME NEW d \in Seq(Row), NEW s \in Seq(Row)
  PROVE  /\ \A i \in DOMAIN d : IsCall(d[i]) /\ PairedAt(d, i) => PairedAt(d \o s, i)
         /\ \A i \in DOMAIN d : Broken(d \o s, i) => Broken(d, i)
         /\ \A id, real : Has(d \o s, id, real) <=> Has(d, id, real) \/ Has(s, id, real)
         /\ \A id : Claims(d \o s, id) <=> Claims(d, id) \/ Claims(s, id)
         /\ \A id : Safe(d, id) => Safe(d \o s, id)
<1> DEFINE e == d \o s
<1>1. /\ e \in Seq(Row) /\ Len(e) = Len(d) + Len(s)
      /\ \A i \in DOMAIN d : i \in DOMAIN e /\ e[i] = d[i]
      /\ \A i \in DOMAIN s : Len(d) + i \in DOMAIN e /\ e[Len(d) + i] = s[i]
      /\ \A i \in DOMAIN e : \/ i \in DOMAIN d
                             \/ i - Len(d) \in DOMAIN s /\ e[i] = s[i - Len(d)] /\ i > Len(d)
  BY Joined
<1> HIDE DEF e
<1>2. ASSUME NEW i \in DOMAIN d, IsCall(d[i]), PairedAt(d, i) PROVE PairedAt(e, i)
  <2>1. d[i].calls \in Seq(Tools)
    BY <1>2, RowKinds
  <2>2. ASSUME NEW j \in DOMAIN d[i].calls PROVE i + j \in DOMAIN d
    BY <1>2, <2>1 DEF PairedAt
  <2>3. e[i] = d[i] /\ \A j \in DOMAIN d[i].calls : e[i + j] = d[i + j]
    BY <1>1, <2>2
  <2>4. Len(e) >= i + Len(e[i].calls)
    BY <1>1, <1>2, <2>1, <2>3 DEF PairedAt
  <2> QED
    BY <1>2, <2>3, <2>4 DEF PairedAt
<1>3. \A i \in DOMAIN d : Broken(e, i) => Broken(d, i)
  BY <1>1, <1>2 DEF Broken
<1>4. \A id, real : Has(e, id, real) <=> Has(d, id, real) \/ Has(s, id, real)
  BY <1>1 DEF Has
<1>5. ASSUME NEW id PROVE Claims(e, id) <=> Claims(d, id) \/ Claims(s, id)
  <2>1. Claims(d, id) => Claims(e, id)
    BY <1>1 DEF Claims
  <2>2. Claims(s, id) => Claims(e, id)
    BY <1>1 DEF Claims
  <2>3. Claims(e, id) => Claims(d, id) \/ Claims(s, id)
    BY <1>1 DEF Claims
  <2> QED
    BY <2>1, <2>2, <2>3
<1>6. ASSUME NEW id, Safe(d, id) PROVE Safe(e, id)
  <2>1. PICK i \in DOMAIN d : d[i] = Result(id, TRUE) /\ \A o \in DOMAIN d : Broken(d, o) => i < o
    BY <1>6 DEF Safe
  <2>2. i \in DOMAIN e /\ e[i] = Result(id, TRUE)
    BY <1>1, <2>1
  <2>3. ASSUME NEW o \in DOMAIN e, Broken(e, o) PROVE i < o
    <3>1. CASE o \in DOMAIN d
      BY <1>3, <2>1, <2>3, <3>1
    <3>2. CASE o \notin DOMAIN d
      BY <1>1, <3>2
    <3> QED
      BY <3>1, <3>2
  <2> QED
    BY <2>2, <2>3 DEF Safe
<1> QED
  BY <1>2, <1>3, <1>4, <1>5, <1>6 DEF e

\* An append of a piece keeps the results with their declarations and the prompts in order.
LEMMA PieceJoins ==
  ASSUME NEW d \in Seq(Row), NEW s \in Seq(Row), NEW set, Ordered(d), Piece(s),
         \A id : ~ (Claims(d, id) /\ Claims(s, id))
  PROVE  /\ Ordered(d \o s)
         /\ PromptsBehind(d) => PromptsBehind(d \o s)
         /\ Prompted(d, set) => Prompted(d \o s, set)
<1> DEFINE e == d \o s
<1>1. /\ e \in Seq(Row) /\ Len(e) = Len(d) + Len(s)
      /\ \A i \in DOMAIN d : i \in DOMAIN e /\ e[i] = d[i]
      /\ \A i \in DOMAIN s : Len(d) + i \in DOMAIN e /\ e[Len(d) + i] = s[i]
      /\ \A i \in DOMAIN e : \/ i \in DOMAIN d
                             \/ i - Len(d) \in DOMAIN s /\ e[i] = s[i - Len(d)] /\ i > Len(d)
  BY Joined
<1>2. \A i \in DOMAIN d : Broken(e, i) => Broken(d, i)
  BY JoinKeeps
<1> HIDE DEF e
<1>3. \A i \in DOMAIN s : (IsCall(s[i]) => i = 1) /\ (IsTool(s[i]) => i > 1 /\ Answers(s, i, 1)) /\ ~IsUser(s[i])
  BY PieceRows
<1>4. ASSUME NEW i \in DOMAIN e, IsCall(e[i])
      PROVE  i \in DOMAIN d \/ (i = Len(d) + 1 /\ 1 \in DOMAIN s /\ e[i] = s[1])
  BY <1>1, <1>3, <1>4
<1>5. \A i \in DOMAIN e : IsCall(e[i]) => Distinct(e[i].calls)
  BY <1>1, <1>4 DEF Ordered, Piece
<1>6. ASSUME NEW i \in DOMAIN e, NEW j \in DOMAIN e, IsCall(e[i]), IsCall(e[j]),
             NEW k \in DOMAIN e[i].calls, NEW l \in DOMAIN e[j].calls, e[i].calls[k] = e[j].calls[l]
      PROVE  i = j
  <2>1. CASE i \in DOMAIN d /\ j \in DOMAIN d
    BY <1>1, <1>6, <2>1 DEF Ordered
  <2>2. CASE i \in DOMAIN d /\ j \notin DOMAIN d
    <3>1. Claims(d, e[i].calls[k])
      BY <1>1, <1>6, <2>2 DEF Claims
    <3>2. Claims(s, e[j].calls[l])
      BY <1>4, <1>6, <2>2 DEF Claims
    <3> QED
      BY <1>6, <3>1, <3>2
  <2>3. CASE i \notin DOMAIN d /\ j \in DOMAIN d
    <3>1. Claims(s, e[i].calls[k])
      BY <1>4, <1>6, <2>3 DEF Claims
    <3>2. Claims(d, e[j].calls[l])
      BY <1>1, <1>6, <2>3 DEF Claims
    <3> QED
      BY <1>6, <3>1, <3>2
  <2>4. CASE i \notin DOMAIN d /\ j \notin DOMAIN d
    BY <1>4, <1>6, <2>4
  <2> QED
    BY <2>1, <2>2, <2>3, <2>4
<1>7. ASSUME NEW t \in DOMAIN e, IsTool(e[t]) PROVE \E i \in DOMAIN e : Answers(e, t, i)
  <2>1. CASE t \in DOMAIN d
    <3>1. PICK i \in DOMAIN d : Answers(d, t, i)
      BY <1>1, <1>7, <2>1 DEF Ordered
    <3>2. Answers(e, t, i)
      BY <1>1, <2>1, <3>1 DEF Answers
    <3> QED
      BY <1>1, <3>2
  <2>2. CASE t \notin DOMAIN d
    <3>1. t - Len(d) \in DOMAIN s /\ e[t] = s[t - Len(d)]
      BY <1>1, <2>2
    <3>2. Answers(s, t - Len(d), 1)
      BY <1>3, <1>7, <3>1
    <3>3. 1 \in DOMAIN s
      BY <3>1
    <3>4. e[Len(d) + 1] = s[1] /\ Len(d) + 1 \in DOMAIN e
      BY <1>1, <3>3
    <3>5. t - (Len(d) + 1) = t - Len(d) - 1
      BY <1>1
    <3>6. Answers(e, t, Len(d) + 1)
      BY <3>1, <3>2, <3>4, <3>5 DEF Answers
    <3> QED
      BY <3>4, <3>6
  <2> QED
    BY <2>1, <2>2
<1>8. Ordered(e)
  BY <1>5, <1>6, <1>7 DEF Ordered
<1>9. \A u \in DOMAIN e : IsUser(e[u]) => u \in DOMAIN d
  BY <1>1, <1>3
<1>10. ASSUME PromptsBehind(d) PROVE PromptsBehind(e)
  BY <1>1, <1>2, <1>9, <1>10 DEF PromptsBehind, Broken
<1>11. ASSUME Prompted(d, set) PROVE Prompted(e, set)
  <2>1. {i \in DOMAIN e : e[i].kind = "user"} = {i \in DOMAIN d : d[i].kind = "user"}
    BY <1>1, <1>9 DEF IsUser
  <2> DEFINE P == {i \in DOMAIN d : d[i].kind = "user"}
  <2>2. \A i \in P : e[i] = d[i]
    BY <1>1
  <2>3. {e[i].of : i \in P} = {d[i].of : i \in P}
    BY <2>2
  <2>4. {d[i].of : i \in P} = set /\ \A i, j \in P : i < j => d[i].of < d[j].of
    BY <1>11 DEF Prompted
  <2> QED
    BY <2>1, <2>2, <2>3, <2>4 DEF Prompted
<1> QED
  BY <1>8, <1>10, <1>11 DEF e

\* Behind paired rounds, a whole one leaves them all paired.
LEMMA WholeJoins ==
  ASSUME NEW d \in Seq(Row), NEW s \in Seq(Row), AllPaired(d), Whole(s)
  PROVE  AllPaired(d \o s)
<1> DEFINE e == d \o s
<1>1. /\ e \in Seq(Row) /\ Len(e) = Len(d) + Len(s)
      /\ \A i \in DOMAIN s : Len(d) + i \in DOMAIN e /\ e[Len(d) + i] = s[i]
      /\ \A i \in DOMAIN e : \/ i \in DOMAIN d
                             \/ i - Len(d) \in DOMAIN s /\ e[i] = s[i - Len(d)] /\ i > Len(d)
  BY Joined
<1>2. \A i \in DOMAIN d : Broken(e, i) => Broken(d, i)
  BY JoinKeeps
<1> HIDE DEF e
<1>3. ASSUME NEW i \in DOMAIN e, i \notin DOMAIN d, IsCall(e[i]) PROVE PairedAt(e, i)
  <2>1. i - Len(d) \in DOMAIN s /\ e[i] = s[i - Len(d)]
    BY <1>1, <1>3
  <2>2. i - Len(d) = 1
    BY <1>3, <2>1, PieceRows DEF Whole
  <2>3. 1 \in DOMAIN s /\ i = Len(d) + 1 /\ e[i] = s[1]
    BY <1>1, <2>1, <2>2
  <2>4. PairedAt(s, 1) /\ s[1].calls \in Seq(Tools)
    BY <2>3, WholeIsPaired, PieceRows DEF Whole
  <2> DEFINE c == Len(s[1].calls)
  <2>7. /\ Len(d) \in Nat /\ Len(s) \in Nat /\ c \in Nat /\ DOMAIN s[1].calls = 1 .. c
        /\ DOMAIN s = 1 .. Len(s) /\ i \in Nat
    BY <1>1, <2>4
  <2>8. Len(s) >= 1 + c
    BY <2>4 DEF PairedAt
  <2>5. ASSUME NEW j \in DOMAIN s[1].calls PROVE e[i + j] = s[1 + j]
    <3>1. 1 + j \in DOMAIN s /\ i + j = Len(d) + (1 + j)
      <4>1. j \in 1 .. c
        BY <2>7
      <4>2. 1 + j \in 1 .. Len(s) /\ i + j = Len(d) + (1 + j)
        <5> HIDE DEF c
        <5> QED
          BY <2>3, <2>7, <2>8, <4>1
      <4> QED
        BY <4>2
    <3> QED
      BY <1>1, <3>1
  <2>6. Len(e) >= i + Len(e[i].calls)
    <3> HIDE DEF c
    <3>1. Len(e) >= i + c
      BY <1>1, <2>3, <2>7, <2>8
    <3> QED
      BY <2>3, <3>1 DEF c
  <2> QED
    BY <2>3, <2>4, <2>5, <2>6 DEF PairedAt
<1> QED
  BY <1>2, <1>3 DEF AllPaired, Broken, e

\* The cut looks for the rounds with a result missing: where results are with their declarations,
\* a round has all of them behind it only when they follow it one by one.
LEMMA OrphansAreBroken ==
  ASSUME NEW d \in Seq(Row), Ordered(d), NEW i \in DOMAIN d
  PROVE  i \in Orphans(d) <=> Broken(d, i)
<1>1. ASSUME IsCall(d[i]), PairedAt(d, i), NEW id \in ToSet(d[i].calls)
      PROVE  \E j \in i + 1 .. Len(d) : d[j].kind = "tool" /\ d[j].id = id
  <2>1. d[i].calls \in Seq(Tools)
    BY <1>1, RowKinds
  <2>2. PICK k \in DOMAIN d[i].calls : d[i].calls[k] = id
    BY <1>1 DEF ToSet
  <2>3. i + k \in i + 1 .. Len(d)
    BY <1>1, <2>1, <2>2 DEF PairedAt
  <2> QED
    BY <1>1, <2>2, <2>3 DEF PairedAt, IsTool
<1>2. ASSUME IsCall(d[i]),
             \A id \in ToSet(d[i].calls) : \E j \in i + 1 .. Len(d) : d[j].kind = "tool" /\ d[j].id = id
      PROVE  PairedAt(d, i)
  <2>1. d[i].calls \in Seq(Tools) /\ Distinct(d[i].calls)
    BY <1>2, RowKinds DEF Ordered
  <2>2. ASSUME NEW k \in DOMAIN d[i].calls
        PROVE  i + k \in DOMAIN d /\ IsTool(d[i + k]) /\ d[i + k].id = d[i].calls[k]
    <3>1. PICK j \in i + 1 .. Len(d) : d[j].kind = "tool" /\ d[j].id = d[i].calls[k]
      BY <1>2 DEF ToSet
    <3>2. j \in DOMAIN d /\ IsTool(d[j])
      BY <3>1 DEF IsTool
    <3>3. PICK o \in DOMAIN d : Answers(d, j, o)
      BY <3>2 DEF Ordered
    <3>4. IsCall(d[o]) /\ j - o \in DOMAIN d[o].calls /\ d[o].calls[j - o] = d[i].calls[k]
      BY <3>1, <3>3 DEF Answers
    <3>5. o = i
      BY <1>2, <3>4 DEF Ordered
    <3>6. j - i = k
      BY <2>1, <3>4, <3>5 DEF Distinct
    <3>7. k \in Int /\ j \in Int /\ i \in Int
      BY <2>1, <3>1
    <3>8. j = i + k
      BY <3>6, <3>7
    <3> QED
      BY <3>1, <3>2, <3>8
  <2>3. Len(d) >= i + Len(d[i].calls)
    <3>1. CASE Len(d[i].calls) = 0
      BY <3>1
    <3>2. CASE Len(d[i].calls) # 0
      <4>1. Len(d[i].calls) \in DOMAIN d[i].calls
        BY <2>1, <3>2
      <4>2. i + Len(d[i].calls) \in DOMAIN d
        BY <2>2, <4>1
      <4> QED
        BY <4>2
    <3> QED
      BY <3>1, <3>2
  <2> QED
    BY <2>2, <2>3 DEF PairedAt
<1>3. i \in Orphans(d) <=> IsCall(d[i]) /\ Unpaired(d, i) # {}
  BY DEF Orphans, IsCall
<1>4. Unpaired(d, i) # {} <=>
        ~ \A id \in ToSet(d[i].calls) : \E j \in i + 1 .. Len(d) : d[j].kind = "tool" /\ d[j].id = id
  BY DEF Unpaired
<1>5. CASE IsCall(d[i]) /\ PairedAt(d, i)
  BY <1>1, <1>3, <1>4, <1>5 DEF Broken
<1>6. CASE ~ (IsCall(d[i]) /\ PairedAt(d, i))
  BY <1>2, <1>3, <1>4, <1>6 DEF Broken
<1> QED
  BY <1>5, <1>6

\* The cut takes the first round with a result missing and what follows it, and no prompt.
LEMMA CutKeeps ==
  ASSUME NEW d \in Seq(Row), NEW set, Ordered(d), PromptsBehind(d), Prompted(d, set)
  PROVE  LET kept == WithoutOrphans(d)
         IN  /\ kept \in Seq(Row) /\ Ordered(kept) /\ AllPaired(kept) /\ Prompted(kept, set)
             /\ \A id : Claims(kept, id) => Claims(d, id)
             /\ \A id : Safe(d, id) => Safe(kept, id)
<1>1. \A i \in DOMAIN d : i \in Orphans(d) <=> Broken(d, i)
  BY OrphansAreBroken
<1>2. CASE Orphans(d) = {}
  <2>1. WithoutOrphans(d) = d
    BY <1>2 DEF WithoutOrphans
  <2>2. AllPaired(d)
    BY <1>1, <1>2 DEF AllPaired
  <2> QED
    BY <2>1, <2>2
<1>3. CASE Orphans(d) # {}
  <2> DEFINE m == CHOOSE i \in Orphans(d) : \A j \in Orphans(d) : i <= j
  <2> DEFINE kept == SubSeq(d, 1, m - 1)
  <2>1. Orphans(d) \in SUBSET Nat /\ Orphans(d) \subseteq DOMAIN d
    BY DEF Orphans
  <2>2. \E i \in Orphans(d) : \A j \in Orphans(d) : i <= j
    BY <1>3, <2>1, FirstExists
  <2>3. m \in Orphans(d) /\ \A j \in Orphans(d) : m <= j
    BY <2>2
  <2>4. WithoutOrphans(d) = kept
    BY <1>3 DEF WithoutOrphans
  <2> HIDE DEF m
  <2>5. m \in DOMAIN d /\ Broken(d, m) /\ \A i \in DOMAIN d : Broken(d, i) => m <= i
    BY <1>1, <2>1, <2>3
  <2>6. /\ kept \in Seq(Row) /\ Len(kept) = m - 1 /\ m \in 1 .. Len(d)
        /\ \A i \in DOMAIN kept : i \in DOMAIN d /\ i < m /\ kept[i] = d[i]
        /\ \A i \in DOMAIN d : i < m => i \in DOMAIN kept
    BY <2>5
  <2> HIDE DEF kept
  <2>7. ASSUME NEW i \in DOMAIN kept PROVE ~Broken(kept, i)
    <3>1. SUFFICES ASSUME IsCall(kept[i]) PROVE PairedAt(kept, i)
      BY DEF Broken
    <3>2. i \in DOMAIN d /\ i < m /\ kept[i] = d[i]
      BY <2>6
    <3>3. PairedAt(d, i) /\ d[i].calls \in Seq(Tools)
      BY <2>5, <3>1, <3>2, RowKinds DEF Broken
    <3>4. \A j \in DOMAIN d[i].calls : i + j # m
      BY <2>5, <3>3, RowKinds DEF PairedAt, Broken
    <3> DEFINE c == Len(d[i].calls)
    <3>5. c \in Nat /\ DOMAIN d[i].calls = 1 .. c /\ Len(d) >= i + c
      BY <3>3 DEF PairedAt
    <3>6. i + c < m
      <4>1. SUFFICES ASSUME i + c >= m PROVE FALSE
        BY <2>6, <3>5
      <4>2. m - i \in 1 .. c /\ i + (m - i) = m
        <5> HIDE DEF c
        <5> QED
          BY <2>6, <3>2, <3>5, <4>1
      <4> QED
        BY <3>4, <3>5, <4>2
    <3>7. Len(kept) >= i + Len(kept[i].calls)
      BY <2>6, <3>2, <3>5, <3>6
    <3>8. \A j \in DOMAIN kept[i].calls : i + j \in DOMAIN kept
      <4>1. ASSUME NEW j \in 1 .. c PROVE i + j \in DOMAIN kept
        <5> HIDE DEF c
        <5> QED
          BY <2>6, <3>2, <3>5, <3>6, <4>1
      <4> QED
        BY <3>2, <3>5, <4>1
    <3> QED
      BY <2>6, <3>2, <3>3, <3>7, <3>8 DEF PairedAt
  <2>8. AllPaired(kept)
    BY <2>7 DEF AllPaired
  <2>9. Ordered(kept)
    <3>1. ASSUME NEW t \in DOMAIN kept, IsTool(kept[t]) PROVE \E i \in DOMAIN kept : Answers(kept, t, i)
      <4>1. PICK i \in DOMAIN d : Answers(d, t, i)
        BY <2>6, <3>1 DEF Ordered
      <4>2. i < t
        <5>1. d[i].calls \in Seq(Tools) /\ t - i \in DOMAIN d[i].calls
          BY <4>1, RowKinds DEF Answers
        <5>2. t - i \in 1 .. Len(d[i].calls) /\ Len(d[i].calls) \in Nat
          BY <5>1
        <5>3. t \in Nat /\ i \in Nat
          BY <2>6, <3>1
        <5> QED
          BY <5>2, <5>3
      <4>3. i \in DOMAIN kept
        BY <2>6, <3>1, <4>2
      <4> QED
        BY <2>6, <3>1, <4>1, <4>3 DEF Answers
    <3>2. \A i \in DOMAIN kept : IsCall(kept[i]) => Distinct(kept[i].calls)
      BY <2>6 DEF Ordered
    <3>3. \A i, j \in DOMAIN kept : IsCall(kept[i]) /\ IsCall(kept[j]) =>
            \A k \in DOMAIN kept[i].calls, l \in DOMAIN kept[j].calls :
               kept[i].calls[k] = kept[j].calls[l] => i = j
      BY <2>6 DEF Ordered
    <3> QED
      BY <3>1, <3>2, <3>3 DEF Ordered
  <2>10. Prompted(kept, set)
    <3>1. \A u \in DOMAIN d : IsUser(d[u]) => u < m
      BY <2>5 DEF PromptsBehind
    <3> DEFINE P == {i \in DOMAIN d : d[i].kind = "user"}
    <3>2. {i \in DOMAIN kept : kept[i].kind = "user"} = P
      BY <2>6, <3>1 DEF IsUser
    <3>3. \A i \in P : kept[i] = d[i]
      BY <2>6, <3>1 DEF IsUser
    <3>4. {kept[i].of : i \in P} = {d[i].of : i \in P}
      BY <3>3
    <3>5. {d[i].of : i \in P} = set /\ \A i, j \in P : i < j => d[i].of < d[j].of
      BY DEF Prompted
    <3> QED
      BY <3>2, <3>3, <3>4, <3>5 DEF Prompted
  <2>11. \A id : Claims(kept, id) => Claims(d, id)
    BY <2>6 DEF Claims
  <2>12. ASSUME NEW id, Safe(d, id) PROVE Safe(kept, id)
    <3>1. PICK i \in DOMAIN d : d[i] = Result(id, TRUE) /\ \A o \in DOMAIN d : Broken(d, o) => i < o
      BY <2>12 DEF Safe
    <3>2. i \in DOMAIN kept /\ kept[i] = d[i]
      BY <2>5, <2>6, <3>1
    <3> QED
      BY <2>7, <3>1, <3>2 DEF Safe
  <2> QED
    BY <2>4, <2>6, <2>8, <2>9, <2>10, <2>11, <2>12
<1> QED
  BY <1>2, <1>3

\* Behind paired rounds, the next prompt.
LEMMA PromptJoins ==
  ASSUME NEW d \in Seq(Row), NEW set \in SUBSET Nat, NEW n \in RunIds, Ordered(d), AllPaired(d),
         Prompted(d, set), \A m \in set : m < n
  PROVE  LET e == Append(d, User(n))
         IN  /\ e \in Seq(Row) /\ Ordered(e) /\ AllPaired(e) /\ Prompted(e, set \cup {n})
             /\ \A id : Claims(e, id) => Claims(d, id)
             /\ \A id : Safe(d, id) => Safe(e, id)
<1> DEFINE s == <<User(n)>>
<1> DEFINE e == d \o s
<1>1. User(n) \in Row /\ IsUser(User(n)) /\ User(n).of = n
  BY Makers
<1>2. s \in Seq(Row) /\ Len(s) = 1 /\ s[1] = User(n) /\ DOMAIN s = {1}
  BY <1>1
<1>3. Append(d, User(n)) = e
  BY <1>1
<1>4. ~IsCall(s[1]) /\ ~IsTool(s[1])
  BY <1>1, <1>2, RowKinds
<1> HIDE DEF s
<1>5. /\ e \in Seq(Row) /\ Len(e) = Len(d) + 1
      /\ \A i \in DOMAIN d : i \in DOMAIN e /\ e[i] = d[i]
      /\ \A i \in DOMAIN e : i \in DOMAIN d \/ (i = Len(d) + 1 /\ e[i] = s[1])
      /\ Len(d) + 1 \in DOMAIN e /\ e[Len(d) + 1] = s[1]
  <2>1. /\ e \in Seq(Row) /\ Len(e) = Len(d) + Len(s)
        /\ \A i \in DOMAIN d : i \in DOMAIN e /\ e[i] = d[i]
        /\ \A i \in DOMAIN s : Len(d) + i \in DOMAIN e /\ e[Len(d) + i] = s[i]
        /\ \A i \in DOMAIN e : \/ i \in DOMAIN d
                               \/ i - Len(d) \in DOMAIN s /\ e[i] = s[i - Len(d)] /\ i > Len(d)
    BY <1>2, Joined
  <2> HIDE DEF e
  <2> QED
    BY <1>2, <2>1
<1>6. /\ \A i \in DOMAIN d : Broken(e, i) => Broken(d, i)
      /\ \A id : Claims(e, id) <=> Claims(d, id) \/ Claims(s, id)
      /\ \A id : Safe(d, id) => Safe(e, id)
  BY <1>2, JoinKeeps
<1> HIDE DEF e
<1>7. AllPaired(e)
  BY <1>4, <1>5, <1>6 DEF AllPaired, Broken
<1>8. \A id : ~Claims(s, id)
  BY <1>2, <1>4 DEF Claims
<1>9. Ordered(e)
  <2>1. ASSUME NEW t \in DOMAIN e, IsTool(e[t]) PROVE \E i \in DOMAIN e : Answers(e, t, i)
    <3>1. t \in DOMAIN d
      BY <1>4, <1>5, <2>1
    <3>2. PICK i \in DOMAIN d : Answers(d, t, i)
      BY <1>5, <2>1, <3>1 DEF Ordered
    <3> QED
      BY <1>5, <3>1, <3>2 DEF Answers
  <2>2. \A i \in DOMAIN e : IsCall(e[i]) => i \in DOMAIN d
    BY <1>4, <1>5
  <2>3. \A i \in DOMAIN e : IsCall(e[i]) => Distinct(e[i].calls)
    BY <1>5, <2>2 DEF Ordered
  <2>4. \A i, j \in DOMAIN e : IsCall(e[i]) /\ IsCall(e[j]) =>
          \A k \in DOMAIN e[i].calls, l \in DOMAIN e[j].calls :
             e[i].calls[k] = e[j].calls[l] => i = j
    BY <1>5, <2>2 DEF Ordered
  <2> QED
    BY <2>1, <2>3, <2>4 DEF Ordered
<1>10. Prompted(e, set \cup {n})
  <2> DEFINE P == {i \in DOMAIN d : d[i].kind = "user"}
  <2> DEFINE l == Len(d) + 1
  <2>1. e[l].kind = "user" /\ e[l].of = n /\ l \in DOMAIN e
    BY <1>1, <1>2, <1>5 DEF IsUser
  <2>2. {i \in DOMAIN e : e[i].kind = "user"} = P \cup {l}
    BY <1>5, <2>1
  <2>3. \A i \in P : e[i] = d[i] /\ i < l
    BY <1>5
  <2>4. {e[i].of : i \in P} = {d[i].of : i \in P}
    BY <2>3
  <2>5. {d[i].of : i \in P} = set /\ \A i, j \in P : i < j => d[i].of < d[j].of
    BY DEF Prompted
  <2>6. {e[i].of : i \in P \cup {l}} = set \cup {n}
    BY <2>1, <2>4, <2>5
  <2>7. \A i \in P : e[i].of < n
    BY <2>3, <2>5
  <2>8. ASSUME NEW i \in P \cup {l}, NEW j \in P \cup {l}, i < j PROVE e[i].of < e[j].of
    <3>0. l \in Nat /\ P \subseteq Nat
      BY <1>5
    <3>1. i \in P
      <4> HIDE DEF l, P
      <4> QED
        BY <2>3, <2>8, <3>0
    <3>2. CASE j \in P
      BY <2>3, <2>5, <2>8, <3>1, <3>2
    <3>3. CASE j = l
      BY <2>1, <2>7, <3>1, <3>3
    <3> QED
      BY <3>2, <3>3
  <2> HIDE DEF P, l
  <2> QED
    BY <2>2, <2>6, <2>8 DEF Prompted
<1> QED
  BY <1>3, <1>5, <1>6, <1>7, <1>8, <1>9, <1>10

\* The stitch changes a placeholder into the real result of its call, and nothing else.
LEMMA StitchKeeps ==
  ASSUME NEW d \in Seq(Row), NEW id \in Tools, NEW set
  PROVE  LET e == Stitch(d, id)
         IN  /\ e \in Seq(Row)
             /\ Ordered(d) => Ordered(e)
             /\ AllPaired(d) => AllPaired(e)
             /\ PromptsBehind(d) => PromptsBehind(e)
             /\ Prompted(d, set) => Prompted(e, set)
             /\ \A jd : Claims(e, jd) <=> Claims(d, jd)
             /\ \A jd : Safe(d, jd) => Safe(e, jd)
             /\ \A jd : Has(d, jd, TRUE) => Has(e, jd, TRUE)
             /\ \A jd : jd # id /\ Has(d, jd, FALSE) => Has(e, jd, FALSE)
             /\ Has(d, id, FALSE) => Has(e, id, TRUE)
<1> DEFINE held == {i \in DOMAIN d : d[i] = Result(id, FALSE)}
<1>1. CASE held = {}
  <2>1. Stitch(d, id) = d
    BY <1>1 DEF Stitch
  <2>2. ~Has(d, id, FALSE)
    BY <1>1 DEF Has
  <2> QED
    BY <2>1, <2>2
<1>2. CASE held # {}
  <2> DEFINE k == CHOOSE i \in held : \A j \in held : i <= j
  <2> DEFINE x == Result(id, TRUE)
  <2> DEFINE e == [d EXCEPT ![k] = x]
  <2>1. Stitch(d, id) = e
    BY <1>2 DEF Stitch
  <2>2. \E i \in held : \A j \in held : i <= j
    <3>0. DOMAIN d \subseteq Nat
      OBVIOUS
    <3>1. held \in SUBSET Nat
      BY <3>0
    <3> HIDE DEF held
    <3> QED
      BY <1>2, <3>1, FirstExists
  <2>3. k \in DOMAIN d /\ d[k] = Result(id, FALSE)
    BY <2>2
  <2> HIDE DEF k
  <2>4. Result(id, TRUE) \in Row /\ Result(id, FALSE) \in Row
    BY Makers
  <2>5. /\ e \in Seq(Row) /\ Len(e) = Len(d) /\ DOMAIN e = DOMAIN d /\ e[k] = x
        /\ \A i \in DOMAIN d : i # k => e[i] = d[i]
    <3>1. x \in Row /\ k \in DOMAIN d
      BY <2>3, <2>4
    <3> HIDE DEF x
    <3> QED
      BY <3>1
  <2> HIDE DEF e, held
  <2>6. IsTool(d[k]) /\ IsTool(e[k]) /\ d[k].id = id /\ e[k].id = id
    <3>1. IsTool(Result(id, TRUE)) /\ IsTool(Result(id, FALSE))
      BY ResultsDiffer
    <3>2. Result(id, TRUE).id = id /\ Result(id, FALSE).id = id
      BY ResultsDiffer
    <3> QED
      BY <2>3, <2>5, <3>1, <3>2
  <2>7. ~IsCall(d[k]) /\ ~IsCall(e[k]) /\ ~IsUser(d[k]) /\ ~IsUser(e[k])
    BY <2>3, <2>4, <2>5, <2>6, RowKinds
  <2>8. \A i \in DOMAIN d : (IsTool(e[i]) <=> IsTool(d[i])) /\ (IsTool(d[i]) => e[i].id = d[i].id)
    BY <2>5, <2>6
  <2>9. \A i \in DOMAIN d : (IsCall(e[i]) <=> IsCall(d[i])) /\ (IsCall(d[i]) => e[i] = d[i])
    BY <2>5, <2>7
  <2>10. \A i \in DOMAIN d : (IsUser(e[i]) <=> IsUser(d[i])) /\ (IsUser(d[i]) => e[i] = d[i])
    BY <2>5, <2>7
  <2>11. ASSUME NEW i \in DOMAIN d PROVE Broken(e, i) <=> Broken(d, i)
    <3>1. SUFFICES ASSUME IsCall(d[i]), IsCall(e[i]), e[i] = d[i] PROVE PairedAt(e, i) <=> PairedAt(d, i)
      BY <2>5, <2>9 DEF Broken
    <3>2. d[i].calls \in Seq(Tools)
      BY <3>1, RowKinds
    <3>3. CASE ~ (Len(d) >= i + Len(d[i].calls))
      BY <2>5, <3>1, <3>3 DEF PairedAt
    <3>4. CASE Len(d) >= i + Len(d[i].calls)
      <4>1. \A j \in DOMAIN d[i].calls : i + j \in DOMAIN d
        BY <3>2, <3>4
      <4> QED
        BY <2>5, <2>8, <3>1, <3>4, <4>1 DEF PairedAt
    <3> QED
      BY <3>3, <3>4
  <2>12. ASSUME Ordered(d) PROVE Ordered(e)
    <3>1. ASSUME NEW t \in DOMAIN e, IsTool(e[t]) PROVE \E i \in DOMAIN e : Answers(e, t, i)
      <4>1. PICK i \in DOMAIN d : Answers(d, t, i)
        BY <2>5, <2>8, <2>12, <3>1 DEF Ordered
      <4> QED
        BY <2>5, <2>8, <2>9, <3>1, <4>1 DEF Answers
    <3>2. \A i \in DOMAIN e : IsCall(e[i]) => Distinct(e[i].calls)
      BY <2>5, <2>9, <2>12 DEF Ordered
    <3>3. \A i, j \in DOMAIN e : IsCall(e[i]) /\ IsCall(e[j]) =>
            \A m \in DOMAIN e[i].calls, l \in DOMAIN e[j].calls :
               e[i].calls[m] = e[j].calls[l] => i = j
      BY <2>5, <2>9, <2>12 DEF Ordered
    <3> QED
      BY <3>1, <3>2, <3>3 DEF Ordered
  <2>13. AllPaired(d) => AllPaired(e)
    BY <2>5, <2>11 DEF AllPaired
  <2>14. PromptsBehind(d) => PromptsBehind(e)
    BY <2>5, <2>10, <2>11 DEF PromptsBehind
  <2>15. ASSUME Prompted(d, set) PROVE Prompted(e, set)
    <3> DEFINE P == {i \in DOMAIN d : d[i].kind = "user"}
    <3>1. {i \in DOMAIN e : e[i].kind = "user"} = P
      BY <2>5, <2>10 DEF IsUser
    <3>2. \A i \in P : e[i] = d[i]
      BY <2>10 DEF IsUser
    <3>3. {e[i].of : i \in P} = {d[i].of : i \in P}
      BY <3>2
    <3>4. {d[i].of : i \in P} = set /\ \A i, j \in P : i < j => d[i].of < d[j].of
      BY <2>15 DEF Prompted
    <3> QED
      BY <3>1, <3>2, <3>3, <3>4 DEF Prompted
  <2>16. \A jd : Claims(e, jd) <=> Claims(d, jd)
    BY <2>5, <2>9 DEF Claims
  <2>17. \A jd : d[k] # Result(jd, TRUE)
    BY <2>3, ResultsDiffer
  <2>18. \A jd : Safe(d, jd) => Safe(e, jd)
    BY <2>5, <2>11, <2>17 DEF Safe
  <2>19. \A jd : Has(d, jd, TRUE) => Has(e, jd, TRUE)
    BY <2>5, <2>17 DEF Has
  <2>20. \A jd : jd # id => d[k] # Result(jd, FALSE)
    BY <2>3, ResultsDiffer
  <2>21. \A jd : jd # id /\ Has(d, jd, FALSE) => Has(e, jd, FALSE)
    BY <2>5, <2>20 DEF Has
  <2>22. Has(e, id, TRUE)
    BY <2>3, <2>5 DEF Has
  <2> QED
    BY <2>1, <2>5, <2>12, <2>13, <2>14, <2>15, <2>16, <2>18, <2>19, <2>21, <2>22
<1> QED
  BY <1>1, <1>2

(***************************************************************************)
(* The types.                                                              *)
(***************************************************************************)
Builder == [h : Ids, flush : Ids, stitch : Ids, open : BOOLEAN, text : BOOLEAN, calls : Seq(Tools),
            results : SUBSET Tools, done : Seq(Row), late : SUBSET Tools]
States == {"", "none", "started", "interrupted", "result"}
View == [open : BOOLEAN, tools : [Tools -> States]]
Note == [ids : SUBSET Tools, as : States, open : {"same", "yes", "no"}]
Dispatcher == [pc : {"idle", "persist", "stitch", "emit"}, h : Ids, rows : Seq(Row), fn : Ids,
               id : Tools \cup {""}, ev : Note]
TheRun == [n : Ids, pc : {"idle", "begun", "wired", "prompt", "closing", "capture", "unwire"},
           res : {"", "error", "ok", "crashed"}, cancelled : BOOLEAN]
CloserPc == {"idle", "wait", "ends", "tell", "hooked", "collect", "persist", "done"}
Closer == [pc : CloserPc, h : Ids, rows : Seq(Row), fn : Ids, id : {"", "hooked", "inline"}, ev : Note]
Seen == [updates : Nat, fails : Nat, stops : Nat, got : [RunIds -> SUBSET Tools], errs : SUBSET Ids,
         ok : SUBSET Ids, prompts : SUBSET RunIds, torn : BOOLEAN, behind : SUBSET Ids,
         owner : [Tools -> Ids], sent : SUBSET Tools, stray : BOOLEAN]

TypeInv ==
  /\ bld \in Builder /\ disk \in Seq(Row) /\ live \in [RunIds -> View] /\ disp \in Dispatcher
  /\ run \in TheRun /\ closer \in [Closers -> Closer] /\ turn \in Ids /\ rbSeen \in Seen
  /\ disp.pc = "stitch" => disp.id \in Tools

\* The rows of a round: its declaration, then one result for every call.
LEMMA RoundRows ==
  ASSUME NEW b \in Builder
  PROVE  /\ Round(b) \in Seq(Row) /\ Len(Round(b)) = 1 + Len(b.calls)
         /\ Round(b)[1] = Assistant(b.calls)
         /\ \A j \in DOMAIN b.calls :
               /\ 1 + j \in DOMAIN Round(b)
               /\ Round(b)[1 + j] = Result(b.calls[j], b.calls[j] \in b.results)
         /\ \A t \in 2 .. Len(Round(b)) : t - 1 \in DOMAIN b.calls
<1> DEFINE head == <<Assistant(b.calls)>>
<1> DEFINE tail == [i \in DOMAIN b.calls |-> Result(b.calls[i], b.calls[i] \in b.results)]
<1>1. b.calls \in Seq(Tools) /\ b.results \in SUBSET Tools
  BY DEF Builder
<1>2. Assistant(b.calls) \in Row
  BY <1>1, Makers
<1>3. head \in Seq(Row) /\ Len(head) = 1 /\ head[1] = Assistant(b.calls)
  <2> DEFINE a == Assistant(b.calls)
  <2>1. a \in Row
    BY <1>2
  <2> HIDE DEF a
  <2>2. <<a>> \in Seq(Row) /\ Len(<<a>>) = 1 /\ <<a>>[1] = a
    BY <2>1
  <2> QED
    BY <2>2 DEF a
<1>4. tail \in Seq(Row) /\ Len(tail) = Len(b.calls) /\ DOMAIN tail = DOMAIN b.calls
  <2> DEFINE f(i) == Result(b.calls[i], b.calls[i] \in b.results)
  <2>1. ASSUME NEW i \in DOMAIN b.calls PROVE f(i) \in Row
    <3>1. b.calls[i] \in Tools /\ (b.calls[i] \in b.results) \in BOOLEAN
      BY <1>1
    <3> QED
      BY <3>1, Makers
  <2> DEFINE n == Len(b.calls)
  <2>2. n \in Nat /\ DOMAIN b.calls = 1 .. n
    BY <1>1
  <2> HIDE DEF f, n
  <2>3. [i \in 1 .. n |-> f(i)] \in Seq(Row) /\ Len([i \in 1 .. n |-> f(i)]) = n
    BY <2>1, <2>2
  <2>4. tail = [i \in 1 .. n |-> f(i)]
    BY <2>2 DEF f
  <2> QED
    BY <2>2, <2>3, <2>4 DEF n
<1>5. \A j \in DOMAIN b.calls : tail[j] = Result(b.calls[j], b.calls[j] \in b.results)
  OBVIOUS
<1>6. Round(b) = head \o tail
  BY DEF Round
<1> HIDE DEF head, tail
<1>7. /\ head \o tail \in Seq(Row) /\ Len(head \o tail) = 1 + Len(b.calls)
      /\ (head \o tail)[1] = head[1]
      /\ \A j \in DOMAIN b.calls : 1 + j \in DOMAIN (head \o tail) /\ (head \o tail)[1 + j] = tail[j]
      /\ \A t \in 2 .. Len(head \o tail) : t - 1 \in DOMAIN b.calls
  <2> DEFINE e == head \o tail
  <2> DEFINE n == Len(b.calls)
  <2>1. n \in Nat /\ DOMAIN b.calls = 1 .. n /\ Len(tail) = n
    BY <1>1, <1>4
  <2>2. /\ e \in Seq(Row) /\ Len(e) = Len(head) + Len(tail)
        /\ \A i \in DOMAIN head : i \in DOMAIN e /\ e[i] = head[i]
        /\ \A i \in DOMAIN tail : Len(head) + i \in DOMAIN e /\ e[Len(head) + i] = tail[i]
    BY <1>3, <1>4, Joined
  <2>3. 1 \in DOMAIN head
    BY <1>3
  <2> HIDE DEF e, n
  <2>4. \A t \in 2 .. Len(e) : t - 1 \in 1 .. n
    BY <1>3, <2>1, <2>2
  <2>5. Len(e) = 1 + n /\ e[1] = head[1]
    BY <1>3, <2>1, <2>2, <2>3
  <2>6. \A j \in 1 .. n : 1 + j \in DOMAIN e /\ e[1 + j] = tail[j]
    BY <1>3, <1>4, <2>1, <2>2
  <2> QED
    BY <2>1, <2>2, <2>4, <2>5, <2>6 DEF e, n
<1> QED
  BY <1>3, <1>5, <1>6, <1>7

\* A round whose calls differ is a whole one, with the results that the builder has.
LEMMA RoundIsWhole ==
  ASSUME NEW b \in Builder, Distinct(b.calls)
  PROVE  /\ Round(b) \in Seq(Row) /\ Round(b) # <<>> /\ Whole(Round(b))
         /\ Len(Round(b)) = 1 + Len(b.calls)
         /\ \A id : Claims(Round(b), id) => id \in ToSet(b.calls)
         /\ \A id \in ToSet(b.calls) : Has(Round(b), id, id \in b.results)
<1> DEFINE s == Round(b)
<1> DEFINE c == Len(b.calls)
<1>0. b.calls \in Seq(Tools) /\ b.results \in SUBSET Tools
  BY DEF Builder
<1>1. /\ s \in Seq(Row) /\ Len(s) = 1 + c /\ s[1] = Assistant(b.calls)
      /\ \A j \in DOMAIN b.calls : 1 + j \in DOMAIN s /\ s[1 + j] = Result(b.calls[j], b.calls[j] \in b.results)
      /\ \A t \in 2 .. Len(s) : t - 1 \in DOMAIN b.calls
  BY RoundRows
<1>2. IsCall(s[1]) /\ s[1].calls = b.calls
  BY <1>0, <1>1, Makers
<1>3. c \in Nat /\ DOMAIN b.calls = 1 .. c
  BY <1>0
<1> HIDE DEF s, c
<1>4. s # <<>> /\ DOMAIN s = 1 .. 1 + c
  BY <1>1, <1>3
<1>5. ASSUME NEW t \in 2 .. Len(s) PROVE IsTool(s[t]) /\ s[t].id = s[1].calls[t - 1]
  <2>1. t - 1 \in DOMAIN b.calls /\ 1 + (t - 1) = t
    BY <1>1, <1>3
  <2>2. s[t] = Result(b.calls[t - 1], b.calls[t - 1] \in b.results)
    BY <1>1, <2>1
  <2> QED
    BY <1>2, <2>2, ResultsDiffer
<1>6. Piece(s)
  BY <1>1, <1>2, <1>3, <1>5 DEF Piece, c
<1>7. Whole(s)
  BY <1>1, <1>2, <1>6 DEF Whole, c
<1>8. ASSUME NEW id, Claims(s, id) PROVE id \in ToSet(b.calls)
  <2>1. PICK i \in DOMAIN s : IsCall(s[i]) /\ \E j \in DOMAIN s[i].calls : s[i].calls[j] = id
    BY <1>8 DEF Claims
  <2>2. i = 1
    BY <1>1, <1>6, <2>1, PieceRows
  <2> QED
    BY <1>2, <2>1, <2>2 DEF ToSet
<1>9. ASSUME NEW id \in ToSet(b.calls) PROVE Has(s, id, id \in b.results)
  <2>1. PICK j \in DOMAIN b.calls : b.calls[j] = id
    BY DEF ToSet
  <2> QED
    BY <1>1, <2>1 DEF Has
<1> QED
  BY <1>1, <1>4, <1>7, <1>8, <1>9 DEF s, c

\* What the builder is left with when it flushes.
LEMMA FlushTypes ==
  ASSUME NEW b \in Builder
  PROVE  NewRound(b) \in Seq(Row) /\ Flushed(b) \in Builder
<1>1. NewRound(b) \in Seq(Row)
  BY RoundRows DEF NewRound
<1>2. b.done \o NewRound(b) \in Seq(Row)
  BY <1>1 DEF Builder
<1>3. <<>> \in Seq(Tools) /\ {} \in SUBSET Tools
  OBVIOUS
<1> DEFINE all == b.done \o NewRound(b)
<1>4. Flushed(b) = [b EXCEPT !.text = FALSE, !.calls = <<>>, !.results = {}, !.done = all]
  BY DEF Flushed
<1> HIDE DEF all
<1>5. Flushed(b) \in Builder
  BY <1>2, <1>3, <1>4 DEF Builder, all
<1> QED
  BY <1>1, <1>5

LEMMA TypeInit == ASSUME MaxRuns \in Nat, Init PROVE TypeInv
<1>1. 0 \in Ids /\ <<>> \in Seq(Tools) /\ <<>> \in Seq(Row) /\ RunIds \subseteq Ids
  BY DEF Ids, RunIds
<1>2. bld \in Builder
  BY <1>1 DEF Init, Fresh, Builder
<1>3. Idle \in Dispatcher /\ Idle \in Closer /\ Idle.pc = "idle"
  BY <1>1 DEF Idle, Notice, Dispatcher, Closer, Note, States, CloserPc
<1>4. live \in [RunIds -> View]
  BY DEF Init, View, States
<1>5. run \in TheRun
  BY <1>1 DEF Init, TheRun
<1>6. rbSeen \in Seen
  BY <1>1 DEF Init, Seen
<1> QED
  BY <1>1, <1>2, <1>3, <1>4, <1>5, <1>6 DEF Init, TypeInv

\* The stitch keeps rows rows.
LEMMA StitchTypes ==
  ASSUME NEW d \in Seq(Row), NEW id \in Tools
  PROVE  Stitch(d, id) \in Seq(Row)
BY StitchKeeps

LEMMA WriteTypes ==
  ASSUME TypeInv, NEW rows \in Seq(Row), NEW n \in Ids, Write(rows, n)
  PROVE  disk' \in Seq(Row) /\ rbSeen' \in Seen
<1>1. CASE disk' = disk \o rows /\ UNCHANGED rbSeen
  BY <1>1 DEF TypeInv
<1>2. ASSUME NEW k \in 0 .. Len(rows) - 1, disk' = disk \o SubSeq(rows, 1, k),
             rbSeen' = [rbSeen EXCEPT !.fails = @ + 1, !.torn = @ \/ k > 0, !.errs = @ \cup ({n} \ {0})]
      PROVE  disk' \in Seq(Row) /\ rbSeen' \in Seen
  <2>1. SubSeq(rows, 1, k) \in Seq(Row)
    BY <1>2
  <2>2. disk' \in Seq(Row)
    BY <1>2, <2>1 DEF TypeInv
  <2> DEFINE f == rbSeen.fails + 1
  <2> DEFINE x == rbSeen.torn \/ k > 0
  <2> DEFINE y == rbSeen.errs \cup ({n} \ {0})
  <2>3. rbSeen \in Seen
    BY DEF TypeInv
  <2>4. f \in Nat /\ y \in SUBSET Ids
    BY <2>3 DEF Seen
  <2>5. x \in BOOLEAN
    OBVIOUS
  <2>6. rbSeen' = [rbSeen EXCEPT !.fails = f, !.torn = x, !.errs = y]
    BY <1>2
  <2> HIDE DEF f, x, y
  <2>7. rbSeen' \in Seen
    BY <2>3, <2>4, <2>5, <2>6 DEF Seen
  <2> QED
    BY <2>2, <2>7
<1> QED
  BY <1>1, <1>2 DEF Write

LEMMA ToldTypes ==
  ASSUME NEW v \in View, NEW e \in Note
  PROVE  Told(v, e) \in View
BY DEF View, Note, Told, States

LEMMA TellTypes ==
  ASSUME TypeInv, NEW h \in Ids, NEW e \in Note, Tell(h, e)
  PROVE  live' \in [RunIds -> View]
<1>1. CASE h = 0
  BY <1>1 DEF Tell, TypeInv
<1>2. CASE h # 0
  <2>1. h \in RunIds
    BY <1>2 DEF Ids, RunIds
  <2>2. Told(live[h], e) \in View
    BY <2>1, ToldTypes DEF TypeInv
  <2>3. live' = [live EXCEPT ![h] = Told(live[h], e)]
    BY <1>2 DEF Tell
  <2> QED
    BY <2>1, <2>2, <2>3 DEF TypeInv
<1> QED
  BY <1>1, <1>2

LEMMA IdleTypes == ASSUME MaxRuns \in Nat PROVE Idle \in Dispatcher /\ Idle \in Closer
BY DEF Ids, Idle, Notice, Dispatcher, Closer, Note, States, CloserPc

LEMMA LeaveTypes ==
  ASSUME MaxRuns \in Nat, TypeInv, NEW b \in Builder, NEW rows \in Seq(Row), NEW ev \in Note, Leave(b, rows, ev)
  PROVE  /\ bld' \in Builder /\ disp' \in Dispatcher /\ disp'.pc # "stitch"
         /\ UNCHANGED <<disk, live, run, closer, turn>>
<1>1. disp' = [Idle EXCEPT !.pc = IF rows # <<>> /\ bld.flush # 0 THEN "persist" ELSE "emit",
                           !.h = bld.h, !.rows = rows, !.fn = bld.flush, !.ev = ev]
  BY DEF Leave
<1>2. bld.h \in Ids /\ bld.flush \in Ids
  BY DEF TypeInv, Builder
<1>3. disp' \in Dispatcher
  BY <1>1, <1>2, IdleTypes DEF Dispatcher
<1>4. disp'.pc # "stitch"
  BY <1>1, IdleTypes DEF Dispatcher
<1> QED
  BY <1>3, <1>4 DEF Leave

LEMMA NoticeTypes ==
  ASSUME NEW ids \in SUBSET Tools, NEW as \in States, NEW open \in {"same", "yes", "no"}
  PROVE  Notice(ids, as, open) \in Note
BY DEF Notice, Note

\* What a closer becomes is a closer.
LEMMA CloserTypes ==
  ASSUME TypeInv, NEW a \in Closers, NEW c \in Closer, closer' = [closer EXCEPT ![a] = c]
  PROVE  closer' \in [Closers -> Closer] /\ closer'[a] = c
BY DEF TypeInv

LEMMA StepTypes ==
  ASSUME TypeInv, NEW a \in Closers, NEW pc \in CloserPc, Step(a, pc)
  PROVE  closer' \in [Closers -> Closer]
<1>1. closer[a] \in Closer
  BY DEF TypeInv
<1>2. closer' = [closer EXCEPT ![a] = [closer[a] EXCEPT !.pc = pc]]
  BY DEF Step
<1>3. [closer[a] EXCEPT !.pc = pc] \in Closer
  BY <1>1 DEF Closer
<1> QED
  BY <1>2, <1>3, CloserTypes

LEMMA TypeNext == ASSUME MaxRuns \in Nat, TypeInv, Next PROVE TypeInv'
<1>0. /\ bld \in Builder /\ disk \in Seq(Row) /\ live \in [RunIds -> View] /\ disp \in Dispatcher
      /\ run \in TheRun /\ closer \in [Closers -> Closer] /\ turn \in Ids /\ rbSeen \in Seen
  BY DEF TypeInv
<1>01. /\ bld.calls \in Seq(Tools) /\ bld.results \in SUBSET Tools /\ bld.late \in SUBSET Tools
       /\ bld.h \in Ids /\ bld.flush \in Ids /\ bld.stitch \in Ids /\ bld.done \in Seq(Row)
  BY <1>0 DEF Builder
<1>02. Pending(bld) \in SUBSET Tools
  BY <1>01 DEF Pending, ToSet
<1>03. Idle \in Dispatcher /\ Idle \in Closer /\ Idle.pc = "idle"
  BY IdleTypes DEF Idle
<1>04. ASSUME NEW a \in Closers PROVE closer[a] \in Closer
  BY <1>0
<1>05. run.n \in Ids /\ RunIds \subseteq Ids /\ 0 \in Ids /\ (run.n < MaxRuns => run.n + 1 \in RunIds)
  <2>1. run.n \in Ids
    BY <1>0 DEF TheRun
  <2> QED
    BY <2>1 DEF Ids, RunIds
<1>06. Counted \in Seen
  <2> DEFINE f == rbSeen.updates + 1
  <2>1. f \in Nat
    BY <1>0 DEF Seen
  <2>2. Counted = [rbSeen EXCEPT !.updates = f]
    BY DEF Counted
  <2> HIDE DEF f
  <2> QED
    BY <1>0, <2>1, <2>2 DEF Seen
<1>07. <<>> \in Seq(Row) /\ <<>> \in Seq(Tools)
  OBVIOUS
<1>08. rbSeen.fails + 1 \in Nat /\ rbSeen.stops + 1 \in Nat
  BY <1>0 DEF Seen
<1>09. [disp EXCEPT !.pc = "emit", !.rows = <<>>, !.fn = 0, !.id = ""] \in Dispatcher
  <2> DEFINE o == ""
  <2> DEFINE Back == Tools \cup {""}
  <2>1. o \in Back
    OBVIOUS
  <2> HIDE DEF o, Back
  <2>2. [disp EXCEPT !.pc = "emit", !.rows = <<>>, !.fn = 0, !.id = o] \in Dispatcher
    BY <1>0, <1>05, <1>07, <2>1 DEF Dispatcher, Back
  <2> QED
    BY <2>2 DEF o
<1>1. CASE OnMessageChunk
  <2> DEFINE eager == bld.calls # <<>>
  <2> DEFINE base == IF eager THEN [Flushed(bld) EXCEPT !.late = @ \cup Pending(bld)] ELSE bld
  <2> DEFINE b == [base EXCEPT !.text = TRUE, !.open = TRUE]
  <2> DEFINE rows == IF eager THEN Round(bld) ELSE <<>>
  <2> DEFINE ev == Notice(Pending(bld), "interrupted", "yes")
  <2>1. Flushed(bld) \in Builder
    BY <1>0, FlushTypes
  <2>2. base \in Builder
    BY <1>0, <1>02, <2>1 DEF Builder
  <2>3. b \in Builder
    <3> HIDE DEF base
    <3> QED
      BY <2>2 DEF Builder
  <2>4. rows \in Seq(Row)
    BY <1>0, RoundRows
  <2>5. ev \in Note
    BY <1>02, NoticeTypes DEF States
  <2>6. Leave(b, rows, ev) /\ rbSeen' = Counted
    BY <1>1 DEF OnMessageChunk
  <2> HIDE DEF b, rows, ev
  <2> QED
    BY <1>0, <1>06, <2>3, <2>4, <2>5, <2>6, LeaveTypes DEF TypeInv
<1>2. ASSUME NEW id \in Tools, OnToolCall(id) PROVE TypeInv'
  <2> DEFINE b == [bld EXCEPT !.calls = Append(@, id), !.open = FALSE]
  <2> DEFINE ev == Notice({id}, "started", Closing(bld))
  <2>1. b \in Builder
    <3>1. Append(bld.calls, id) \in Seq(Tools)
      BY <1>01
    <3> QED
      BY <1>0, <3>1 DEF Builder
  <2>2. ev \in Note
    BY NoticeTypes DEF States, Closing
  <2>3. Leave(b, <<>>, ev) /\ rbSeen' = [Counted EXCEPT !.owner[id] = turn, !.stray = @ \/ Stray(id)]
    BY <1>2 DEF OnToolCall
  <2>4. rbSeen' \in Seen
    BY <1>0, <1>06, <2>3 DEF Seen, Stray
  <2>5. <<>> \in Seq(Row)
    OBVIOUS
  <2> HIDE DEF b, ev
  <2> QED
    BY <1>0, <2>1, <2>2, <2>3, <2>4, <2>5, LeaveTypes DEF TypeInv
<1>3. ASSUME NEW id \in Tools, OnToolResult(id) PROVE TypeInv'
  <2> DEFINE b == [bld EXCEPT !.results = @ \cup {id}]
  <2> DEFINE full == Pending(b) = {}
  <2> DEFINE b2 == IF full THEN Flushed(b) ELSE b
  <2> DEFINE rows == IF full THEN Round(b) ELSE <<>>
  <2> DEFINE ev == Notice({id}, "result", "same")
  <2>1. b \in Builder
    BY <1>0 DEF Builder
  <2>2. ev \in Note
    BY NoticeTypes DEF States
  <2>3. Leave(b2, rows, ev) /\ rbSeen' = [Counted EXCEPT !.sent = @ \cup {id}, !.got[bld.h] = @ \cup {id}]
    BY <1>3 DEF OnToolResult
  <2>4. rbSeen' \in Seen
    <3>1. bld.h # 0
      BY <1>3 DEF OnToolResult, Accepts
    <3>2. bld.h \in RunIds
      BY <1>01, <3>1 DEF Ids, RunIds
    <3> QED
      BY <1>06, <2>3, <3>2 DEF Seen
  <2> HIDE DEF b
  <2>5. rows \in Seq(Row) /\ b2 \in Builder
    BY <2>1, RoundRows, FlushTypes
  <2> HIDE DEF b2, rows, ev
  <2> QED
    BY <1>0, <2>2, <2>3, <2>4, <2>5, LeaveTypes DEF TypeInv
<1>4. ASSUME NEW id \in Tools, OnLateTerminal(id) PROVE TypeInv'
  <2>1. bld' \in Builder
    <3>1. Stitch(bld.done, id) \in Seq(Row)
      BY <1>01, StitchTypes
    <3>2. bld' = [bld EXCEPT !.late = bld.late \ {id}, !.done = Stitch(bld.done, id)]
      BY <1>4 DEF OnLateTerminal
    <3> QED
      BY <1>0, <1>01, <3>1, <3>2 DEF Builder
  <2>2. disp' \in Dispatcher /\ disp'.id = id
    <3> DEFINE ev == Notice({id}, "result", "same")
    <3>1. ev \in Note
      BY NoticeTypes DEF States
    <3>2. disp' = [Idle EXCEPT !.pc = IF bld.stitch # 0 THEN "stitch" ELSE "emit",
                            !.h = bld.h, !.fn = bld.stitch, !.id = id, !.ev = ev]
      BY <1>4 DEF OnLateTerminal
    <3> HIDE DEF ev
    <3> QED
      BY <1>01, <1>03, <3>1, <3>2 DEF Dispatcher
  <2>3. rbSeen' \in Seen
    <3>1. bld.h # 0
      BY <1>4 DEF OnLateTerminal, Accepts
    <3>2. bld.h \in RunIds
      BY <1>01, <3>1 DEF Ids, RunIds
    <3>3. rbSeen' = [Counted EXCEPT !.sent = @ \cup {id}, !.got[bld.h] = @ \cup {id}]
      BY <1>4 DEF OnLateTerminal
    <3> QED
      BY <1>06, <3>2, <3>3 DEF Seen
  <2>4. UNCHANGED <<disk, live, run, closer, turn>>
    BY <1>4 DEF OnLateTerminal
  <2> QED
    BY <1>0, <2>1, <2>2, <2>3, <2>4 DEF TypeInv
<1>5. ASSUME NEW id \in Tools, DropTerminal(id) PROVE TypeInv'
  <2>1. rbSeen' \in Seen
    BY <1>06, <1>5 DEF DropTerminal, Seen
  <2>2. UNCHANGED <<bld, disk, live, disp, run, closer, turn>>
    BY <1>5 DEF DropTerminal
  <2> QED
    BY <2>1, <2>2 DEF TypeInv
<1>6. CASE DispatchPersist
  <2>1. disp.rows \in Seq(Row) /\ disp.fn \in Ids
    BY <1>0 DEF Dispatcher
  <2>2. disk' \in Seq(Row) /\ rbSeen' \in Seen
    BY <1>6, <2>1, WriteTypes DEF DispatchPersist
  <2>3. disp' \in Dispatcher /\ disp'.pc = "emit"
    <3>1. disp' = [disp EXCEPT !.pc = "emit", !.rows = <<>>, !.fn = 0, !.id = ""]
      BY <1>6 DEF DispatchPersist
    <3> QED
      BY <1>0, <1>09, <3>1 DEF Dispatcher
  <2>4. UNCHANGED <<bld, live, run, closer, turn>>
    BY <1>6 DEF DispatchPersist
  <2> QED
    BY <1>0, <2>2, <2>3, <2>4 DEF TypeInv
<1>7. CASE DispatchStitch
  <2>1. disp.id \in Tools /\ disp.fn \in Ids
    BY <1>0, <1>7 DEF Dispatcher, DispatchStitch, TypeInv
  <2>2. disk' \in Seq(Row)
    BY <1>0, <1>7, <2>1, StitchTypes DEF DispatchStitch
  <2>3. rbSeen' \in Seen
    <3> DEFINE f == rbSeen.fails + 1
    <3> DEFINE y == rbSeen.errs \cup {disp.fn}
    <3>1. rbSeen' = rbSeen \/ rbSeen' = [rbSeen EXCEPT !.fails = f, !.errs = y]
      BY <1>7 DEF DispatchStitch
    <3>2. f \in Nat /\ y \in SUBSET Ids
      BY <1>0, <1>08, <2>1 DEF Seen
    <3> HIDE DEF f, y
    <3> QED
      BY <1>0, <2>1, <3>1, <3>2 DEF Seen
  <2>4. disp' \in Dispatcher /\ disp'.pc = "emit"
    <3>1. disp' = [disp EXCEPT !.pc = "emit", !.rows = <<>>, !.fn = 0, !.id = ""]
      BY <1>7 DEF DispatchStitch
    <3> QED
      BY <1>0, <1>09, <3>1 DEF Dispatcher
  <2>5. UNCHANGED <<bld, live, run, closer, turn>>
    BY <1>7 DEF DispatchStitch
  <2> QED
    BY <1>0, <2>2, <2>3, <2>4, <2>5 DEF TypeInv
<1>8. CASE DispatchEmit
  <2>1. live' \in [RunIds -> View]
    <3>1. disp.h \in Ids /\ disp.ev \in Note
      BY <1>0 DEF Dispatcher
    <3> QED
      BY <1>8, <3>1, TellTypes DEF DispatchEmit
  <2>2. disp' = Idle /\ UNCHANGED <<bld, disk, run, closer, turn, rbSeen>>
    BY <1>8 DEF DispatchEmit
  <2> QED
    BY <1>0, <1>03, <2>1, <2>2 DEF TypeInv
<1>9. ASSUME NEW a \in Closers, EndsTaken(a) PROVE TypeInv'
  <2> DEFINE ev == Notice(Pending(bld), "interrupted", Closing(bld))
  <2> DEFINE c == [closer[a] EXCEPT !.pc = "tell", !.h = bld.h, !.ev = ev]
  <2>1. ev \in Note
    BY <1>02, NoticeTypes DEF States, Closing
  <2>2. closer' = [closer EXCEPT ![a] = c]
    BY <1>9 DEF EndsTaken
  <2> HIDE DEF ev
  <2>3. c \in Closer
    BY <1>01, <1>04, <2>1 DEF Closer, CloserPc
  <2> HIDE DEF c
  <2>4. closer' \in [Closers -> Closer]
    BY <2>2, <2>3, CloserTypes
  <2>5. bld' \in Builder
    BY <1>0, <1>9 DEF EndsTaken, Builder
  <2>6. UNCHANGED <<disk, live, disp, run, turn, rbSeen>>
    BY <1>9 DEF EndsTaken
  <2> QED
    BY <2>4, <2>5, <2>6 DEF TypeInv
<1>10. ASSUME NEW a \in Closers, EndsTold(a) PROVE TypeInv'
  <2>1. live' \in [RunIds -> View]
    <3>1. closer[a].h \in Ids /\ closer[a].ev \in Note
      BY <1>04 DEF Closer
    <3> QED
      BY <1>10, <3>1, TellTypes DEF EndsTold
  <2>2. closer' \in [Closers -> Closer]
    <3>1. \E pc \in CloserPc : Step(a, pc)
      BY <1>10 DEF EndsTold, CloserPc
    <3> QED
      BY <3>1, StepTypes
  <2>3. UNCHANGED <<bld, disk, disp, run, turn, rbSeen>>
    BY <1>10 DEF EndsTold
  <2> QED
    BY <2>1, <2>2, <2>3 DEF TypeInv
<1>11. CASE FlushHooked
  <2> DEFINE c == [closer["stop"] EXCEPT !.pc = "collect", !.id = IF bld.flush # 0 THEN "hooked" ELSE "inline"]
  <2>1. closer' = [closer EXCEPT !["stop"] = c]
    BY <1>11 DEF FlushHooked
  <2>2. "stop" \in Closers
    BY DEF Closers
  <2>3. c \in Closer
    BY <1>04, <2>2 DEF Closer, CloserPc
  <2> HIDE DEF c
  <2>4. closer' \in [Closers -> Closer]
    BY <2>1, <2>2, <2>3, CloserTypes
  <2>5. UNCHANGED <<bld, disk, live, disp, run, turn, rbSeen>>
    BY <1>11 DEF FlushHooked
  <2> QED
    BY <2>4, <2>5 DEF TypeInv
<1>12. ASSUME NEW a \in Closers, Collect(a) PROVE TypeInv'
  <2> DEFINE all == bld.done \o NewRound(bld)
  <2> DEFINE inline == a = "stop" /\ closer[a].id = "inline"
  <2> DEFINE rows == IF inline THEN all ELSE IF bld.flush # 0 THEN NewRound(bld) ELSE <<>>
  <2> DEFINE fn == IF inline THEN 0 ELSE bld.flush
  <2> DEFINE c == [Idle EXCEPT !.pc = IF rows # <<>> THEN "persist" ELSE "done", !.rows = rows, !.fn = fn]
  <2>1. NewRound(bld) \in Seq(Row) /\ Flushed(bld) \in Builder
    BY <1>0, FlushTypes
  <2>2. rows \in Seq(Row) /\ fn \in Ids
    BY <1>01, <1>05, <2>1
  <2>3. closer' = [closer EXCEPT ![a] = c] /\ bld' = [Flushed(bld) EXCEPT !.done = <<>>]
    BY <1>12 DEF Collect
  <2>4. bld' \in Builder
    BY <1>07, <2>1, <2>3 DEF Builder
  <2> HIDE DEF rows, fn
  <2>5. c \in Closer
    BY <1>03, <2>2 DEF Closer, CloserPc
  <2> HIDE DEF c
  <2>6. closer' \in [Closers -> Closer]
    BY <2>3, <2>5, CloserTypes
  <2>7. UNCHANGED <<disk, live, disp, run, turn, rbSeen>>
    BY <1>12 DEF Collect
  <2> QED
    BY <2>4, <2>6, <2>7 DEF TypeInv
<1>13. ASSUME NEW a \in Closers, ClosePersist(a) PROVE TypeInv'
  <2>1. closer[a].rows \in Seq(Row) /\ closer[a].fn \in Ids
    BY <1>04 DEF Closer
  <2>2. disk' \in Seq(Row) /\ rbSeen' \in Seen
    BY <1>13, <2>1, WriteTypes DEF ClosePersist
  <2> DEFINE c == [Idle EXCEPT !.pc = "done"]
  <2>3. closer' = [closer EXCEPT ![a] = c] /\ UNCHANGED <<bld, live, disp, run, turn>>
    BY <1>13 DEF ClosePersist
  <2>4. c \in Closer
    BY <1>03 DEF Closer, CloserPc
  <2> HIDE DEF c
  <2>5. closer' \in [Closers -> Closer]
    BY <2>3, <2>4, CloserTypes
  <2> QED
    BY <2>2, <2>3, <2>5 DEF TypeInv
<1>14. CASE BeginRun
  <2> DEFINE n == run.n + 1
  <2>1. n \in RunIds /\ n \in Ids
    BY <1>05, <1>14 DEF BeginRun
  <2>2. WithoutOrphans(disk) \in Seq(Row)
    <3>1. Orphans(disk) \subseteq DOMAIN disk /\ DOMAIN disk \subseteq Nat
      BY <1>0 DEF Orphans
    <3>2. CASE Orphans(disk) = {}
      BY <1>0, <3>2 DEF WithoutOrphans
    <3>3. CASE Orphans(disk) # {}
      <4> DEFINE m == CHOOSE i \in Orphans(disk) : \A j \in Orphans(disk) : i <= j
      <4>1. \E i \in Orphans(disk) : \A j \in Orphans(disk) : i <= j
        BY <3>1, <3>3, FirstExists
      <4>2. m \in DOMAIN disk
        BY <3>1, <4>1
      <4>3. WithoutOrphans(disk) = SubSeq(disk, 1, m - 1)
        BY <3>3 DEF WithoutOrphans
      <4> HIDE DEF m
      <4> QED
        BY <1>0, <4>2, <4>3
    <3> QED
      BY <3>2, <3>3
  <2>3. disk' \in Seq(Row)
    <3>1. User(n) \in Row
      BY <2>1, Makers
    <3>2. disk' \in {Append(WithoutOrphans(disk), User(n)), WithoutOrphans(disk), disk}
      BY <1>14 DEF BeginRun
    <3> DEFINE u == User(n)
    <3> DEFINE kept == WithoutOrphans(disk)
    <3>3. Append(kept, u) \in Seq(Row)
      <4> HIDE DEF u
      <4> QED
        BY <2>2, <3>1 DEF u
    <3> QED
      BY <1>0, <2>2, <3>2, <3>3
  <2>4. run' \in TheRun
    <3> HIDE DEF n
    <3>1. \/ run' = [run EXCEPT !.n = n, !.pc = "begun", !.res = "", !.cancelled = FALSE]
          \/ run' = [run EXCEPT !.n = n, !.res = "error", !.cancelled = FALSE]
      BY <1>14 DEF BeginRun, n
    <3> QED
      BY <1>0, <2>1, <3>1 DEF TheRun
  <2>5. rbSeen' \in Seen
    <3> HIDE DEF n
    <3>1. \/ rbSeen' = [rbSeen EXCEPT !.prompts = @ \cup {n}, !.torn = FALSE]
          \/ \E d : rbSeen' = [rbSeen EXCEPT !.fails = @ + 1, !.torn = @ /\ d # WithoutOrphans(disk)]
      BY <1>14 DEF BeginRun, n
    <3>2. CASE rbSeen' = [rbSeen EXCEPT !.prompts = @ \cup {n}, !.torn = FALSE]
      BY <1>0, <2>1, <3>2 DEF Seen
    <3>3. ASSUME NEW d, rbSeen' = [rbSeen EXCEPT !.fails = @ + 1, !.torn = @ /\ d # WithoutOrphans(disk)]
          PROVE  rbSeen' \in Seen
      <4> DEFINE x == rbSeen.torn /\ d # WithoutOrphans(disk)
      <4>1. x \in BOOLEAN
        OBVIOUS
      <4> DEFINE f == rbSeen.fails + 1
      <4>2. rbSeen' = [rbSeen EXCEPT !.fails = f, !.torn = x]
        BY <3>3
      <4>3. f \in Nat
        BY <1>08
      <4> HIDE DEF x, f
      <4> QED
        BY <1>0, <4>1, <4>2, <4>3 DEF Seen
    <3> QED
      BY <3>1, <3>2, <3>3
  <2>6. UNCHANGED <<bld, live, disp, closer, turn>>
    BY <1>14 DEF BeginRun
  <2> QED
    BY <2>3, <2>4, <2>5, <2>6 DEF TypeInv
<1>15. CASE Reset
  <2>1. bld' \in Builder
    BY <1>05, <1>15 DEF Reset, Fresh, Builder
  <2>2. run' \in TheRun
    BY <1>0, <1>15 DEF Reset, To, TheRun
  <2>3. UNCHANGED <<disk, live, disp, closer, turn, rbSeen>>
    BY <1>15 DEF Reset
  <2> QED
    BY <2>1, <2>2, <2>3 DEF TypeInv
<1>16. CASE Prompt
  <2>1. run' \in TheRun
    BY <1>0, <1>16 DEF Prompt, To, TheRun
  <2>2. turn' \in Ids
    BY <1>0, <1>05, <1>16 DEF Prompt
  <2>3. rbSeen' \in Seen
    <3> DEFINE s == IF rbSeen.torn THEN {run.n} ELSE {}
    <3>1. s \in SUBSET Ids
      BY <1>05
    <3>2. rbSeen' = rbSeen \/ rbSeen' = [rbSeen EXCEPT !.behind = @ \cup s]
      BY <1>16 DEF Prompt
    <3> HIDE DEF s
    <3> QED
      BY <1>0, <3>1, <3>2 DEF Seen
  <2>4. UNCHANGED <<bld, disk, live, disp, closer>>
    BY <1>16 DEF Prompt
  <2> QED
    BY <2>1, <2>2, <2>3, <2>4 DEF TypeInv
<1>17. ASSUME NEW res \in {"error", "ok"}, Finish(res), turn' \in Ids PROVE TypeInv'
  <2>1. run' \in TheRun
    BY <1>0, <1>17 DEF Finish, TheRun
  <2>2. closer' \in [Closers -> Closer]
    <3>1. "run" \in Closers /\ "ends" \in CloserPc
      BY DEF Closers, CloserPc
    <3> QED
      BY <1>17, <3>1, StepTypes DEF Finish
  <2>3. UNCHANGED <<bld, disk, live, disp, rbSeen>>
    BY <1>17 DEF Finish
  <2> QED
    BY <1>17, <2>1, <2>2, <2>3 DEF TypeInv
<1>18. CASE EndTurn
  <2>1. \E res \in {"error", "ok"} : Finish(res)
    BY <1>18 DEF EndTurn
  <2>2. turn' \in Ids
    BY <1>05, <1>18 DEF EndTurn
  <2> QED
    BY <1>17, <2>1, <2>2
<1>19. CASE PromptFails
  <2>1. turn' \in Ids
    BY <1>0, <1>19 DEF PromptFails
  <2> QED
    BY <1>17, <1>19, <2>1 DEF PromptFails
<1>20. CASE ClearHandler
  <2>1. bld' \in Builder
    BY <1>0, <1>05, <1>20 DEF ClearHandler, Builder
  <2>2. run' \in TheRun
    BY <1>0, <1>20 DEF ClearHandler, To, TheRun
  <2>3. closer' \in [Closers -> Closer]
    <3>1. "run" \in Closers /\ "idle" \in CloserPc
      BY DEF Closers, CloserPc
    <3> QED
      BY <1>20, <3>1, StepTypes DEF ClearHandler
  <2>4. UNCHANGED <<disk, live, disp, turn, rbSeen>>
    BY <1>20 DEF ClearHandler
  <2> QED
    BY <2>1, <2>2, <2>3, <2>4 DEF TypeInv
<1>21. CASE Capture
  <2>1. run' \in TheRun
    BY <1>0, <1>21 DEF Capture, To, TheRun
  <2>2. rbSeen' \in Seen
    <3> DEFINE s == IF run.res = "ok" /\ run.n \notin rbSeen.errs THEN {run.n} ELSE {}
    <3>1. s \in SUBSET Ids
      BY <1>05
    <3>2. rbSeen' = [rbSeen EXCEPT !.ok = @ \cup s]
      BY <1>21 DEF Capture
    <3> HIDE DEF s
    <3> QED
      BY <1>0, <3>1, <3>2 DEF Seen
  <2>3. UNCHANGED <<bld, disk, live, disp, closer, turn>>
    BY <1>21 DEF Capture
  <2> QED
    BY <2>1, <2>2, <2>3 DEF TypeInv
<1>22. CASE ClearOnFlush
  <2>1. bld' \in Builder
    BY <1>0, <1>05, <1>22 DEF ClearOnFlush, Builder
  <2>2. run' \in TheRun
    BY <1>0, <1>22 DEF ClearOnFlush, To, TheRun
  <2>3. UNCHANGED <<disk, live, disp, closer, turn, rbSeen>>
    BY <1>22 DEF ClearOnFlush
  <2> QED
    BY <2>1, <2>2, <2>3 DEF TypeInv
<1>23. CASE StopAndFlush
  <2>1. run' \in TheRun
    <3> DEFINE x == run.pc # "idle"
    <3>1. x \in BOOLEAN
      OBVIOUS
    <3>2. run' = [run EXCEPT !.cancelled = x]
      BY <1>23 DEF StopAndFlush
    <3> HIDE DEF x
    <3> QED
      BY <1>0, <3>1, <3>2 DEF TheRun
  <2>2. closer' \in [Closers -> Closer]
    <3>1. "stop" \in Closers /\ "wait" \in CloserPc
      BY DEF Closers, CloserPc
    <3> QED
      BY <1>23, <3>1, StepTypes DEF StopAndFlush
  <2>3. rbSeen' \in Seen
    <3> DEFINE f == rbSeen.stops + 1
    <3>1. rbSeen' = [rbSeen EXCEPT !.stops = f]
      BY <1>23 DEF StopAndFlush
    <3>2. f \in Nat
      BY <1>08
    <3> HIDE DEF f
    <3> QED
      BY <1>0, <3>1, <3>2 DEF Seen
  <2>4. UNCHANGED <<bld, disk, live, disp, turn>>
    BY <1>23 DEF StopAndFlush
  <2> QED
    BY <2>1, <2>2, <2>3, <2>4 DEF TypeInv
<1>24. CASE StopWaited \/ StopDone
  <2>1. closer' \in [Closers -> Closer]
    <3>1. "stop" \in Closers /\ "ends" \in CloserPc /\ "idle" \in CloserPc
      BY DEF Closers, CloserPc
    <3> QED
      BY <1>24, <3>1, StepTypes DEF StopWaited, StopDone
  <2>2. UNCHANGED <<bld, disk, live, disp, run, turn, rbSeen>>
    BY <1>24 DEF StopWaited, StopDone
  <2> QED
    BY <2>1, <2>2 DEF TypeInv
<1>25. CASE Crash
  <2>1. disk' \in Seq(Row)
    <3>1. CASE UNCHANGED disk
      BY <1>0, <3>1
    <3>2. ASSUME NEW rows \in {disp.rows, closer["run"].rows, closer["stop"].rows}, NEW k \in 1 .. Len(rows) - 1,
                 disk' = disk \o SubSeq(rows, 1, k)
          PROVE  disk' \in Seq(Row)
      <4>1. "run" \in Closers /\ "stop" \in Closers
        BY DEF Closers
      <4>2. rows \in Seq(Row)
        BY <1>0, <1>04, <3>2, <4>1 DEF Dispatcher, Closer
      <4>3. SubSeq(rows, 1, k) \in Seq(Row)
        BY <4>2
      <4> QED
        BY <1>0, <3>2, <4>3
    <3> QED
      BY <1>25, <3>1, <3>2 DEF Crash
  <2>2. bld' \in Builder
    BY <1>05, <1>07, <1>25 DEF Crash, Fresh, Builder
  <2>3. disp' = Idle /\ closer' = [a \in Closers |-> Idle] /\ turn' = 0
    BY <1>25 DEF Crash
  <2>4. run' \in TheRun
    BY <1>0, <1>25 DEF Crash, TheRun
  <2>5. rbSeen' \in Seen
    <3> DEFINE f == rbSeen.fails + 1
    <3>1. rbSeen' = [rbSeen EXCEPT !.fails = f, !.torn = TRUE]
      BY <1>25 DEF Crash
    <3>2. f \in Nat
      BY <1>08
    <3> HIDE DEF f
    <3> QED
      BY <1>0, <3>1, <3>2 DEF Seen
  <2>6. live' \in [RunIds -> View]
    BY <1>25 DEF Crash, View, States
  <2>7. closer' \in [Closers -> Closer]
    BY <1>03, <2>3
  <2> QED
    BY <1>03, <1>05, <2>1, <2>2, <2>3, <2>4, <2>5, <2>6, <2>7 DEF TypeInv
<1> QED
  BY <1>1, <1>2, <1>3, <1>4, <1>5, <1>6, <1>7, <1>8, <1>9, <1>10, <1>11, <1>12, <1>13, <1>14, <1>15, <1>16,
     <1>18, <1>19, <1>20, <1>21, <1>22, <1>23, <1>24, <1>25
     DEF Next, Updates, RunStep, CloseRound

(***************************************************************************)
(* What may be at work at once.                                            *)
(***************************************************************************)
\* The calls of the round differ, and as long as there are any one of them is open.
BldInv ==
  /\ Distinct(bld.calls)
  /\ bld.results \subseteq ToSet(bld.calls)
  /\ bld.calls # <<>> => Pending(bld) # {}

StopPc == {"ends", "tell", "hooked", "collect", "persist", "done"}

\* The Run, its close-out, the stop, and the handlers that the builder has meanwhile.
RunInv ==
  /\ closer["run"].pc \notin {"wait", "hooked"}
  /\ run.pc = "closing" <=> closer["run"].pc # "idle"
  /\ run.pc # "idle" => run.n # 0
  /\ run.pc \in {"wired", "prompt", "closing"} =>
        bld.h = run.n /\ bld.flush = run.n /\ bld.stitch = run.n
  /\ run.pc \in {"capture", "unwire"} => bld.flush = run.n
  /\ run.pc \in {"idle", "begun"} => bld.flush = 0
  /\ bld.h <= run.n
  /\ run.pc = "wired" => bld.late = {}
  /\ closer["stop"].pc \in StopPc =>
        run.pc = "idle" \/ (run.cancelled /\ run.pc \notin {"begun", "wired"})
  /\ closer["stop"].pc = "collect" /\ closer["stop"].id = "inline" => run.pc = "idle"

\* The dispatcher works for the Run that is prompting or, late, for one before it.
TurnInv ==
  /\ run.res = "ok" =>
        /\ turn = 0 /\ disp.pc = "idle" /\ bld.calls = <<>>
        /\ run.pc \in {"closing", "capture", "unwire", "idle"}
        /\ run.pc = "capture" => bld.h = 0
  /\ run.pc \in {"prompt", "closing"} /\ disp.pc # "idle" => disp.h = run.n
  /\ run.pc \in {"prompt", "closing"} /\ disp.pc \in {"persist", "stitch"} => disp.fn = run.n
  /\ run.pc \in {"begun", "wired"} /\ disp.pc # "idle" => disp.h < run.n
  /\ disp.h <= run.n
  /\ disp.pc = "stitch" => disp.id \notin bld.late

\* Nobody works any more for a Run that has reported success, but a stop that came too late.
WhoInv ==
  /\ \A a \in Closers : closer[a].pc = "persist" =>
        closer[a].fn = run.n \/ (a = "stop" /\ closer[a].fn = 0 /\ run.pc = "idle")
  /\ \A a \in Closers : closer[a].pc = "tell" => closer[a].h <= run.n
  /\ closer["run"].pc = "tell" => closer["run"].h = run.n
  /\ rbSeen.ok \subseteq 1 .. run.n /\ rbSeen.prompts \subseteq 1 .. run.n
  /\ run.n \in rbSeen.ok => run.pc \in {"unwire", "idle"}
  /\ disp.pc # "idle" => disp.h \notin rbSeen.ok
  /\ bld.h \notin rbSeen.ok

PhaseInv == BldInv /\ RunInv /\ TurnInv /\ WhoInv

\* A call more in the round.
LEMMA CallsGrow ==
  ASSUME NEW calls \in Seq(Tools), NEW id \in Tools
  PROVE  /\ Append(calls, id) \in Seq(Tools) /\ Append(calls, id) # <<>>
         /\ ToSet(Append(calls, id)) = ToSet(calls) \cup {id}
         /\ Distinct(calls) /\ id \notin ToSet(calls) => Distinct(Append(calls, id))
<1> DEFINE e == Append(calls, id)
<1>1. /\ e \in Seq(Tools) /\ e # <<>> /\ DOMAIN e = DOMAIN calls \cup {Len(calls) + 1}
      /\ e[Len(calls) + 1] = id /\ \A i \in DOMAIN calls : e[i] = calls[i] /\ i # Len(calls) + 1
  OBVIOUS
<1> HIDE DEF e
<1>2. ToSet(e) = ToSet(calls) \cup {id}
  BY <1>1 DEF ToSet
<1>3. Distinct(calls) /\ id \notin ToSet(calls) => Distinct(e)
  BY <1>1 DEF Distinct, ToSet
<1> QED
  BY <1>1, <1>2, <1>3 DEF e

LEMMA BldInit == ASSUME Init PROVE BldInv
<1>1. bld.calls = <<>> /\ bld.results = {}
  BY DEF Init, Fresh
<1> QED
  BY <1>1 DEF BldInv, Distinct

LEMMA BldNext == ASSUME TypeInv, BldInv, Next PROVE BldInv'
<1>0. bld \in Builder /\ bld.calls \in Seq(Tools) /\ bld.results \in SUBSET Tools
  BY DEF TypeInv, Builder
<1>1. ASSUME bld'.calls = <<>>, bld'.results = {} PROVE BldInv'
  BY <1>1 DEF BldInv, Distinct
<1>2. ASSUME bld'.calls = bld.calls, bld'.results = bld.results PROVE BldInv'
  <2>1. Pending(bld)' = Pending(bld)
    BY <1>2 DEF Pending
  <2> QED
    BY <1>2, <2>1 DEF BldInv
<1>3. Flushed(bld).calls = <<>> /\ Flushed(bld).results = {} /\ Flushed(bld) \in Builder
  BY <1>0, FlushTypes DEF Flushed, Builder
<1>4. CASE OnMessageChunk
  <2> DEFINE base == IF bld.calls # <<>> THEN [Flushed(bld) EXCEPT !.late = @ \cup Pending(bld)] ELSE bld
  <2>1. bld' = [base EXCEPT !.text = TRUE, !.open = TRUE]
    BY <1>4 DEF OnMessageChunk, Leave
  <2>2. CASE bld.calls # <<>>
    BY <1>1, <1>3, <2>1, <2>2 DEF Builder
  <2>3. CASE bld.calls = <<>>
    BY <1>0, <1>2, <2>1, <2>3 DEF Builder
  <2> QED
    BY <2>2, <2>3
<1>5. ASSUME NEW id \in Tools, OnToolCall(id) PROVE BldInv'
  <2>1. bld' = [bld EXCEPT !.calls = Append(@, id), !.open = FALSE] /\ id \notin ToSet(bld.calls)
    BY <1>5 DEF OnToolCall, Leave, Declared
  <2>2. bld'.calls = Append(bld.calls, id) /\ bld'.results = bld.results
    BY <1>0, <2>1 DEF Builder
  <2>3. Distinct(bld'.calls) /\ ToSet(bld'.calls) = ToSet(bld.calls) \cup {id}
    BY <1>0, <2>1, <2>2, CallsGrow DEF BldInv
  <2>4. id \in Pending(bld)'
    BY <2>1, <2>2, <2>3 DEF Pending, BldInv
  <2> QED
    BY <2>2, <2>3, <2>4 DEF BldInv
<1>6. ASSUME NEW id \in Tools, OnToolResult(id) PROVE BldInv'
  <2> DEFINE b == [bld EXCEPT !.results = @ \cup {id}]
  <2>1. bld' = IF Pending(b) = {} THEN Flushed(b) ELSE b
    BY <1>6 DEF OnToolResult, Leave
  <2>2. b \in Builder /\ b.calls = bld.calls /\ b.results = bld.results \cup {id}
    BY <1>0 DEF Builder
  <2>3. id \in ToSet(bld.calls)
    BY <1>6 DEF OnToolResult, Pending
  <2> HIDE DEF b
  <2>4. CASE Pending(b) = {}
    <3>1. Flushed(b).calls = <<>> /\ Flushed(b).results = {}
      BY <2>2 DEF Flushed, Builder
    <3> QED
      BY <1>1, <2>1, <2>4, <3>1
  <2>5. CASE Pending(b) # {}
    BY <2>1, <2>2, <2>3, <2>5 DEF BldInv
  <2> QED
    BY <2>4, <2>5
<1>7. ASSUME NEW id \in Tools, OnLateTerminal(id) PROVE BldInv'
  BY <1>0, <1>2, <1>7 DEF OnLateTerminal, Builder
<1>8. ASSUME NEW a \in Closers, Collect(a) PROVE BldInv'
  <2>1. bld' = [Flushed(bld) EXCEPT !.done = <<>>]
    BY <1>8 DEF Collect
  <2> QED
    BY <1>1, <1>3, <2>1 DEF Builder
<1>9. ASSUME NEW a \in Closers, EndsTaken(a) PROVE BldInv'
  BY <1>0, <1>2, <1>9 DEF EndsTaken, Builder
<1>10. CASE Reset
  BY <1>1, <1>10 DEF Reset, Fresh
<1>11. CASE ClearHandler \/ ClearOnFlush
  BY <1>0, <1>2, <1>11 DEF ClearHandler, ClearOnFlush, Builder
<1>12. CASE Crash
  BY <1>1, <1>12 DEF Crash, Fresh
<1>13. CASE UNCHANGED bld
  BY <1>2, <1>13
<1> QED
  BY <1>4, <1>5, <1>6, <1>7, <1>8, <1>9, <1>10, <1>11, <1>12, <1>13
     DEF Next, Updates, RunStep, CloseRound, DropTerminal, DispatchPersist, DispatchStitch, DispatchEmit,
         EndsTold, ClosePersist, BeginRun, Prompt, EndTurn, PromptFails, Finish, Capture, FlushHooked,
         StopAndFlush, StopWaited, StopDone

\* What a step on one closer does to the two of them.
LEMMA StepCloser ==
  ASSUME TypeInv, NEW a \in Closers, NEW pc, Step(a, pc)
  PROVE  /\ closer'[a].pc = pc /\ closer'[a].id = closer[a].id /\ closer'[a].rows = closer[a].rows
         /\ closer'[a].fn = closer[a].fn /\ closer'[a].h = closer[a].h /\ closer'[a].ev = closer[a].ev
         /\ \A o \in Closers : o # a => closer'[o] = closer[o]
<1>1. closer[a] \in Closer
  BY DEF TypeInv
<1>2. closer'[a] = [closer[a] EXCEPT !.pc = pc] /\ \A o \in Closers : o # a => closer'[o] = closer[o]
  BY DEF Step, TypeInv
<1> QED
  BY <1>1, <1>2 DEF Closer

LEMMA RunInit == ASSUME Init PROVE RunInv
<1>1. bld.h = 0 /\ bld.flush = 0 /\ bld.calls = <<>> /\ ~bld.text /\ bld.done = <<>>
  BY DEF Init, Fresh
<1>2. run.n = 0 /\ run.pc = "idle"
  BY DEF Init
<1>3. closer["run"].pc = "idle" /\ closer["stop"].pc = "idle"
  BY DEF Init, Idle, Closers
<1> QED
  BY <1>1, <1>2, <1>3 DEF RunInv, StopPc

LEMMA RunNext == ASSUME MaxRuns \in Nat, TypeInv, RunInv, Next PROVE RunInv'
<1>0. /\ bld \in Builder /\ run \in TheRun /\ closer \in [Closers -> Closer] /\ "run" \in Closers /\ "stop" \in Closers
      /\ closer["run"] \in Closer /\ closer["stop"] \in Closer
  BY DEF TypeInv, Closers
<1>01. run.n \in Nat /\ bld.h \in Nat
  <2>1. run.n \in Ids /\ bld.h \in Ids
    BY <1>0 DEF TheRun, Builder
  <2> QED
    BY <2>1 DEF Ids
<1>1. ASSUME UNCHANGED <<run, closer>>, Accepts, bld'.h = bld.h, bld'.flush = bld.flush, bld'.stitch = bld.stitch
      PROVE  RunInv'
  BY <1>1 DEF RunInv, Accepts
<1>2. Flushed(bld) \in Builder /\ Flushed(bld).h = bld.h /\ Flushed(bld).flush = bld.flush
      /\ Flushed(bld).stitch = bld.stitch /\ Flushed(bld).late = bld.late
      /\ Flushed(bld).calls = <<>> /\ Flushed(bld).text = FALSE
  BY <1>0, FlushTypes DEF Flushed, Builder
<1>3. CASE OnMessageChunk
  <2> DEFINE base == IF bld.calls # <<>> THEN [Flushed(bld) EXCEPT !.late = @ \cup Pending(bld)] ELSE bld
  <2>1. bld' = [base EXCEPT !.text = TRUE, !.open = TRUE] /\ UNCHANGED <<run, closer>> /\ Accepts
    BY <1>3 DEF OnMessageChunk, Leave
  <2>2. base \in Builder /\ base.h = bld.h /\ base.flush = bld.flush /\ base.stitch = bld.stitch
    <3>1. Pending(bld) \in SUBSET Tools
      BY <1>0 DEF Pending, ToSet, Builder
    <3> QED
      BY <1>0, <1>2, <3>1 DEF Builder
  <2> HIDE DEF base
  <2>3. bld'.h = bld.h /\ bld'.flush = bld.flush /\ bld'.stitch = bld.stitch
    BY <2>1, <2>2 DEF Builder
  <2> QED
    BY <1>1, <2>1, <2>3
<1>4. ASSUME NEW id \in Tools, OnToolCall(id) PROVE RunInv'
  <2>1. bld' = [bld EXCEPT !.calls = Append(@, id), !.open = FALSE] /\ UNCHANGED <<run, closer>> /\ Accepts
    BY <1>4 DEF OnToolCall, Leave
  <2>2. bld'.h = bld.h /\ bld'.flush = bld.flush /\ bld'.stitch = bld.stitch
    BY <1>0, <2>1 DEF Builder
  <2> QED
    BY <1>1, <2>1, <2>2
<1>5. ASSUME NEW id \in Tools, OnToolResult(id) PROVE RunInv'
  <2> DEFINE b == [bld EXCEPT !.results = @ \cup {id}]
  <2>1. bld' = (IF Pending(b) = {} THEN Flushed(b) ELSE b) /\ UNCHANGED <<run, closer>> /\ Accepts
    BY <1>5 DEF OnToolResult, Leave
  <2>2. b \in Builder /\ b.h = bld.h /\ b.flush = bld.flush /\ b.stitch = bld.stitch
    BY <1>0 DEF Builder
  <2> HIDE DEF b
  <2>3. Flushed(b).h = b.h /\ Flushed(b).flush = b.flush /\ Flushed(b).stitch = b.stitch
    BY <2>2 DEF Flushed, Builder
  <2>4. bld'.h = bld.h /\ bld'.flush = bld.flush /\ bld'.stitch = bld.stitch
    BY <2>1, <2>2, <2>3
  <2> QED
    BY <1>1, <2>1, <2>4
<1>6. ASSUME NEW id \in Tools, OnLateTerminal(id) PROVE RunInv'
  <2>1. bld' = [bld EXCEPT !.late = @ \ {id}, !.done = Stitch(@, id)] /\ UNCHANGED <<run, closer>> /\ Accepts
    BY <1>6 DEF OnLateTerminal
  <2>2. bld'.h = bld.h /\ bld'.flush = bld.flush /\ bld'.stitch = bld.stitch
    BY <1>0, <2>1 DEF Builder
  <2> QED
    BY <1>1, <2>1, <2>2
<1>7. CASE UNCHANGED <<bld, run, closer>>
  BY <1>7 DEF RunInv
<1>8. ASSUME NEW a \in Closers, EndsTaken(a) PROVE RunInv'
  <2>1. bld' = [bld EXCEPT !.open = FALSE] /\ UNCHANGED run /\ closer[a].pc = "ends"
    BY <1>8 DEF EndsTaken
  <2>2. /\ bld'.h = bld.h /\ bld'.flush = bld.flush /\ bld'.stitch = bld.stitch /\ bld'.calls = bld.calls
        /\ bld'.text = bld.text /\ bld'.done = bld.done /\ bld'.late = bld.late
    BY <1>0, <2>1 DEF Builder
  <2>3. closer'[a].pc = "tell" /\ \A o \in Closers : o # a => closer'[o] = closer[o]
    BY <1>0, <1>8 DEF EndsTaken, Closer
  <2>4. CASE a = "run"
    BY <1>0, <2>1, <2>2, <2>3, <2>4 DEF RunInv
  <2>5. CASE a = "stop"
    BY <1>0, <2>1, <2>2, <2>3, <2>5 DEF RunInv, StopPc
  <2> QED
    BY <2>4, <2>5 DEF Closers
<1>9. ASSUME NEW a \in Closers, EndsTold(a) PROVE RunInv'
  <2>1. UNCHANGED <<bld, run>> /\ closer[a].pc = "tell" /\ Step(a, IF a = "run" THEN "collect" ELSE "hooked")
    BY <1>9 DEF EndsTold
  <2>2. closer'[a].pc = (IF a = "run" THEN "collect" ELSE "hooked") /\ \A o \in Closers : o # a => closer'[o] = closer[o]
    BY <2>1, StepCloser
  <2>3. CASE a = "run"
    BY <1>0, <2>1, <2>2, <2>3 DEF RunInv
  <2>4. CASE a = "stop"
    BY <1>0, <2>1, <2>2, <2>4 DEF RunInv, StopPc
  <2> QED
    BY <2>3, <2>4 DEF Closers
<1>10. CASE FlushHooked
  <2>1. UNCHANGED <<bld, run>> /\ closer["stop"].pc = "hooked"
    BY <1>10 DEF FlushHooked
  <2>2. /\ closer'["stop"].pc = "collect" /\ closer'["run"] = closer["run"]
        /\ closer'["stop"].id = IF bld.flush # 0 THEN "hooked" ELSE "inline"
    BY <1>0, <1>10 DEF FlushHooked, Closer
  <2>3. bld.flush = 0 => run.pc = "idle"
    BY <2>1, <1>0 DEF RunInv, TheRun, StopPc
  <2> QED
    BY <1>0, <2>1, <2>2, <2>3 DEF RunInv, StopPc
<1>11. ASSUME NEW a \in Closers, Collect(a) PROVE RunInv'
  <2>1. bld' = [Flushed(bld) EXCEPT !.done = <<>>] /\ UNCHANGED run /\ closer[a].pc = "collect"
    BY <1>11 DEF Collect
  <2>2. /\ bld'.h = bld.h /\ bld'.flush = bld.flush /\ bld'.stitch = bld.stitch /\ bld'.calls = <<>>
        /\ bld'.text = FALSE /\ bld'.done = <<>> /\ bld'.late = bld.late
    BY <1>2, <2>1 DEF Builder
  <2>3. closer'[a].pc \in {"persist", "done"} /\ \A o \in Closers : o # a => closer'[o] = closer[o]
    BY <1>0, <1>11 DEF Collect, Idle
  <2>4. CASE a = "run"
    BY <1>0, <2>1, <2>2, <2>3, <2>4 DEF RunInv
  <2>5. CASE a = "stop"
    BY <1>0, <2>1, <2>2, <2>3, <2>5 DEF RunInv, StopPc
  <2> QED
    BY <2>4, <2>5 DEF Closers
<1>12. ASSUME NEW a \in Closers, ClosePersist(a) PROVE RunInv'
  <2>1. UNCHANGED <<bld, run>> /\ closer[a].pc = "persist"
    BY <1>12 DEF ClosePersist
  <2>2. closer'[a].pc = "done" /\ \A o \in Closers : o # a => closer'[o] = closer[o]
    BY <1>0, <1>12 DEF ClosePersist, Idle
  <2>3. CASE a = "run"
    BY <1>0, <2>1, <2>2, <2>3 DEF RunInv
  <2>4. CASE a = "stop"
    BY <1>0, <2>1, <2>2, <2>4 DEF RunInv, StopPc
  <2> QED
    BY <2>3, <2>4 DEF Closers
<1>13. CASE BeginRun
  <2>1. UNCHANGED <<bld, closer>> /\ run.pc = "idle" /\ closer["stop"].pc = "idle"
    BY <1>13 DEF BeginRun, RunAt
  <2>2. run'.n = run.n + 1 /\ run'.pc \in {"begun", "idle"}
    <3> DEFINE n == run.n + 1
    <3>1. \/ run' = [run EXCEPT !.n = n, !.pc = "begun", !.res = "", !.cancelled = FALSE]
          \/ run' = [run EXCEPT !.n = n, !.res = "error", !.cancelled = FALSE]
      BY <1>13 DEF BeginRun
    <3>2. run'.n = n /\ run'.pc \in {"begun", "idle"}
      <4> HIDE DEF n
      <4> QED
        BY <1>0, <2>1, <3>1 DEF TheRun
    <3> QED
      BY <3>2
  <2>3. bld.h <= run'.n /\ run'.n # 0
    BY <1>01, <2>2 DEF RunInv
  <2> QED
    BY <1>0, <2>1, <2>2, <2>3 DEF RunInv, StopPc
<1>14. CASE Reset
  <2>1. UNCHANGED closer /\ run.pc = "begun" /\ bld' = Fresh(run.n) /\ run' = [run EXCEPT !.pc = "wired"]
    BY <1>14 DEF Reset, RunAt, To
  <2>2. run'.pc = "wired" /\ run'.n = run.n /\ run'.cancelled = run.cancelled
    BY <1>0, <2>1 DEF TheRun
  <2> QED
    BY <1>0, <1>01, <2>1, <2>2 DEF RunInv, StopPc, Fresh
<1>15. CASE Prompt
  <2>1. UNCHANGED <<bld, closer>> /\ run.pc = "wired" /\ run'.pc \in {"prompt", "capture"}
        /\ run'.n = run.n /\ run'.cancelled = run.cancelled
    BY <1>0, <1>15 DEF Prompt, RunAt, To, TheRun
  <2> QED
    BY <1>0, <2>1 DEF RunInv, StopPc
<1>16. CASE EndTurn \/ PromptFails
  <2>1. UNCHANGED bld /\ Step("run", "ends") /\ run.pc = "prompt"
    BY <1>16 DEF EndTurn, PromptFails, Finish, RunAt
  <2>2. run'.pc = "closing" /\ run'.n = run.n /\ run'.cancelled = run.cancelled
    BY <1>0, <1>16 DEF EndTurn, PromptFails, Finish, TheRun
  <2>3. closer'["run"].pc = "ends" /\ closer'["stop"] = closer["stop"]
    BY <1>0, <2>1, StepCloser
  <2> QED
    BY <1>0, <2>1, <2>2, <2>3 DEF RunInv, StopPc
<1>17. CASE ClearHandler
  <2>1. bld' = [bld EXCEPT !.h = 0] /\ Step("run", "idle") /\ run.pc = "closing" /\ closer["run"].pc = "done"
    BY <1>17 DEF ClearHandler, RunAt
  <2>2. run'.pc = "capture" /\ run'.n = run.n /\ run'.cancelled = run.cancelled
    BY <1>0, <1>17 DEF ClearHandler, To, TheRun
  <2>3. closer'["run"].pc = "idle" /\ closer'["stop"] = closer["stop"]
    BY <1>0, <2>1, StepCloser
  <2>4. /\ bld'.h = 0 /\ bld'.flush = bld.flush /\ bld'.calls = bld.calls
        /\ bld'.text = bld.text /\ bld'.done = bld.done
    BY <1>0, <2>1 DEF Builder
  <2> QED
    BY <1>0, <1>01, <2>1, <2>2, <2>3, <2>4 DEF RunInv, StopPc
<1>18. CASE Capture
  <2>1. UNCHANGED <<bld, closer>> /\ run.pc = "capture" /\ run'.pc = "unwire"
        /\ run'.n = run.n /\ run'.cancelled = run.cancelled
    BY <1>0, <1>18 DEF Capture, RunAt, To, TheRun
  <2> QED
    BY <1>0, <2>1 DEF RunInv, StopPc
<1>19. CASE ClearOnFlush
  <2>1. bld' = [bld EXCEPT !.flush = 0, !.stitch = 0] /\ UNCHANGED closer /\ run.pc = "unwire" /\ run'.pc = "idle"
        /\ run'.n = run.n /\ run'.cancelled = run.cancelled
    BY <1>0, <1>19 DEF ClearOnFlush, RunAt, To, TheRun
  <2>2. /\ bld'.h = bld.h /\ bld'.flush = 0 /\ bld'.calls = bld.calls
        /\ bld'.text = bld.text /\ bld'.done = bld.done
    BY <1>0, <2>1 DEF Builder
  <2> QED
    BY <1>0, <2>1, <2>2 DEF RunInv, StopPc
<1>20. CASE StopAndFlush
  <2>1. UNCHANGED bld /\ Step("stop", "wait") /\ closer["stop"].pc = "idle" /\ run'.pc = run.pc /\ run'.n = run.n
    BY <1>0, <1>20 DEF StopAndFlush, TheRun
  <2>2. closer'["stop"].pc = "wait" /\ closer'["run"] = closer["run"]
    BY <1>0, <2>1, StepCloser
  <2> QED
    BY <1>0, <2>1, <2>2 DEF RunInv, StopPc
<1>21. CASE StopWaited
  <2>1. UNCHANGED <<bld, run>> /\ Step("stop", "ends")
        /\ (run.pc = "idle" \/ (run.cancelled /\ run.pc \in {"prompt", "closing"}))
    BY <1>21 DEF StopWaited, RunAt
  <2>2. closer'["stop"].pc = "ends" /\ closer'["run"] = closer["run"]
    BY <1>0, <2>1, StepCloser
  <2> QED
    BY <1>0, <2>1, <2>2 DEF RunInv, StopPc
<1>22. CASE StopDone
  <2>1. UNCHANGED <<bld, run>> /\ Step("stop", "idle")
    BY <1>22 DEF StopDone
  <2>2. closer'["stop"].pc = "idle" /\ closer'["run"] = closer["run"]
    BY <1>0, <2>1, StepCloser
  <2> QED
    BY <1>0, <2>1, <2>2 DEF RunInv, StopPc
<1>23. CASE Crash
  <2>1. bld' = [Fresh(0) EXCEPT !.flush = 0] /\ closer' = [a \in Closers |-> Idle] /\ run'.pc = "idle" /\ run'.n = run.n
    BY <1>0, <1>23 DEF Crash, TheRun
  <2>2. bld'.h = 0 /\ bld'.flush = 0 /\ bld'.calls = <<>> /\ ~bld'.text /\ bld'.done = <<>>
    BY <2>1 DEF Fresh
  <2>3. closer'["run"].pc = "idle" /\ closer'["stop"].pc = "idle"
    BY <1>0, <2>1 DEF Idle
  <2> QED
    BY <1>0, <1>01, <2>1, <2>2, <2>3 DEF RunInv, StopPc
<1> QED
  BY <1>3, <1>4, <1>5, <1>6, <1>7, <1>8, <1>9, <1>10, <1>11, <1>12, <1>13, <1>14, <1>15, <1>16, <1>17, <1>18,
     <1>19, <1>20, <1>21, <1>22, <1>23
     DEF Next, Updates, RunStep, CloseRound, DropTerminal, DispatchPersist, DispatchStitch, DispatchEmit

LEMMA TurnInit == ASSUME Init PROVE TurnInv
<1>1. disp.pc = "idle" /\ disp.h = 0 /\ run.n = 0 /\ run.res = ""
  BY DEF Init, Idle
<1>2. disp.h <= run.n
  <2>1. disp.h = 0 /\ run.n = 0
    BY <1>1
  <2> QED
    BY <2>1, 0 <= 0
<1>3. disp.pc # "stitch" /\ run.res # "ok"
  BY <1>1
<1> QED
  BY <1>1, <1>2, <1>3 DEF TurnInv

\* What the handling of an update leaves to the dispatcher.
LEMMA LeaveFields ==
  ASSUME NEW b, NEW rows, NEW ev, Leave(b, rows, ev)
  PROVE  /\ disp'.pc = (IF rows # <<>> /\ bld.flush # 0 THEN "persist" ELSE "emit")
         /\ disp'.h = bld.h /\ disp'.rows = rows /\ disp'.fn = bld.flush /\ disp'.ev = ev /\ bld' = b
BY DEF Leave, Idle

LEMMA TurnNext ==
  ASSUME MaxRuns \in Nat, TypeInv, BldInv, RunInv, TurnInv, Next
  PROVE  TurnInv'
<1>0. /\ bld \in Builder /\ run \in TheRun /\ disp \in Dispatcher
      /\ closer \in [Closers -> Closer] /\ "run" \in Closers /\ "stop" \in Closers
      /\ closer["run"] \in Closer /\ closer["stop"] \in Closer
  BY DEF TypeInv, Closers
<1>01. run.n \in Nat /\ bld.h \in Nat /\ disp.h \in Nat
  <2>1. run.n \in Ids /\ bld.h \in Ids /\ disp.h \in Ids
    BY <1>0 DEF TheRun, Builder, Dispatcher
  <2> QED
    BY <2>1 DEF Ids
\* An update is accepted only while the Run is prompting or closing, for that Run.
<1>1. ASSUME Accepts
      PROVE  /\ disp.pc = "idle" /\ run.pc \in {"prompt", "closing"} /\ run.res # "ok"
             /\ bld.h = run.n /\ bld.flush = run.n /\ bld.stitch = run.n
  BY <1>1 DEF Accepts, RunInv, TurnInv
<1>2. ASSUME Accepts, UNCHANGED run, disp'.h = bld.h, disp'.fn = bld.flush,
             disp'.pc = "stitch" => disp'.id \notin bld'.late
      PROVE  TurnInv'
  BY <1>01, <1>1, <1>2 DEF TurnInv
<1>3. CASE OnMessageChunk
  <2>1. Accepts
    BY <1>3 DEF OnMessageChunk
  <2>2. PICK b, rows, ev : Leave(b, rows, ev)
    BY <1>3 DEF OnMessageChunk
  <2>3. disp'.h = bld.h /\ disp'.fn = bld.flush /\ disp'.pc # "stitch"
    BY <2>2, LeaveFields
  <2>4. UNCHANGED run
    BY <2>2 DEF Leave
  <2> QED
    BY <1>2, <2>1, <2>3, <2>4
<1>4. ASSUME NEW id \in Tools, OnToolCall(id) PROVE TurnInv'
  <2>1. Accepts
    BY <1>4 DEF OnToolCall
  <2>2. PICK b, rows, ev : Leave(b, rows, ev)
    BY <1>4 DEF OnToolCall
  <2>3. disp'.h = bld.h /\ disp'.fn = bld.flush /\ disp'.pc # "stitch"
    BY <2>2, LeaveFields
  <2>4. UNCHANGED run
    BY <2>2 DEF Leave
  <2> QED
    BY <1>2, <2>1, <2>3, <2>4
<1>5. ASSUME NEW id \in Tools, OnToolResult(id) PROVE TurnInv'
  <2>1. Accepts
    BY <1>5 DEF OnToolResult
  <2>2. PICK b, rows, ev : Leave(b, rows, ev)
    BY <1>5 DEF OnToolResult
  <2>3. disp'.h = bld.h /\ disp'.fn = bld.flush /\ disp'.pc # "stitch"
    BY <2>2, LeaveFields
  <2>4. UNCHANGED run
    BY <2>2 DEF Leave
  <2> QED
    BY <1>2, <2>1, <2>3, <2>4
<1>6. ASSUME NEW id \in Tools, OnLateTerminal(id) PROVE TurnInv'
  <2>1. /\ bld' = [bld EXCEPT !.late = @ \ {id}, !.done = Stitch(@, id)] /\ UNCHANGED run /\ Accepts
        /\ disp' = [Idle EXCEPT !.pc = IF bld.stitch # 0 THEN "stitch" ELSE "emit",
                            !.h = bld.h, !.fn = bld.stitch, !.id = id,
                            !.ev = Notice({id}, "result", "same")]
    BY <1>6 DEF OnLateTerminal
  <2>2. disp'.h = bld.h /\ disp'.fn = bld.stitch /\ disp'.id = id
    BY <2>1 DEF Idle
  <2>3. bld'.late = bld.late \ {id}
    BY <1>0, <2>1 DEF Builder
  <2>4. bld.stitch = bld.flush
    BY <1>1, <2>1
  <2> QED
    BY <1>2, <2>1, <2>2, <2>3, <2>4
<1>7. ASSUME UNCHANGED <<run, disp>>, bld'.late = bld.late, bld'.calls \in {bld.calls, <<>>},
             run.pc = "capture" => bld'.h = bld.h,
             UNCHANGED turn
      PROVE  TurnInv'
  BY <1>01, <1>7 DEF TurnInv
<1>8. CASE UNCHANGED <<bld, disp, run, turn>>
  BY <1>7, <1>8
<1>9. CASE DispatchPersist \/ DispatchStitch
  <2>1. disp' = [disp EXCEPT !.pc = "emit", !.rows = <<>>, !.fn = 0, !.id = ""] /\ UNCHANGED <<bld, run, turn>>
        /\ disp.pc # "idle"
    BY <1>9 DEF DispatchPersist, DispatchStitch
  <2>2. disp'.pc = "emit" /\ disp'.h = disp.h
    BY <1>0, <2>1 DEF Dispatcher
  <2> QED
    BY <1>01, <2>1, <2>2 DEF TurnInv
<1>10. CASE DispatchEmit
  <2>1. disp' = Idle /\ UNCHANGED <<bld, run, turn>>
    BY <1>10 DEF DispatchEmit
  <2>2. disp'.pc = "idle" /\ disp'.h = 0
    BY <2>1 DEF Idle
  <2> QED
    BY <1>01, <2>1, <2>2 DEF TurnInv
<1>11. ASSUME NEW a \in Closers, EndsTaken(a) PROVE TurnInv'
  <2>1. bld' = [bld EXCEPT !.open = FALSE] /\ UNCHANGED <<disp, run, turn>>
    BY <1>11 DEF EndsTaken
  <2>2. bld'.late = bld.late /\ bld'.calls = bld.calls /\ bld'.h = bld.h
    BY <1>0, <2>1 DEF Builder
  <2> QED
    BY <1>7, <2>1, <2>2
<1>12. ASSUME NEW a \in Closers, Collect(a) PROVE TurnInv'
  <2>1. bld' = [Flushed(bld) EXCEPT !.done = <<>>] /\ UNCHANGED <<disp, run, turn>>
    BY <1>12 DEF Collect
  <2>2. Flushed(bld) \in Builder /\ Flushed(bld).h = bld.h /\ Flushed(bld).late = bld.late /\ Flushed(bld).calls = <<>>
    BY <1>0, FlushTypes DEF Flushed, Builder
  <2>3. bld'.late = bld.late /\ bld'.calls = <<>> /\ bld'.h = bld.h
    BY <2>1, <2>2 DEF Builder
  <2> QED
    BY <1>7, <2>1, <2>3
<1>13. CASE BeginRun
  <2>1. UNCHANGED <<bld, disp, turn>> /\ run.pc = "idle"
    BY <1>13 DEF BeginRun, RunAt
  <2>2. run'.n = run.n + 1 /\ run'.pc \in {"begun", "idle"} /\ run'.res # "ok"
    <3> DEFINE n == run.n + 1
    <3>1. \/ run' = [run EXCEPT !.n = n, !.pc = "begun", !.res = "", !.cancelled = FALSE]
          \/ run' = [run EXCEPT !.n = n, !.res = "error", !.cancelled = FALSE]
      BY <1>13 DEF BeginRun
    <3>2. run'.n = n /\ run'.pc \in {"begun", "idle"} /\ run'.res # "ok"
      <4> HIDE DEF n
      <4> QED
        BY <1>0, <2>1, <3>1 DEF TheRun
    <3> QED
      BY <3>2
  <2> QED
    BY <1>01, <2>1, <2>2 DEF TurnInv
<1>14. CASE Reset
  <2>1. UNCHANGED <<disp, turn>> /\ run.pc = "begun" /\ bld' = Fresh(run.n) /\ run' = [run EXCEPT !.pc = "wired"]
    BY <1>14 DEF Reset, RunAt, To
  <2>2. run'.pc = "wired" /\ run'.n = run.n /\ run'.res = run.res
    BY <1>0, <2>1 DEF TheRun
  <2>3. bld'.late = {}
    BY <2>1 DEF Fresh
  <2> QED
    BY <1>01, <2>1, <2>2, <2>3 DEF TurnInv
<1>15. CASE Prompt
  <2>1. UNCHANGED <<bld, disp>> /\ run.pc = "wired" /\ run'.n = run.n
        /\ \/ disp.pc = "idle" /\ run'.pc = "prompt" /\ run'.res = run.res
           \/ run'.pc = "capture" /\ run'.res = "error"
    BY <1>0, <1>15 DEF Prompt, RunAt, To, TheRun
  <2> QED
    BY <1>01, <2>1 DEF TurnInv
<1>16. CASE EndTurn
  <2>1. UNCHANGED <<bld, disp>> /\ turn' = 0 /\ disp.pc = "idle" /\ run.pc = "prompt"
    BY <1>16 DEF EndTurn, Finish, RunAt
  <2>2. run'.n = run.n /\ run'.pc = "closing" /\ (run'.res = "ok" => Pending(bld) = {})
    BY <1>0, <1>16 DEF EndTurn, Finish, TheRun
  <2> QED
    BY <1>01, <2>1, <2>2 DEF TurnInv, BldInv
<1>17. CASE PromptFails
  <2>1. UNCHANGED <<bld, disp, turn>> /\ run.pc = "prompt"
    BY <1>17 DEF PromptFails, Finish, RunAt
  <2>2. run'.n = run.n /\ run'.pc = "closing" /\ run'.res = "error"
    BY <1>0, <1>17 DEF PromptFails, Finish, TheRun
  <2> QED
    BY <1>01, <2>1, <2>2 DEF TurnInv
<1>18. CASE ClearHandler
  <2>1. bld' = [bld EXCEPT !.h = 0] /\ UNCHANGED <<disp, turn>> /\ run.pc = "closing"
    BY <1>18 DEF ClearHandler, RunAt
  <2>2. run'.pc = "capture" /\ run'.n = run.n /\ run'.res = run.res
    BY <1>0, <1>18 DEF ClearHandler, To, TheRun
  <2>3. bld'.h = 0 /\ bld'.calls = bld.calls /\ bld'.late = bld.late
    BY <1>0, <2>1 DEF Builder
  <2> QED
    BY <1>01, <2>1, <2>2, <2>3 DEF TurnInv
<1>19. CASE Capture
  <2>1. UNCHANGED <<bld, disp, turn>> /\ run.pc = "capture" /\ run'.pc = "unwire"
        /\ run'.n = run.n /\ run'.res = run.res
    BY <1>0, <1>19 DEF Capture, RunAt, To, TheRun
  <2> QED
    BY <1>01, <2>1 DEF TurnInv
<1>20. CASE ClearOnFlush
  <2>1. bld' = [bld EXCEPT !.flush = 0, !.stitch = 0] /\ UNCHANGED <<disp, turn>> /\ run.pc = "unwire" /\ run'.pc = "idle"
        /\ run'.n = run.n /\ run'.res = run.res
    BY <1>0, <1>20 DEF ClearOnFlush, RunAt, To, TheRun
  <2>2. bld'.calls = bld.calls /\ bld'.late = bld.late
    BY <1>0, <2>1 DEF Builder
  <2> QED
    BY <1>01, <2>1, <2>2 DEF TurnInv
<1>21. CASE StopAndFlush
  <2>1. UNCHANGED <<bld, disp, turn>> /\ run'.pc = run.pc /\ run'.n = run.n /\ run'.res = run.res
    BY <1>0, <1>21 DEF StopAndFlush, TheRun
  <2> QED
    BY <1>01, <2>1 DEF TurnInv
<1>22. CASE Crash
  <2>1. disp' = Idle /\ run'.pc = "idle" /\ run'.n = run.n /\ run'.res = "crashed"
    BY <1>0, <1>22 DEF Crash, TheRun
  <2>2. disp'.pc = "idle" /\ disp'.h = 0
    BY <2>1 DEF Idle
  <2> QED
    BY <1>01, <2>1, <2>2 DEF TurnInv
<1> QED
  BY <1>3, <1>4, <1>5, <1>6, <1>8, <1>9, <1>10, <1>11, <1>12, <1>13, <1>14, <1>15, <1>16, <1>17, <1>18,
     <1>19, <1>20, <1>21, <1>22
     DEF Next, Updates, RunStep, CloseRound, DropTerminal, EndsTold, FlushHooked, ClosePersist, StopWaited, StopDone

LEMMA WhoInit == ASSUME Init PROVE WhoInv
<1>1. \A a \in Closers : closer[a].pc = "idle"
  BY DEF Init, Idle
<1>2. disp.pc = "idle" /\ bld.h = 0 /\ run.n = 0 /\ rbSeen.ok = {} /\ rbSeen.prompts = {}
  BY DEF Init, Idle, Fresh
<1>3. \A a \in Closers : closer[a].pc # "persist" /\ closer[a].pc # "tell"
  BY <1>1
<1>4. "run" \in Closers
  BY DEF Closers
<1> QED
  BY <1>2, <1>3, <1>4 DEF WhoInv

LEMMA WhoNext ==
  ASSUME MaxRuns \in Nat, TypeInv, RunInv, TurnInv, WhoInv, Next
  PROVE  WhoInv'
<1>0. /\ bld \in Builder /\ run \in TheRun /\ disp \in Dispatcher /\ rbSeen \in Seen
      /\ closer \in [Closers -> Closer] /\ "run" \in Closers /\ "stop" \in Closers
      /\ closer["run"] \in Closer /\ closer["stop"] \in Closer
  BY DEF TypeInv, Closers
<1>01. run.n \in Nat /\ bld.h \in Nat /\ disp.h \in Nat
  <2>1. run.n \in Ids /\ bld.h \in Ids /\ disp.h \in Ids
    BY <1>0 DEF TheRun, Builder, Dispatcher
  <2> QED
    BY <2>1 DEF Ids
\* An update leaves the closers and the Runs that are through alone.
<1>1. ASSUME Accepts, UNCHANGED <<run, closer>>, bld'.h = bld.h, disp'.h = bld.h,
             rbSeen'.ok = rbSeen.ok, rbSeen'.prompts = rbSeen.prompts
      PROVE  WhoInv'
  BY <1>1 DEF Accepts, RunInv, WhoInv
<1>2. Counted.ok = rbSeen.ok /\ Counted.prompts = rbSeen.prompts
  BY <1>0 DEF Counted, Seen
<1>3. CASE OnMessageChunk
  <2> DEFINE base == IF bld.calls # <<>> THEN [Flushed(bld) EXCEPT !.late = @ \cup Pending(bld)] ELSE bld
  <2> DEFINE b == [base EXCEPT !.text = TRUE, !.open = TRUE]
  <2>1. Accepts /\ rbSeen' = Counted
    BY <1>3 DEF OnMessageChunk
  <2>2. PICK rows, ev : Leave(b, rows, ev)
    BY <1>3 DEF OnMessageChunk
  <2>3. base \in Builder /\ base.h = bld.h
    <3>1. Flushed(bld) \in Builder /\ Flushed(bld).h = bld.h
      BY <1>0, FlushTypes DEF Flushed, Builder
    <3>2. Pending(bld) \in SUBSET Tools
      BY <1>0 DEF Pending, ToSet, Builder
    <3> QED
      BY <1>0, <3>1, <3>2 DEF Builder
  <2>4. bld' = b /\ disp'.h = bld.h /\ UNCHANGED <<run, closer>>
    BY <2>2, LeaveFields DEF Leave
  <2> HIDE DEF base
  <2>5. bld'.h = bld.h
    BY <2>3, <2>4 DEF Builder
  <2> QED
    BY <1>1, <1>2, <2>1, <2>4, <2>5
<1>4. ASSUME NEW id \in Tools, OnToolCall(id) PROVE WhoInv'
  <2>1. Accepts /\ rbSeen' = [Counted EXCEPT !.owner[id] = turn, !.stray = @ \/ Stray(id)]
    BY <1>4 DEF OnToolCall
  <2>2. PICK rows, ev : Leave([bld EXCEPT !.calls = Append(@, id), !.open = FALSE], rows, ev)
    BY <1>4 DEF OnToolCall
  <2>3. bld' = [bld EXCEPT !.calls = Append(@, id), !.open = FALSE] /\ disp'.h = bld.h /\ UNCHANGED <<run, closer>>
    BY <2>2, LeaveFields DEF Leave
  <2>4. bld'.h = bld.h
    BY <1>0, <2>3 DEF Builder
  <2>5. rbSeen'.ok = rbSeen.ok /\ rbSeen'.prompts = rbSeen.prompts
    BY <1>0, <2>1 DEF Seen, Counted
  <2> QED
    BY <1>1, <2>1, <2>3, <2>4, <2>5
<1>5. ASSUME NEW id \in Tools, OnToolResult(id) PROVE WhoInv'
  <2> DEFINE b == [bld EXCEPT !.results = @ \cup {id}]
  <2> DEFINE b2 == IF Pending(b) = {} THEN Flushed(b) ELSE b
  <2>1. Accepts /\ rbSeen' = [Counted EXCEPT !.sent = @ \cup {id}, !.got[bld.h] = @ \cup {id}]
    BY <1>5 DEF OnToolResult
  <2>2. PICK rows, ev : Leave(b2, rows, ev)
    BY <1>5 DEF OnToolResult
  <2>3. bld' = b2 /\ disp'.h = bld.h /\ UNCHANGED <<run, closer>>
    BY <2>2, LeaveFields DEF Leave
  <2>4. b.h = bld.h /\ b \in Builder
    BY <1>0 DEF Builder
  <2> HIDE DEF b
  <2>5. bld'.h = bld.h
    BY <2>3, <2>4 DEF Flushed, Builder
  <2>6. rbSeen'.ok = rbSeen.ok /\ rbSeen'.prompts = rbSeen.prompts
    BY <1>0, <2>1 DEF Seen, Counted
  <2> QED
    BY <1>1, <2>1, <2>3, <2>5, <2>6
<1>6. ASSUME NEW id \in Tools, OnLateTerminal(id) PROVE WhoInv'
  <2>1. /\ bld' = [bld EXCEPT !.late = @ \ {id}, !.done = Stitch(@, id)] /\ UNCHANGED <<run, closer>> /\ Accepts
        /\ disp' = [Idle EXCEPT !.pc = IF bld.stitch # 0 THEN "stitch" ELSE "emit",
                            !.h = bld.h, !.fn = bld.stitch, !.id = id,
                            !.ev = Notice({id}, "result", "same")]
        /\ rbSeen' = [Counted EXCEPT !.sent = @ \cup {id}, !.got[bld.h] = @ \cup {id}]
    BY <1>6 DEF OnLateTerminal
  <2>2. disp'.h = bld.h
    BY <2>1 DEF Idle
  <2>3. bld'.h = bld.h
    BY <1>0, <2>1 DEF Builder
  <2>4. rbSeen'.ok = rbSeen.ok /\ rbSeen'.prompts = rbSeen.prompts
    BY <1>0, <2>1 DEF Seen, Counted
  <2> QED
    BY <1>1, <2>1, <2>2, <2>3, <2>4
<1>7. ASSUME NEW id \in Tools, DropTerminal(id) PROVE WhoInv'
  <2>1. rbSeen' = [Counted EXCEPT !.sent = @ \cup {id}] /\ UNCHANGED <<bld, disp, run, closer>>
    BY <1>7 DEF DropTerminal
  <2>2. rbSeen'.ok = rbSeen.ok /\ rbSeen'.prompts = rbSeen.prompts
    BY <1>0, <2>1 DEF Seen, Counted
  <2> QED
    BY <2>1, <2>2 DEF WhoInv
\* So does an append or a stitch, whatever becomes of it.
<1>8. ASSUME NEW rows, NEW n, Write(rows, n)
      PROVE  rbSeen'.ok = rbSeen.ok /\ rbSeen'.prompts = rbSeen.prompts
  BY <1>0, <1>8 DEF Write, Seen
<1>9. CASE DispatchPersist \/ DispatchStitch
  <2>1. disp' = [disp EXCEPT !.pc = "emit", !.rows = <<>>, !.fn = 0, !.id = ""] /\ UNCHANGED <<bld, run, closer>>
        /\ disp.pc # "idle"
    BY <1>9 DEF DispatchPersist, DispatchStitch
  <2>2. disp'.pc = "emit" /\ disp'.h = disp.h
    BY <1>0, <2>1 DEF Dispatcher
  <2>3. rbSeen'.ok = rbSeen.ok /\ rbSeen'.prompts = rbSeen.prompts
    BY <1>0, <1>8, <1>9 DEF DispatchPersist, DispatchStitch, Seen
  <2> QED
    BY <2>1, <2>2, <2>3 DEF WhoInv
<1>10. CASE DispatchEmit
  <2>1. disp' = Idle /\ UNCHANGED <<bld, run, closer, rbSeen>>
    BY <1>10 DEF DispatchEmit
  <2>2. disp'.pc = "idle"
    BY <2>1 DEF Idle
  <2> QED
    BY <2>1, <2>2 DEF WhoInv
<1>11. CASE UNCHANGED <<bld, disp, run, closer, rbSeen>>
  BY <1>11 DEF WhoInv
<1>12. ASSUME NEW a \in Closers, EndsTaken(a) PROVE WhoInv'
  <2>1. bld' = [bld EXCEPT !.open = FALSE] /\ UNCHANGED <<disp, run, rbSeen>> /\ closer[a].pc = "ends"
    BY <1>12 DEF EndsTaken
  <2>2. bld'.h = bld.h
    BY <1>0, <2>1 DEF Builder
  <2>3. /\ closer'[a].pc = "tell" /\ closer'[a].h = bld.h
        /\ \A o \in Closers : o # a => closer'[o] = closer[o]
    BY <1>0, <1>12 DEF EndsTaken, Closer
  <2>4. a = "run" => bld.h = run.n
    BY <2>1 DEF RunInv
  <2> QED
    BY <1>0, <2>1, <2>2, <2>3, <2>4 DEF WhoInv, RunInv
<1>13. ASSUME NEW a \in Closers, EndsTold(a) PROVE WhoInv'
  <2>1. UNCHANGED <<bld, disp, run, rbSeen>> /\ Step(a, IF a = "run" THEN "collect" ELSE "hooked")
    BY <1>13 DEF EndsTold
  <2>2. closer'[a].pc \in {"collect", "hooked"} /\ \A o \in Closers : o # a => closer'[o] = closer[o]
    BY <2>1, StepCloser
  <2> QED
    BY <1>0, <2>1, <2>2 DEF WhoInv
<1>14. CASE FlushHooked
  <2>1. UNCHANGED <<bld, disp, run, rbSeen>> /\ closer'["stop"].pc = "collect" /\ closer'["run"] = closer["run"]
    BY <1>0, <1>14 DEF FlushHooked, Closer
  <2> QED
    BY <1>0, <2>1 DEF WhoInv, Closers
<1>15. ASSUME NEW a \in Closers, Collect(a) PROVE WhoInv'
  <2> DEFINE all == bld.done \o NewRound(bld)
  <2> DEFINE inline == a = "stop" /\ closer[a].id = "inline"
  <2> DEFINE rows == IF inline THEN all ELSE IF bld.flush # 0 THEN NewRound(bld) ELSE <<>>
  <2> DEFINE fn == IF inline THEN 0 ELSE bld.flush
  <2> DEFINE c == [Idle EXCEPT !.pc = IF rows # <<>> THEN "persist" ELSE "done", !.rows = rows, !.fn = fn]
  <2>1. /\ closer' = [closer EXCEPT ![a] = c] /\ bld' = [Flushed(bld) EXCEPT !.done = <<>>]
        /\ closer[a].pc = "collect" /\ UNCHANGED <<disp, run, rbSeen>>
    BY <1>15 DEF Collect
  <2>2. bld'.h = bld.h
    <3>1. Flushed(bld) \in Builder /\ Flushed(bld).h = bld.h
      BY <1>0, FlushTypes DEF Flushed, Builder
    <3> QED
      BY <2>1, <3>1 DEF Builder
  <2>3. inline => a = "stop" /\ run.pc = "idle" /\ fn = 0
    BY <2>1 DEF RunInv
  <2>4. rows # <<>> /\ ~inline => bld.flush # 0 /\ fn = bld.flush
    OBVIOUS
  <2>5. bld.flush # 0 => bld.flush = run.n
    BY <1>0 DEF RunInv, TheRun
  <2> HIDE DEF rows, fn, inline
  <2>7. c.pc \in {"persist", "done"}
        /\ (c.pc = "persist" => c.fn = run.n \/ (a = "stop" /\ c.fn = 0 /\ run.pc = "idle"))
    BY <2>3, <2>4, <2>5 DEF Idle
  <2>8. closer'[a] = c /\ \A o \in Closers : o # a => closer'[o] = closer[o]
    BY <1>0, <2>1
  <2> HIDE DEF c
  <2>9. c.pc # "tell"
    BY <2>7
  <2> QED
    BY <1>0, <2>1, <2>2, <2>7, <2>8, <2>9 DEF WhoInv
<1>16. ASSUME NEW a \in Closers, ClosePersist(a) PROVE WhoInv'
  <2>1. closer' = [closer EXCEPT ![a] = [Idle EXCEPT !.pc = "done"]] /\ UNCHANGED <<bld, disp, run>>
    BY <1>16 DEF ClosePersist
  <2>2. closer'[a].pc = "done" /\ \A o \in Closers : o # a => closer'[o] = closer[o]
    BY <1>0, <2>1 DEF Idle
  <2>3. rbSeen'.ok = rbSeen.ok /\ rbSeen'.prompts = rbSeen.prompts
    BY <1>8, <1>16 DEF ClosePersist
  <2> QED
    BY <1>0, <2>1, <2>2, <2>3 DEF WhoInv
<1>17. CASE BeginRun
  <2> DEFINE n == run.n + 1
  <2>1. UNCHANGED <<bld, disp, closer>> /\ run.pc = "idle" /\ closer["stop"].pc = "idle"
    BY <1>17 DEF BeginRun, RunAt
  <2>2. closer["run"].pc = "idle"
    BY <2>1 DEF RunInv
  <2>3. run'.n = n
    <3>1. \/ run' = [run EXCEPT !.n = n, !.pc = "begun", !.res = "", !.cancelled = FALSE]
          \/ run' = [run EXCEPT !.n = n, !.res = "error", !.cancelled = FALSE]
      BY <1>17 DEF BeginRun
    <3> HIDE DEF n
    <3> QED
      BY <1>0, <3>1 DEF TheRun
  <2>4. rbSeen'.ok = rbSeen.ok /\ rbSeen'.prompts \in {rbSeen.prompts, rbSeen.prompts \cup {n}}
    <3>1. \/ rbSeen' = [rbSeen EXCEPT !.prompts = @ \cup {n}, !.torn = FALSE]
          \/ \E d : rbSeen' = [rbSeen EXCEPT !.fails = @ + 1, !.torn = @ /\ d # WithoutOrphans(disk)]
      BY <1>17 DEF BeginRun
    <3> HIDE DEF n
    <3> QED
      BY <1>0, <3>1 DEF Seen
  <2>5. 1 .. run.n \subseteq 1 .. n /\ n \in 1 .. n /\ n \notin 1 .. run.n
    BY <1>01
  <2>6. rbSeen'.ok \subseteq 1 .. n /\ rbSeen'.prompts \subseteq 1 .. n /\ n \notin rbSeen'.ok
    <3> HIDE DEF n
    <3> QED
      BY <2>4, <2>5 DEF WhoInv
  <2>7. \A a \in Closers : closer[a].pc = "idle"
    BY <2>1, <2>2 DEF Closers
  <2>8. \A a \in Closers : closer[a].pc # "persist" /\ closer[a].pc # "tell"
    BY <2>7
  <2> HIDE DEF n
  <2> QED
    BY <1>0, <2>1, <2>3, <2>4, <2>6, <2>8 DEF WhoInv
<1>18. CASE Reset
  <2>1. UNCHANGED <<disp, closer, rbSeen>> /\ run.pc = "begun" /\ bld' = Fresh(run.n) /\ run' = [run EXCEPT !.pc = "wired"]
    BY <1>18 DEF Reset, RunAt, To
  <2>2. run'.pc = "wired" /\ run'.n = run.n /\ bld'.h = run.n
    BY <1>0, <2>1 DEF TheRun, Fresh
  <2> QED
    BY <2>1, <2>2 DEF WhoInv
<1>19. CASE Prompt
  <2>1. UNCHANGED <<bld, disp, closer>> /\ run.pc = "wired" /\ run'.n = run.n
    BY <1>0, <1>19 DEF Prompt, RunAt, To, TheRun
  <2>2. rbSeen'.ok = rbSeen.ok /\ rbSeen'.prompts = rbSeen.prompts
    BY <1>0, <1>19 DEF Prompt, Seen
  <2> QED
    BY <2>1, <2>2 DEF WhoInv
<1>20. CASE EndTurn \/ PromptFails
  <2>1. UNCHANGED <<bld, disp, rbSeen>> /\ Step("run", "ends") /\ run.pc = "prompt"
    BY <1>20 DEF EndTurn, PromptFails, Finish, RunAt
  <2>2. run'.n = run.n
    BY <1>0, <1>20 DEF EndTurn, PromptFails, Finish, TheRun
  <2>3. closer'["run"].pc = "ends" /\ closer'["stop"] = closer["stop"]
    BY <1>0, <2>1, StepCloser
  <2> QED
    BY <1>0, <2>1, <2>2, <2>3 DEF WhoInv, Closers
<1>21. CASE ClearHandler
  <2>1. bld' = [bld EXCEPT !.h = 0] /\ UNCHANGED <<disp, rbSeen>> /\ Step("run", "idle") /\ run.pc = "closing"
    BY <1>21 DEF ClearHandler, RunAt
  <2>2. run'.pc = "capture" /\ run'.n = run.n
    BY <1>0, <1>21 DEF ClearHandler, To, TheRun
  <2>3. closer'["run"].pc = "idle" /\ closer'["stop"] = closer["stop"]
    BY <1>0, <2>1, StepCloser
  <2>4. bld'.h = 0
    BY <1>0, <2>1 DEF Builder
  <2>5. 0 \notin rbSeen.ok
    BY <1>01 DEF WhoInv
  <2> QED
    BY <1>0, <1>01, <2>1, <2>2, <2>3, <2>4, <2>5 DEF WhoInv, Closers
<1>22. CASE Capture
  <2> DEFINE s == IF run.res = "ok" /\ run.n \notin rbSeen.errs THEN {run.n} ELSE {}
  <2>1. UNCHANGED <<bld, disp, closer>> /\ run.pc = "capture" /\ run'.pc = "unwire" /\ run'.n = run.n
    BY <1>0, <1>22 DEF Capture, RunAt, To, TheRun
  <2>2. rbSeen'.ok = rbSeen.ok \cup s /\ rbSeen'.prompts = rbSeen.prompts
    BY <1>0, <1>22 DEF Capture, Seen
  <2>3. s # {} => run.res = "ok" /\ s = {run.n} /\ disp.pc = "idle" /\ bld.h = 0
    BY <2>1 DEF TurnInv
  <2>4. run.n # 0 /\ run.n \in 1 .. run.n
    BY <1>01, <2>1 DEF RunInv
  <2>5. s \subseteq 1 .. run.n
    BY <2>4
  <2>6. rbSeen'.ok \subseteq 1 .. run.n
    BY <2>2, <2>5 DEF WhoInv
  <2>7. bld.h \notin rbSeen'.ok /\ (disp.pc # "idle" => disp.h \notin rbSeen'.ok)
    <3> HIDE DEF s
    <3> QED
      BY <2>2, <2>3, <2>4 DEF WhoInv
  <2> QED
    BY <2>1, <2>2, <2>6, <2>7 DEF WhoInv
<1>23. CASE ClearOnFlush
  <2>1. bld' = [bld EXCEPT !.flush = 0, !.stitch = 0] /\ UNCHANGED <<disp, closer, rbSeen>> /\ run'.pc = "idle" /\ run'.n = run.n
    BY <1>0, <1>23 DEF ClearOnFlush, To, TheRun
  <2>2. bld'.h = bld.h
    BY <1>0, <2>1 DEF Builder
  <2> QED
    BY <2>1, <2>2 DEF WhoInv
<1>24. CASE StopAndFlush
  <2>1. UNCHANGED <<bld, disp>> /\ Step("stop", "wait") /\ run'.pc = run.pc /\ run'.n = run.n
    BY <1>0, <1>24 DEF StopAndFlush, TheRun
  <2>2. closer'["stop"].pc = "wait" /\ closer'["run"] = closer["run"]
    BY <1>0, <2>1, StepCloser
  <2>3. rbSeen'.ok = rbSeen.ok /\ rbSeen'.prompts = rbSeen.prompts
    BY <1>0, <1>24 DEF StopAndFlush, Seen
  <2> QED
    BY <1>0, <2>1, <2>2, <2>3 DEF WhoInv, Closers
<1>25. CASE StopWaited \/ StopDone
  <2>1. UNCHANGED <<bld, disp, run, rbSeen>> /\ \E pc \in {"ends", "idle"} : Step("stop", pc)
    BY <1>25 DEF StopWaited, StopDone
  <2>2. closer'["stop"].pc \in {"ends", "idle"} /\ closer'["run"] = closer["run"]
    BY <1>0, <2>1, StepCloser
  <2> QED
    BY <1>0, <2>1, <2>2 DEF WhoInv, Closers
<1>26. CASE Crash
  <2>1. bld' = [Fresh(0) EXCEPT !.flush = 0] /\ disp' = Idle /\ closer' = [a \in Closers |-> Idle]
        /\ run'.pc = "idle" /\ run'.n = run.n
    BY <1>0, <1>26 DEF Crash, TheRun
  <2>2. bld'.h = 0 /\ disp'.pc = "idle" /\ \A a \in Closers : closer'[a].pc = "idle"
    BY <2>1 DEF Fresh, Idle
  <2>3. rbSeen'.ok = rbSeen.ok /\ rbSeen'.prompts = rbSeen.prompts
    BY <1>0, <1>26 DEF Crash, Seen
  <2>4. 0 \notin rbSeen.ok
    BY <1>01 DEF WhoInv
  <2>5. \A a \in Closers : closer'[a].pc # "persist" /\ closer'[a].pc # "tell"
    BY <2>2
  <2> QED
    BY <1>0, <1>01, <2>1, <2>2, <2>3, <2>4, <2>5 DEF WhoInv
<1> QED
  BY <1>3, <1>4, <1>5, <1>6, <1>7, <1>9, <1>10, <1>11, <1>12, <1>13, <1>14, <1>15, <1>16, <1>17, <1>18,
     <1>19, <1>20, <1>21, <1>22, <1>23, <1>24, <1>25, <1>26
     DEF Next, Updates, RunStep, CloseRound

(***************************************************************************)
(* The rows on disk and the rounds on their way to it.                     *)
(***************************************************************************)
DiskInv ==
  /\ Ordered(disk)
  /\ rbSeen.torn \/ AllPaired(disk)
  /\ PromptsBehind(disk)
  /\ Prompted(disk, rbSeen.prompts)

\* Only whole rounds are on their way, and only where an append is due.
QueueInv ==
  /\ Whole(disp.rows) /\ \A a \in Closers : Whole(closer[a].rows)
  /\ disp.pc # "persist" => disp.rows = <<>>
  /\ \A a \in Closers : closer[a].pc # "persist" => closer[a].rows = <<>>

\* A call is in one place: in the builder, on its way, or on disk; one that is nowhere has not been
\* declared or was lost with its round.
InBld(id) == id \in ToSet(bld.calls)
OnDisk(id) == Claims(disk, id)
InDisp(id) == Claims(disp.rows, id)
InRun(id) == Claims(closer["run"].rows, id)
InStop(id) == Claims(closer["stop"].rows, id)
Held(id) ==
  /\ InBld(id) => ~OnDisk(id) /\ ~InDisp(id) /\ ~InRun(id) /\ ~InStop(id)
  /\ OnDisk(id) => ~InDisp(id) /\ ~InRun(id) /\ ~InStop(id)
  /\ InDisp(id) => ~InRun(id) /\ ~InStop(id)
  /\ InRun(id) => ~InStop(id)
  /\ InBld(id) \/ OnDisk(id) \/ InDisp(id) \/ InRun(id) \/ InStop(id) => rbSeen.owner[id] # 0
HolderInv == \A id \in Tools : Held(id)

LEMMA NothingWhole == Whole(<<>>) /\ \A id : ~Claims(<<>>, id) /\ \A real : ~Has(<<>>, id, real)
BY DEF Whole, Piece, Claims, Has

\* What an append that failed leaves of a round.
LEMMA PrefixPiece ==
  ASSUME NEW s \in Seq(Row), Piece(s), NEW k \in 0 .. Len(s)
  PROVE  /\ SubSeq(s, 1, k) \in Seq(Row) /\ Piece(SubSeq(s, 1, k))
         /\ \A id : Claims(SubSeq(s, 1, k), id) => Claims(s, id)
         /\ k = 0 => \A d \in Seq(Row) : d \o SubSeq(s, 1, k) = d
<1> DEFINE e == SubSeq(s, 1, k)
<1>1. e \in Seq(Row) /\ Len(e) = k /\ \A i \in DOMAIN e : i \in DOMAIN s /\ e[i] = s[i]
  OBVIOUS
<1>2. k = 0 => e = <<>>
  BY <1>1
<1> HIDE DEF e
<1>3. Piece(e)
  <2>1. CASE k = 0
    BY <1>1, <2>1 DEF Piece
  <2>2. CASE k # 0
    <3>1. s # <<>> /\ 1 \in DOMAIN e
      BY <1>1, <2>2
    <3>2. s[1].calls \in Seq(Tools)
      BY <3>1, PieceRows
    <3>3. Len(e) <= 1 + Len(s[1].calls)
      <4>1. Len(s) <= 1 + Len(s[1].calls) /\ Len(s[1].calls) \in Nat
        BY <3>1, <3>2 DEF Piece
      <4> QED
        BY <1>1, <4>1
    <3>4. \A t \in 2 .. Len(e) : t \in 2 .. Len(s) /\ t \in DOMAIN e
      BY <1>1
    <3>5. e[1] = s[1] /\ \A t \in 2 .. Len(e) : e[t] = s[t]
      BY <1>1, <3>1, <3>4
    <3> QED
      BY <3>1, <3>3, <3>4, <3>5 DEF Piece
  <2> QED
    BY <2>1, <2>2
<1>4. \A id : Claims(e, id) => Claims(s, id)
  BY <1>1 DEF Claims
<1>5. k = 0 => \A d \in Seq(Row) : d \o e = d
  BY <1>2
<1> QED
  BY <1>1, <1>3, <1>4, <1>5 DEF e

\* An append of a round, whatever becomes of it.
LEMMA RowsWritten ==
  ASSUME TypeInv, DiskInv, NEW rows \in Seq(Row), Whole(rows), NEW n \in Ids, Write(rows, n),
         \A id : ~ (Claims(disk, id) /\ Claims(rows, id))
  PROVE  /\ DiskInv'
         /\ \A id : Claims(disk', id) => Claims(disk, id) \/ Claims(rows, id)
         /\ \A id : Safe(disk, id) => Safe(disk', id)
         /\ \A id, real : Has(disk, id, real) => Has(disk', id, real)
         /\ rbSeen'.owner = rbSeen.owner /\ rbSeen'.ok = rbSeen.ok /\ rbSeen'.got = rbSeen.got
         /\ rbSeen'.behind = rbSeen.behind /\ rbSeen'.sent = rbSeen.sent
         /\ \/ /\ rbSeen'.torn = rbSeen.torn /\ rbSeen'.errs = rbSeen.errs
               /\ \A id, real : Has(rows, id, real) => Has(disk', id, real)
            \/ rbSeen'.errs = rbSeen.errs \cup ({n} \ {0})
<1>0. disk \in Seq(Row) /\ rbSeen \in Seen
  BY DEF TypeInv
<1>1. CASE disk' = disk \o rows /\ UNCHANGED rbSeen
  <2>1. /\ \A id, real : Has(disk', id, real) <=> Has(disk, id, real) \/ Has(rows, id, real)
        /\ \A id : Claims(disk', id) <=> Claims(disk, id) \/ Claims(rows, id)
        /\ \A id : Safe(disk, id) => Safe(disk', id)
    BY <1>0, <1>1, JoinKeeps
  <2>2. /\ Ordered(disk') /\ PromptsBehind(disk') /\ Prompted(disk', rbSeen.prompts)
    BY <1>0, <1>1, PieceJoins DEF DiskInv, Whole
  <2>3. rbSeen.torn \/ AllPaired(disk')
    BY <1>0, <1>1, WholeJoins DEF DiskInv
  <2>4. DiskInv'
    BY <1>1, <2>2, <2>3 DEF DiskInv
  <2> QED
    BY <1>1, <2>1, <2>4
<1>2. ASSUME NEW k \in 0 .. Len(rows) - 1, disk' = disk \o SubSeq(rows, 1, k),
             rbSeen' = [rbSeen EXCEPT !.fails = @ + 1, !.torn = @ \/ k > 0, !.errs = @ \cup ({n} \ {0})]
      PROVE  /\ DiskInv'
             /\ \A id : Claims(disk', id) => Claims(disk, id) \/ Claims(rows, id)
             /\ \A id : Safe(disk, id) => Safe(disk', id)
             /\ \A id, real : Has(disk, id, real) => Has(disk', id, real)
             /\ rbSeen'.owner = rbSeen.owner /\ rbSeen'.ok = rbSeen.ok /\ rbSeen'.got = rbSeen.got
             /\ rbSeen'.behind = rbSeen.behind /\ rbSeen'.sent = rbSeen.sent
             /\ rbSeen'.errs = rbSeen.errs \cup ({n} \ {0})
  <2> DEFINE s == SubSeq(rows, 1, k)
  <2>0. k \in 0 .. Len(rows)
    BY <1>2
  <2>1. /\ s \in Seq(Row) /\ Piece(s) /\ \A id : Claims(s, id) => Claims(rows, id)
        /\ k = 0 => disk \o s = disk
    BY <1>0, <2>0, PrefixPiece DEF Whole
  <2>2. disk' = disk \o s
    BY <1>2
  <2>3. rbSeen'.torn = (rbSeen.torn \/ k > 0)
    BY <1>0, <1>2 DEF Seen
  <2>4. /\ rbSeen'.owner = rbSeen.owner /\ rbSeen'.ok = rbSeen.ok /\ rbSeen'.got = rbSeen.got
        /\ rbSeen'.behind = rbSeen.behind /\ rbSeen'.sent = rbSeen.sent /\ rbSeen'.prompts = rbSeen.prompts
        /\ rbSeen'.errs = rbSeen.errs \cup ({n} \ {0})
    BY <1>0, <1>2 DEF Seen
  <2> HIDE DEF s
  <2>5. /\ \A id, real : Has(disk', id, real) <=> Has(disk, id, real) \/ Has(s, id, real)
        /\ \A id : Claims(disk', id) <=> Claims(disk, id) \/ Claims(s, id)
        /\ \A id : Safe(disk, id) => Safe(disk', id)
    BY <1>0, <2>1, <2>2, JoinKeeps
  <2>6. \A id : ~ (Claims(disk, id) /\ Claims(s, id))
    BY <2>1
  <2>7. Ordered(disk') /\ PromptsBehind(disk') /\ Prompted(disk', rbSeen.prompts)
    BY <1>0, <2>1, <2>2, <2>6, PieceJoins DEF DiskInv
  <2>8. rbSeen'.torn \/ AllPaired(disk')
    <3>1. CASE k = 0
      BY <2>1, <2>2, <2>3, <3>1 DEF DiskInv
    <3>2. CASE k # 0
      <4>1. k > 0
        BY <3>2
      <4> QED
        BY <2>3, <4>1
    <3> QED
      BY <3>1, <3>2
  <2>9. DiskInv'
    BY <2>4, <2>7, <2>8 DEF DiskInv
  <2> QED
    BY <2>1, <2>4, <2>5, <2>9
<1> QED
  BY <1>1, <1>2 DEF Write

LEMMA DiskInit == ASSUME Init PROVE DiskInv
<1>1. disk = <<>> /\ rbSeen.prompts = {}
  BY DEF Init
<1>2. {i \in DOMAIN disk : disk[i].kind = "user"} = {}
  BY <1>1
<1>3. Prompted(disk, {})
  BY <1>2 DEF Prompted
<1> QED
  BY <1>1, <1>3 DEF DiskInv, Ordered, AllPaired, PromptsBehind, Broken

\* What is on its way is apart from what is on disk.
LEMMA Apart ==
  ASSUME TypeInv, QueueInv, HolderInv, NEW s \in {disp.rows, closer["run"].rows, closer["stop"].rows}
  PROVE  s \in Seq(Row) /\ Whole(s) /\ \A id : ~ (Claims(disk, id) /\ Claims(s, id))
<1>0. /\ disk \in Seq(Row) /\ disp \in Dispatcher /\ closer \in [Closers -> Closer]
      /\ "run" \in Closers /\ "stop" \in Closers
  BY DEF TypeInv, Closers
<1>1. s \in Seq(Row)
  BY <1>0 DEF Dispatcher, Closer
<1>2. Whole(s)
  BY <1>0 DEF QueueInv
<1>3. ASSUME NEW id, Claims(disk, id), Claims(s, id) PROVE FALSE
  <2>1. id \in Tools
    <3>1. PICK i \in DOMAIN disk : IsCall(disk[i]) /\ \E j \in DOMAIN disk[i].calls : disk[i].calls[j] = id
      BY <1>3 DEF Claims
    <3>2. disk[i].calls \in Seq(Tools)
      BY <1>0, <3>1, RowKinds
    <3> QED
      BY <3>1, <3>2
  <2>2. InDisp(id) \/ InRun(id) \/ InStop(id)
    BY <1>3 DEF InDisp, InRun, InStop
  <2>3. OnDisk(id)
    BY <1>3 DEF OnDisk
  <2> QED
    BY <2>1, <2>2, <2>3 DEF HolderInv, Held
<1> QED
  BY <1>1, <1>2, <1>3

LEMMA DiskNext ==
  ASSUME MaxRuns \in Nat, TypeInv, WhoInv, DiskInv, QueueInv, HolderInv, Next
  PROVE  DiskInv'
<1>0. /\ disk \in Seq(Row) /\ run \in TheRun /\ disp \in Dispatcher /\ rbSeen \in Seen
      /\ closer \in [Closers -> Closer] /\ "run" \in Closers /\ "stop" \in Closers
      /\ closer["run"] \in Closer /\ closer["stop"] \in Closer
  BY DEF TypeInv, Closers
<1>01. /\ disp.rows \in Seq(Row) /\ disp.fn \in Ids
       /\ closer["run"].rows \in Seq(Row) /\ closer["run"].fn \in Ids
       /\ closer["stop"].rows \in Seq(Row) /\ closer["stop"].fn \in Ids
  BY <1>0 DEF Dispatcher, Closer
\* Nobody has a call that is on disk.
<1>02. ASSUME NEW s \in {disp.rows, closer["run"].rows, closer["stop"].rows}
       PROVE  s \in Seq(Row) /\ Whole(s) /\ \A id : ~ (Claims(disk, id) /\ Claims(s, id))
  BY <1>02, Apart
<1>1. ASSUME disk' = disk, rbSeen'.torn = rbSeen.torn, rbSeen'.prompts = rbSeen.prompts PROVE DiskInv'
  BY <1>1 DEF DiskInv
<1>2. CASE UNCHANGED <<disk, rbSeen>>
  BY <1>1, <1>2
<1>3. CASE OnMessageChunk
  <2>1. disk' = disk /\ rbSeen' = Counted
    BY <1>3 DEF OnMessageChunk, Leave
  <2>2. rbSeen'.torn = rbSeen.torn /\ rbSeen'.prompts = rbSeen.prompts
    BY <1>0, <2>1 DEF Counted, Seen
  <2> QED
    BY <1>1, <2>1, <2>2
<1>4. ASSUME NEW id \in Tools, OnToolCall(id) PROVE DiskInv'
  <2>1. disk' = disk /\ rbSeen' = [Counted EXCEPT !.owner[id] = turn, !.stray = @ \/ Stray(id)]
    BY <1>4 DEF OnToolCall, Leave
  <2>2. rbSeen'.torn = rbSeen.torn /\ rbSeen'.prompts = rbSeen.prompts
    BY <1>0, <2>1 DEF Counted, Seen
  <2> QED
    BY <1>1, <2>1, <2>2
<1>5. ASSUME NEW id \in Tools, OnToolResult(id) \/ OnLateTerminal(id) PROVE DiskInv'
  <2>1. disk' = disk /\ rbSeen' = [Counted EXCEPT !.sent = @ \cup {id}, !.got[bld.h] = @ \cup {id}]
    BY <1>5 DEF OnToolResult, OnLateTerminal, Leave
  <2>2. rbSeen'.torn = rbSeen.torn /\ rbSeen'.prompts = rbSeen.prompts
    BY <1>0, <2>1 DEF Counted, Seen
  <2> QED
    BY <1>1, <2>1, <2>2
<1>6. ASSUME NEW id \in Tools, DropTerminal(id) PROVE DiskInv'
  <2>1. disk' = disk /\ rbSeen' = [Counted EXCEPT !.sent = @ \cup {id}]
    BY <1>6 DEF DropTerminal
  <2>2. rbSeen'.torn = rbSeen.torn /\ rbSeen'.prompts = rbSeen.prompts
    BY <1>0, <2>1 DEF Counted, Seen
  <2> QED
    BY <1>1, <2>1, <2>2
<1>7. CASE DispatchPersist
  BY <1>01, <1>02, <1>7, RowsWritten DEF DispatchPersist
<1>8. CASE DispatchStitch
  <2>1. CASE disk' = Stitch(disk, disp.id) /\ UNCHANGED rbSeen
    <3>1. disp.id \in Tools
      BY <1>8 DEF DispatchStitch, TypeInv
    <3> QED
      BY <1>0, <2>1, <3>1, StitchKeeps DEF DiskInv
  <2>2. CASE UNCHANGED disk /\ rbSeen' = [rbSeen EXCEPT !.fails = @ + 1, !.errs = @ \cup {disp.fn}]
    <3>1. rbSeen'.torn = rbSeen.torn /\ rbSeen'.prompts = rbSeen.prompts
      BY <1>0, <2>2 DEF Seen
    <3> QED
      BY <1>1, <2>2, <3>1
  <2> QED
    BY <1>8, <2>1, <2>2 DEF DispatchStitch
<1>9. ASSUME NEW a \in Closers, ClosePersist(a) PROVE DiskInv'
  <2>1. closer[a].rows \in {disp.rows, closer["run"].rows, closer["stop"].rows} /\ closer[a].fn \in Ids
    BY <1>01 DEF Closers
  <2> QED
    BY <1>02, <1>9, <2>1, RowsWritten DEF ClosePersist
<1>10. CASE BeginRun
  <2> DEFINE n == run.n + 1
  <2> DEFINE kept == WithoutOrphans(disk)
  <2>0. run.n \in Nat /\ n \in RunIds /\ \A m \in rbSeen.prompts : m < n
    <3>1. run.n \in Nat
      <4>1. run.n \in Ids
        BY <1>0 DEF TheRun
      <4> QED
        BY <4>1 DEF Ids
    <3>2. run.n < MaxRuns
      BY <1>10 DEF BeginRun
    <3>3. \A m \in 1 .. run.n : m < n
      BY <3>1
    <3> QED
      BY <3>1, <3>2, <3>3 DEF RunIds, WhoInv
  <2>1. kept \in Seq(Row) /\ Ordered(kept) /\ AllPaired(kept) /\ Prompted(kept, rbSeen.prompts)
    BY <1>0, CutKeeps DEF DiskInv
  <2>2. rbSeen.prompts \in SUBSET Nat
    BY <1>0 DEF Seen, RunIds
  <2> HIDE DEF kept
  <2>3. CASE disk' = Append(kept, User(n)) /\ rbSeen' = [rbSeen EXCEPT !.prompts = @ \cup {n}, !.torn = FALSE]
    <3> HIDE DEF n
    <3>1. /\ disk' \in Seq(Row) /\ Ordered(disk') /\ AllPaired(disk') /\ Prompted(disk', rbSeen.prompts \cup {n})
      BY <2>0, <2>1, <2>2, <2>3, PromptJoins
    <3>2. rbSeen'.prompts = rbSeen.prompts \cup {n}
      BY <1>0, <2>3 DEF Seen
    <3> QED
      BY <3>1, <3>2 DEF DiskInv, AllPaired, PromptsBehind
  <2>4. ASSUME NEW d \in {kept, disk}, disk' = d,
               rbSeen' = [rbSeen EXCEPT !.fails = @ + 1, !.torn = @ /\ d # kept]
        PROVE  DiskInv'
    <3>1. rbSeen'.torn = (rbSeen.torn /\ d # kept) /\ rbSeen'.prompts = rbSeen.prompts
      BY <1>0, <2>4 DEF Seen
    <3>2. CASE d = kept
      BY <2>1, <2>4, <3>1, <3>2 DEF DiskInv, AllPaired, PromptsBehind
    <3>3. CASE d # kept
      BY <2>4, <3>1, <3>3 DEF DiskInv
    <3> QED
      BY <3>2, <3>3
  <2> QED
    BY <1>10, <2>3, <2>4 DEF BeginRun, kept
<1>11. CASE Prompt
  <2>1. disk' = disk
    BY <1>11 DEF Prompt
  <2>2. rbSeen'.torn = rbSeen.torn /\ rbSeen'.prompts = rbSeen.prompts
    BY <1>0, <1>11 DEF Prompt, Seen
  <2> QED
    BY <1>1, <2>1, <2>2
<1>12. CASE Capture \/ StopAndFlush
  <2>1. disk' = disk
    BY <1>12 DEF Capture, StopAndFlush
  <2>2. rbSeen'.torn = rbSeen.torn /\ rbSeen'.prompts = rbSeen.prompts
    BY <1>0, <1>12 DEF Capture, StopAndFlush, Seen
  <2> QED
    BY <1>1, <2>1, <2>2
<1>13. CASE Crash
  <2>1. rbSeen'.torn /\ rbSeen'.prompts = rbSeen.prompts
    BY <1>0, <1>13 DEF Crash, Seen
  <2>2. CASE UNCHANGED disk
    BY <2>1, <2>2 DEF DiskInv
  <2>3. ASSUME NEW rows \in {disp.rows, closer["run"].rows, closer["stop"].rows}, NEW k \in 1 .. Len(rows) - 1,
               disk' = disk \o SubSeq(rows, 1, k)
        PROVE  DiskInv'
    <3> DEFINE s == SubSeq(rows, 1, k)
    <3>1. rows \in Seq(Row) /\ Whole(rows) /\ \A id : ~ (Claims(disk, id) /\ Claims(rows, id))
      BY <1>02
    <3>2. k \in 0 .. Len(rows)
      BY <2>3, <3>1
    <3>3. s \in Seq(Row) /\ Piece(s) /\ \A id : Claims(s, id) => Claims(rows, id)
      BY <3>1, <3>2, PrefixPiece DEF Whole
    <3> HIDE DEF s
    <3>4. \A id : ~ (Claims(disk, id) /\ Claims(s, id))
      BY <3>1, <3>3
    <3>5. Ordered(disk \o s) /\ PromptsBehind(disk \o s) /\ Prompted(disk \o s, rbSeen.prompts)
      BY <1>0, <3>3, <3>4, PieceJoins DEF DiskInv
    <3> QED
      BY <2>1, <2>3, <3>5 DEF DiskInv, s
  <2> QED
    BY <1>13, <2>2, <2>3 DEF Crash
<1> QED
  BY <1>2, <1>3, <1>4, <1>5, <1>6, <1>7, <1>8, <1>9, <1>10, <1>11, <1>12, <1>13
     DEF Next, Updates, RunStep, CloseRound, DispatchEmit, EndsTaken, EndsTold, Collect, FlushHooked, Reset,
         EndTurn, PromptFails, Finish, ClearHandler, ClearOnFlush, StopWaited, StopDone

LEMMA QueueInit == ASSUME Init PROVE QueueInv
<1>1. disp.pc = "idle" /\ disp.rows = <<>> /\ \A a \in Closers : closer[a].rows = <<>>
  BY DEF Init, Idle
<1> QED
  BY <1>1, NothingWhole DEF QueueInv

\* The round that is flushed last is a whole one, or nothing.
LEMMA LastRound ==
  ASSUME TypeInv, BldInv
  PROVE  /\ NewRound(bld) \in Seq(Row) /\ Whole(NewRound(bld))
         /\ \A id : Claims(NewRound(bld), id) => id \in ToSet(bld.calls)
         /\ \A id \in ToSet(bld.calls) : Has(NewRound(bld), id, id \in bld.results)
         /\ NewRound(bld) # <<>> => Len(NewRound(bld)) = 1 + Len(bld.calls)
<1>1. bld \in Builder /\ Distinct(bld.calls)
  BY DEF TypeInv, BldInv
<1>2. CASE bld.text \/ bld.calls # <<>>
  BY <1>1, <1>2, RoundIsWhole DEF NewRound
<1>3. CASE ~ (bld.text \/ bld.calls # <<>>)
  <2>1. NewRound(bld) = <<>> /\ ToSet(bld.calls) = {}
    BY <1>3 DEF NewRound, ToSet
  <2> QED
    BY <2>1, NothingWhole
<1> QED
  BY <1>2, <1>3

\* A step that declares no stray call: a call is declared once, and not behind the last round.
LEMMA NoStray ==
  ASSUME TypeInv, Next, ~rbSeen'.stray
  PROVE  /\ ~rbSeen.stray
         /\ \A id \in Tools : OnToolCall(id) =>
               rbSeen.owner[id] = 0 /\ closer["run"].pc \notin {"persist", "done"}
<1>0. rbSeen \in Seen
  BY DEF TypeInv
<1>1. ASSUME NEW id \in Tools, OnToolCall(id)
      PROVE  ~rbSeen.stray /\ rbSeen.owner[id] = 0 /\ closer["run"].pc \notin {"persist", "done"}
  <2>1. rbSeen' = [Counted EXCEPT !.owner[id] = turn, !.stray = @ \/ Stray(id)]
    BY <1>1 DEF OnToolCall
  <2>2. rbSeen'.stray = (rbSeen.stray \/ Stray(id))
    BY <1>0, <2>1 DEF Counted, Seen
  <2>3. id \notin ToSet(bld.calls) \cup bld.late
    BY <1>1 DEF OnToolCall, Declared
  <2> QED
    BY <2>2, <2>3 DEF Stray
<1>2. ASSUME rbSeen' = rbSeen PROVE ~rbSeen.stray
  BY <1>2
<1>3. Counted \in Seen /\ Counted.stray = rbSeen.stray
  BY <1>0 DEF Counted, Seen
<1>4. ASSUME NEW id \in Tools, OnToolResult(id) \/ OnLateTerminal(id) \/ DropTerminal(id) PROVE ~rbSeen.stray
  <2>1. \/ rbSeen' = [Counted EXCEPT !.sent = @ \cup {id}, !.got[bld.h] = @ \cup {id}]
        \/ rbSeen' = [Counted EXCEPT !.sent = @ \cup {id}]
    BY <1>4 DEF OnToolResult, OnLateTerminal, DropTerminal
  <2> QED
    BY <1>3, <2>1 DEF Seen
<1>5. ASSUME NEW rows, NEW n, Write(rows, n) PROVE ~rbSeen.stray
  BY <1>0, <1>5 DEF Write, Seen
<1>6. ASSUME DispatchStitch \/ StopAndFlush \/ Crash \/ Prompt \/ Capture PROVE ~rbSeen.stray
  BY <1>0, <1>6 DEF DispatchStitch, StopAndFlush, Crash, Prompt, Capture, Seen
<1>7. ASSUME BeginRun PROVE ~rbSeen.stray
  <2> DEFINE n == run.n + 1
  <2>1. \/ rbSeen' = [rbSeen EXCEPT !.prompts = @ \cup {n}, !.torn = FALSE]
        \/ \E d : rbSeen' = [rbSeen EXCEPT !.fails = @ + 1, !.torn = @ /\ d # WithoutOrphans(disk)]
    BY <1>7 DEF BeginRun
  <2> HIDE DEF n
  <2> QED
    BY <1>0, <2>1 DEF Seen
<1>8. ASSUME OnMessageChunk PROVE ~rbSeen.stray
  BY <1>3, <1>8 DEF OnMessageChunk
<1>9. ASSUME DispatchPersist \/ \E a \in Closers : ClosePersist(a) PROVE ~rbSeen.stray
  BY <1>5, <1>9 DEF DispatchPersist, ClosePersist
<1>10. ~rbSeen.stray
  BY <1>1, <1>2, <1>4, <1>6, <1>7, <1>8, <1>9
     DEF Next, Updates, RunStep, CloseRound, DispatchEmit, EndsTaken, EndsTold, Collect, FlushHooked, StopWaited, StopDone,
         Reset, EndTurn, PromptFails, Finish, ClearHandler, ClearOnFlush
<1> QED
  BY <1>1, <1>10

LEMMA StrayStays == ASSUME TypeInv, Next, rbSeen.stray PROVE rbSeen'.stray
BY NoStray

\* Before a Run prompts, and once its last round has been collected, the builder holds no round: at most
\* a text that came late.
DrainInv ==
  run.pc \notin {"prompt", "closing"} \/ closer["run"].pc \in {"persist", "done"} =>
     bld.calls = <<>> /\ bld.done = <<>>

LEMMA DrainInit == ASSUME Init PROVE DrainInv
BY DEF Init, Fresh, DrainInv

LEMMA DrainNext ==
  ASSUME MaxRuns \in Nat, TypeInv, RunInv, DrainInv, Next, ~rbSeen'.stray
  PROVE  DrainInv'
<1>0. /\ bld \in Builder /\ run \in TheRun /\ closer \in [Closers -> Closer] /\ "run" \in Closers /\ "stop" \in Closers
      /\ closer["run"] \in Closer
  BY DEF TypeInv, Closers
<1>1. CASE ~ (run.pc \notin {"prompt", "closing"} \/ closer["run"].pc \in {"persist", "done"})
           /\ UNCHANGED <<run, closer>>
  BY <1>1 DEF DrainInv
<1>2. ASSUME bld'.calls = bld.calls, bld'.done = bld.done,
             run'.pc \notin {"prompt", "closing"} \/ closer'["run"].pc \in {"persist", "done"} =>
                run.pc \notin {"prompt", "closing"} \/ closer["run"].pc \in {"persist", "done"}
      PROVE  DrainInv'
  BY <1>2 DEF DrainInv
<1>3. ASSUME bld'.calls = <<>>, bld'.done = <<>> PROVE DrainInv'
  BY <1>3 DEF DrainInv
\* An update: only one behind the last round could fill the builder again.
<1>4. ASSUME Accepts, UNCHANGED <<run, closer>>, bld.calls = <<>> /\ bld.done = <<>> => bld'.calls = <<>> /\ bld'.done = <<>>
      PROVE  DrainInv'
  BY <1>1, <1>4 DEF DrainInv
<1>5. CASE OnMessageChunk
  <2> DEFINE base == IF bld.calls # <<>> THEN [Flushed(bld) EXCEPT !.late = @ \cup Pending(bld)] ELSE bld
  <2>1. bld' = [base EXCEPT !.text = TRUE, !.open = TRUE] /\ UNCHANGED <<run, closer>> /\ Accepts
    BY <1>5 DEF OnMessageChunk, Leave
  <2>2. bld.calls = <<>> => bld' = [bld EXCEPT !.text = TRUE, !.open = TRUE]
    BY <2>1
  <2> QED
    BY <1>0, <1>4, <2>1, <2>2 DEF Builder
<1>6. ASSUME NEW id \in Tools, OnToolCall(id) PROVE DrainInv'
  <2>1. run.pc \in {"prompt", "closing"} /\ UNCHANGED <<run, closer>>
    BY <1>6 DEF OnToolCall, Accepts, Leave
  <2> QED
    BY <1>1, <1>6, <2>1, NoStray
<1>7. ASSUME NEW id \in Tools, OnToolResult(id) PROVE DrainInv'
  <2>1. Accepts /\ UNCHANGED <<run, closer>> /\ id \in Pending(bld)
    BY <1>7 DEF OnToolResult, Leave
  <2>2. bld.calls # <<>>
    BY <2>1 DEF Pending, ToSet
  <2> QED
    BY <1>4, <2>1, <2>2
<1>8. ASSUME NEW id \in Tools, OnLateTerminal(id) PROVE DrainInv'
  <2>1. bld' = [bld EXCEPT !.late = @ \ {id}, !.done = Stitch(@, id)] /\ UNCHANGED <<run, closer>> /\ Accepts
    BY <1>8 DEF OnLateTerminal
  <2>2. Stitch(<<>>, id) = <<>>
    BY DEF Stitch
  <2>3. bld'.calls = bld.calls /\ bld'.done = Stitch(bld.done, id)
    BY <1>0, <2>1 DEF Builder
  <2> QED
    BY <1>4, <2>1, <2>2, <2>3
<1>9. CASE UNCHANGED <<bld, run, closer>>
  BY <1>2, <1>9
<1>10. ASSUME NEW a \in Closers, EndsTaken(a) PROVE DrainInv'
  <2>1. bld' = [bld EXCEPT !.open = FALSE] /\ UNCHANGED run
    BY <1>10 DEF EndsTaken
  <2>2. bld'.calls = bld.calls /\ bld'.done = bld.done
    BY <1>0, <2>1 DEF Builder
  <2>3. closer'[a].pc = "tell" /\ \A o \in Closers : o # a => closer'[o] = closer[o]
    BY <1>0, <1>10 DEF EndsTaken, Closer
  <2>4. closer'["run"].pc \in {"persist", "done"} => closer["run"].pc \in {"persist", "done"}
    BY <1>0, <2>3
  <2> QED
    BY <1>2, <2>1, <2>2, <2>4
\* A step of one closer that does not bring the Run's to its last round.
<1>11. ASSUME NEW a \in Closers, NEW pc, Step(a, pc), UNCHANGED bld,
              a = "run" => pc \notin {"persist", "done"},
              run'.pc \notin {"prompt", "closing"} => run.pc \notin {"prompt", "closing"}
       PROVE  DrainInv'
  <2>1. closer'[a].pc = pc /\ \A o \in Closers : o # a => closer'[o] = closer[o]
    BY <1>11, StepCloser
  <2>2. closer'["run"].pc \in {"persist", "done"} => closer["run"].pc \in {"persist", "done"}
    BY <1>0, <1>11, <2>1
  <2> QED
    BY <1>2, <1>11, <2>2
<1>12. ASSUME NEW a \in Closers, EndsTold(a) PROVE DrainInv'
  BY <1>11, <1>12 DEF EndsTold
<1>13. CASE FlushHooked
  <2>1. UNCHANGED <<bld, run>> /\ closer'["run"] = closer["run"]
    BY <1>0, <1>13 DEF FlushHooked
  <2> QED
    BY <1>2, <2>1
<1>14. ASSUME NEW a \in Closers, Collect(a) PROVE DrainInv'
  <2>1. bld' = [Flushed(bld) EXCEPT !.done = <<>>]
    BY <1>14 DEF Collect
  <2>2. Flushed(bld) \in Builder /\ Flushed(bld).calls = <<>>
    BY <1>0, FlushTypes DEF Flushed, Builder
  <2> QED
    BY <1>3, <2>1, <2>2 DEF Builder
<1>15. ASSUME NEW a \in Closers, ClosePersist(a) PROVE DrainInv'
  <2>1. UNCHANGED <<bld, run>> /\ closer[a].pc = "persist"
    BY <1>15 DEF ClosePersist
  <2>2. \A o \in Closers : o # a => closer'[o] = closer[o]
    BY <1>0, <1>15 DEF ClosePersist
  <2>3. closer'["run"].pc \in {"persist", "done"} => closer["run"].pc \in {"persist", "done"}
    BY <1>0, <2>1, <2>2
  <2> QED
    BY <1>2, <2>1, <2>3
<1>16. CASE BeginRun
  BY <1>2, <1>16 DEF BeginRun, RunAt
<1>17. CASE Reset
  <2>1. bld' = Fresh(run.n)
    BY <1>17 DEF Reset
  <2> QED
    BY <1>3, <2>1 DEF Fresh
<1>18. CASE Prompt \/ Capture
  BY <1>0, <1>2, <1>18 DEF Prompt, Capture, RunAt, To, TheRun
<1>19. CASE EndTurn \/ PromptFails
  <2>1. UNCHANGED bld /\ Step("run", "ends")
    BY <1>19 DEF EndTurn, PromptFails, Finish
  <2>2. run'.pc = "closing"
    BY <1>0, <1>19 DEF EndTurn, PromptFails, Finish, TheRun
  <2> QED
    BY <1>0, <1>11, <2>1, <2>2
<1>20. CASE ClearHandler
  <2>1. bld' = [bld EXCEPT !.h = 0] /\ closer["run"].pc = "done"
    BY <1>20 DEF ClearHandler
  <2>2. bld'.calls = bld.calls /\ bld'.done = bld.done
    BY <1>0, <2>1 DEF Builder
  <2> QED
    BY <1>2, <2>1, <2>2
<1>21. CASE ClearOnFlush
  <2>1. bld' = [bld EXCEPT !.flush = 0, !.stitch = 0] /\ UNCHANGED closer /\ run.pc = "unwire"
    BY <1>21 DEF ClearOnFlush, RunAt
  <2>2. bld'.calls = bld.calls /\ bld'.done = bld.done
    BY <1>0, <2>1 DEF Builder
  <2> QED
    BY <1>2, <2>1, <2>2
<1>22. CASE StopAndFlush
  BY <1>0, <1>11, <1>22 DEF StopAndFlush, TheRun
<1>23. CASE StopWaited \/ StopDone
  BY <1>0, <1>11, <1>23 DEF StopWaited, StopDone
<1>24. CASE Crash
  <2>1. bld' = [Fresh(0) EXCEPT !.flush = 0]
    BY <1>24 DEF Crash
  <2> QED
    BY <1>3, <2>1 DEF Fresh
<1> QED
  BY <1>5, <1>6, <1>7, <1>8, <1>9, <1>10, <1>12, <1>13, <1>14, <1>15, <1>16, <1>17, <1>18, <1>19, <1>20, <1>21,
     <1>22, <1>23, <1>24
     DEF Next, Updates, RunStep, CloseRound, DropTerminal, DispatchPersist, DispatchStitch, DispatchEmit

\* The steps of the closers in a collection.
LEMMA CollectSteps ==
  ASSUME TypeInv, NEW a \in Closers, Collect(a)
  PROVE  closer'[a].pc \in {"persist", "done"} /\ \A o \in Closers : o # a => closer'[o] = closer[o]
BY DEF TypeInv, Collect, Idle

\* What a closer collects: the last round, or nothing, when the builder has been emptied before.
LEMMA Collected ==
  ASSUME TypeInv, RunInv, DrainInv, NEW a \in Closers, Collect(a)
  PROVE  /\ closer'[a].rows \in {NewRound(bld), <<>>}
         /\ closer'[a].rows # <<>> => closer'[a].pc = "persist"
         /\ closer'[a].rows = <<>> => closer'[a].pc = "done"
         /\ bld.flush # 0 => closer'[a].rows = NewRound(bld)
         /\ \A o \in Closers : o # a => closer'[o] = closer[o]
<1> DEFINE all == bld.done \o NewRound(bld)
<1> DEFINE inline == a = "stop" /\ closer[a].id = "inline"
<1> DEFINE rows == IF inline THEN all ELSE IF bld.flush # 0 THEN NewRound(bld) ELSE <<>>
<1> DEFINE fn == IF inline THEN 0 ELSE bld.flush
<1> DEFINE c == [Idle EXCEPT !.pc = IF rows # <<>> THEN "persist" ELSE "done", !.rows = rows, !.fn = fn]
<1>1. closer' = [closer EXCEPT ![a] = c] /\ closer[a].pc = "collect"
  BY DEF Collect
<1>2. NewRound(bld) \in Seq(Row)
  <2>1. bld \in Builder
    BY DEF TypeInv
  <2>2. Round(bld) \in Seq(Row)
    BY <2>1, RoundRows
  <2> QED
    BY <2>2 DEF NewRound
<1>3. bld.done = <<>> => all = NewRound(bld)
  BY <1>2
<1>4. inline => run.pc = "idle" /\ bld.flush = 0
  BY <1>1 DEF RunInv
<1>5. inline => all = NewRound(bld) /\ bld.flush = 0
  BY <1>3, <1>4 DEF DrainInv
<1>6. rows \in {NewRound(bld), <<>>} /\ (bld.flush # 0 => rows = NewRound(bld))
  BY <1>5
<1>7. closer'[a] = c /\ \A o \in Closers : o # a => closer'[o] = closer[o]
  BY <1>1 DEF TypeInv
<1> HIDE DEF rows, fn
<1>8. c.rows = rows /\ c.pc = (IF rows # <<>> THEN "persist" ELSE "done")
  BY DEF Idle
<1> QED
  BY <1>6, <1>7, <1>8

LEMMA QueueNext ==
  ASSUME MaxRuns \in Nat, TypeInv, BldInv, RunInv, DrainInv, QueueInv, Next
  PROVE  QueueInv'
<1>0. /\ bld \in Builder /\ run \in TheRun /\ disp \in Dispatcher
      /\ closer \in [Closers -> Closer] /\ "run" \in Closers /\ "stop" \in Closers
  BY DEF TypeInv, Closers
<1>01. Distinct(bld.calls)
  BY DEF BldInv
<1>1. ASSUME NEW b, NEW rows, NEW ev, Leave(b, rows, ev), Whole(rows), Accepts PROVE QueueInv'
  <2>1. disp'.pc = (IF rows # <<>> /\ bld.flush # 0 THEN "persist" ELSE "emit") /\ disp'.rows = rows
    BY <1>1, LeaveFields
  <2>2. UNCHANGED closer
    BY <1>1 DEF Leave
  <2>3. bld.flush # 0
    BY <1>1 DEF Accepts, RunInv
  <2> QED
    BY <1>1, <2>1, <2>2, <2>3 DEF QueueInv
<1>2. CASE OnMessageChunk
  <2> DEFINE rows == IF bld.calls # <<>> THEN Round(bld) ELSE <<>>
  <2>1. Whole(rows)
    BY <1>0, <1>01, RoundIsWhole, NothingWhole
  <2>2. PICK b, ev : Leave(b, rows, ev)
    BY <1>2 DEF OnMessageChunk
  <2>3. Accepts
    BY <1>2 DEF OnMessageChunk
  <2> QED
    BY <1>1, <2>1, <2>2, <2>3
<1>3. ASSUME NEW id \in Tools, OnToolCall(id) PROVE QueueInv'
  <2>1. PICK b, ev : Leave(b, <<>>, ev)
    BY <1>3 DEF OnToolCall
  <2>2. Accepts
    BY <1>3 DEF OnToolCall
  <2> QED
    BY <1>1, <2>1, <2>2, NothingWhole
<1>4. ASSUME NEW id \in Tools, OnToolResult(id) PROVE QueueInv'
  <2> DEFINE b == [bld EXCEPT !.results = @ \cup {id}]
  <2> DEFINE rows == IF Pending(b) = {} THEN Round(b) ELSE <<>>
  <2>1. b \in Builder /\ b.calls = bld.calls
    BY <1>0 DEF Builder
  <2>2. PICK b2, ev : Leave(b2, rows, ev)
    BY <1>4 DEF OnToolResult
  <2>3. Accepts
    BY <1>4 DEF OnToolResult
  <2> HIDE DEF b
  <2>4. Whole(rows)
    BY <1>01, <2>1, RoundIsWhole, NothingWhole
  <2> HIDE DEF rows
  <2> QED
    BY <1>1, <2>2, <2>3, <2>4
<1>5. ASSUME NEW id \in Tools, OnLateTerminal(id) PROVE QueueInv'
  <2>1. disp' = [Idle EXCEPT !.pc = IF bld.stitch # 0 THEN "stitch" ELSE "emit",
                            !.h = bld.h, !.fn = bld.stitch, !.id = id,
                            !.ev = Notice({id}, "result", "same")] /\ UNCHANGED closer
    BY <1>5 DEF OnLateTerminal
  <2>2. disp'.rows = <<>>
    BY <2>1 DEF Idle
  <2> QED
    BY <2>1, <2>2, NothingWhole DEF QueueInv
<1>6. CASE DispatchPersist \/ DispatchStitch
  <2>1. disp' = [disp EXCEPT !.pc = "emit", !.rows = <<>>, !.fn = 0, !.id = ""] /\ UNCHANGED closer
    BY <1>6 DEF DispatchPersist, DispatchStitch
  <2>2. disp'.rows = <<>>
    BY <1>0, <2>1 DEF Dispatcher
  <2> QED
    BY <2>1, <2>2, NothingWhole DEF QueueInv
<1>7. CASE DispatchEmit
  <2>1. disp' = Idle /\ UNCHANGED closer
    BY <1>7 DEF DispatchEmit
  <2>2. disp'.rows = <<>>
    BY <2>1 DEF Idle
  <2> QED
    BY <2>1, <2>2, NothingWhole DEF QueueInv
<1>8. ASSUME NEW a \in Closers, EndsTaken(a) PROVE QueueInv'
  <2>1. UNCHANGED disp /\ closer[a].pc = "ends"
    BY <1>8 DEF EndsTaken
  <2>2. closer'[a].rows = closer[a].rows /\ \A o \in Closers : o # a => closer'[o] = closer[o]
    BY <1>0, <1>8 DEF EndsTaken, Closer
  <2>3. closer[a].rows = <<>>
    BY <2>1 DEF QueueInv
  <2> QED
    BY <2>1, <2>2, <2>3, NothingWhole DEF QueueInv
\* A closer without rows takes a step of its own.
<1>9. ASSUME NEW a \in Closers, NEW pc, Step(a, pc), closer[a].pc # "persist", UNCHANGED disp PROVE QueueInv'
  <2>1. closer'[a].rows = closer[a].rows /\ \A o \in Closers : o # a => closer'[o] = closer[o]
    BY <1>9, StepCloser
  <2>2. closer[a].rows = <<>>
    BY <1>9 DEF QueueInv
  <2> QED
    BY <1>9, <2>1, <2>2, NothingWhole DEF QueueInv
<1>10. ASSUME NEW a \in Closers, EndsTold(a) PROVE QueueInv'
  <2>1. PICK pc : Step(a, pc)
    BY <1>10 DEF EndsTold
  <2> QED
    BY <1>9, <1>10, <2>1 DEF EndsTold
<1>11. CASE FlushHooked
  <2>1. UNCHANGED disp /\ closer["stop"].pc = "hooked"
    BY <1>11 DEF FlushHooked
  <2>2. closer'["stop"].rows = closer["stop"].rows /\ \A o \in Closers : o # "stop" => closer'[o] = closer[o]
    BY <1>0, <1>11 DEF FlushHooked, Closer
  <2>3. closer["stop"].rows = <<>>
    BY <1>0, <2>1 DEF QueueInv
  <2> QED
    BY <2>1, <2>2, <2>3, NothingWhole DEF QueueInv
<1>12. ASSUME NEW a \in Closers, Collect(a) PROVE QueueInv'
  <2>1. UNCHANGED disp
    BY <1>12 DEF Collect
  <2>2. Whole(closer'[a].rows) /\ (closer'[a].pc # "persist" => closer'[a].rows = <<>>)
        /\ \A o \in Closers : o # a => closer'[o] = closer[o]
    BY <1>12, Collected, LastRound, NothingWhole
  <2> QED
    BY <2>1, <2>2 DEF QueueInv
<1>13. ASSUME NEW a \in Closers, ClosePersist(a) PROVE QueueInv'
  <2>1. UNCHANGED disp /\ closer' = [closer EXCEPT ![a] = [Idle EXCEPT !.pc = "done"]]
    BY <1>13 DEF ClosePersist
  <2>2. closer'[a].rows = <<>> /\ \A o \in Closers : o # a => closer'[o] = closer[o]
    BY <1>0, <2>1 DEF Idle
  <2> QED
    BY <2>1, <2>2, NothingWhole DEF QueueInv
<1>14. CASE EndTurn \/ PromptFails
  <2>1. Step("run", "ends") /\ UNCHANGED disp /\ run.pc = "prompt"
    BY <1>14 DEF EndTurn, PromptFails, Finish, RunAt
  <2>2. closer["run"].pc # "persist"
    BY <2>1 DEF RunInv
  <2> QED
    BY <1>0, <1>9, <2>1, <2>2
<1>15. CASE ClearHandler
  <2>1. Step("run", "idle") /\ UNCHANGED disp /\ closer["run"].pc = "done"
    BY <1>15 DEF ClearHandler
  <2> QED
    BY <1>0, <1>9, <2>1
<1>16. CASE StopAndFlush \/ StopWaited \/ StopDone
  <2>1. PICK pc : Step("stop", pc)
    BY <1>16 DEF StopAndFlush, StopWaited, StopDone
  <2>2. UNCHANGED disp /\ closer["stop"].pc \in {"idle", "wait", "done"}
    BY <1>16 DEF StopAndFlush, StopWaited, StopDone
  <2>3. closer["stop"].pc # "persist"
    BY <2>2
  <2> QED
    BY <1>0, <1>9, <2>1, <2>2, <2>3
<1>17. CASE Crash
  <2>1. disp' = Idle /\ closer' = [a \in Closers |-> Idle]
    BY <1>17 DEF Crash
  <2>2. disp'.rows = <<>> /\ \A a \in Closers : closer'[a].rows = <<>>
    BY <2>1 DEF Idle
  <2> QED
    BY <2>2, NothingWhole DEF QueueInv
<1>18. CASE UNCHANGED <<disp, closer>>
  BY <1>18 DEF QueueInv
<1> QED
  BY <1>2, <1>3, <1>4, <1>5, <1>6, <1>7, <1>8, <1>10, <1>11, <1>12, <1>13, <1>14, <1>15, <1>16, <1>17, <1>18
     DEF Next, Updates, RunStep, CloseRound, DropTerminal, BeginRun, Reset, Prompt, Capture, ClearOnFlush

LEMMA HolderInit == ASSUME Init PROVE HolderInv
<1>1. /\ bld.calls = <<>> /\ disk = <<>> /\ disp.rows = <<>>
      /\ closer["run"].rows = <<>> /\ closer["stop"].rows = <<>>
  BY DEF Init, Fresh, Idle, Closers
<1>2. ToSet(bld.calls) = {}
  BY <1>1 DEF ToSet
<1>3. ASSUME NEW id \in Tools PROVE ~InBld(id) /\ ~OnDisk(id) /\ ~InDisp(id) /\ ~InRun(id) /\ ~InStop(id)
  BY <1>1, <1>2, NothingWhole DEF InBld, OnDisk, InDisp, InRun, InStop
<1> QED
  BY <1>3 DEF HolderInv, Held

LEMMA HolderNext ==
  ASSUME MaxRuns \in Nat, TypeInv, BldInv, RunInv, DrainInv, DiskInv, QueueInv, HolderInv, Next, ~rbSeen'.stray
  PROVE  HolderInv'
<1>0. /\ bld \in Builder /\ disk \in Seq(Row) /\ run \in TheRun /\ disp \in Dispatcher /\ rbSeen \in Seen
      /\ closer \in [Closers -> Closer] /\ "run" \in Closers /\ "stop" \in Closers /\ "run" # "stop"
      /\ closer["run"] \in Closer /\ closer["stop"] \in Closer
  BY DEF TypeInv, Closers
<1>01. /\ disp.rows \in Seq(Row) /\ disp.fn \in Ids /\ bld.calls \in Seq(Tools)
       /\ closer["run"].rows \in Seq(Row) /\ closer["run"].fn \in Ids
       /\ closer["stop"].rows \in Seq(Row) /\ closer["stop"].fn \in Ids
  BY <1>0 DEF Dispatcher, Closer, Builder
<1>02. ToSet(<<>>) = {} /\ Distinct(bld.calls)
  BY DEF ToSet, BldInv
\* Nobody has a call that is on disk.
<1>03. ASSUME NEW s \in {disp.rows, closer["run"].rows, closer["stop"].rows}
       PROVE  s \in Seq(Row) /\ Whole(s) /\ \A id : ~ (Claims(disk, id) /\ Claims(s, id))
  BY <1>03, Apart
\* Who lets a call go may leave it to one other.
<1>1. ASSUME \A id \in Tools :
               /\ InBld(id)' => InBld(id)
               /\ OnDisk(id)' => OnDisk(id)
               /\ InDisp(id)' => InDisp(id)
               /\ InRun(id)' => InRun(id)
               /\ InStop(id)' => InStop(id)
               /\ rbSeen'.owner[id] = rbSeen.owner[id]
      PROVE  HolderInv'
  BY <1>1 DEF HolderInv, Held
<1>2. ASSUME rbSeen'.owner = rbSeen.owner, disk' = disk, closer' = closer,
             \A id \in Tools : /\ InDisp(id)' => InBld(id) /\ ~InBld(id)'
                               /\ InBld(id)' => InBld(id)
      PROVE  HolderInv'
  BY <1>2 DEF HolderInv, Held, OnDisk, InRun, InStop
<1>3. ASSUME UNCHANGED <<bld, disk, closer>>, disp'.rows \in {disp.rows, <<>>}, rbSeen'.owner = rbSeen.owner
      PROVE  HolderInv'
  BY <1>1, <1>3, NothingWhole DEF InBld, OnDisk, InDisp, InRun, InStop
<1>4. CASE OnMessageChunk
  <2> DEFINE rows == IF bld.calls # <<>> THEN Round(bld) ELSE <<>>
  <2> DEFINE base == IF bld.calls # <<>> THEN [Flushed(bld) EXCEPT !.late = @ \cup Pending(bld)] ELSE bld
  <2> DEFINE b == [base EXCEPT !.text = TRUE, !.open = TRUE]
  <2>1. PICK ev : Leave(b, rows, ev)
    BY <1>4 DEF OnMessageChunk
  <2>2. rbSeen'.owner = rbSeen.owner
    BY <1>0, <1>4 DEF OnMessageChunk, Counted, Seen
  <2>3. disk' = disk /\ closer' = closer /\ bld' = b /\ disp'.rows = rows
    BY <2>1, LeaveFields DEF Leave
  <2>4. CASE bld.calls # <<>>
    <3>1. base \in Builder /\ base.calls = <<>>
      <4>1. Flushed(bld) \in Builder /\ Flushed(bld).calls = <<>>
        BY <1>0, FlushTypes DEF Flushed, Builder
      <4>2. Pending(bld) \in SUBSET Tools
        BY <1>0 DEF Pending, ToSet, Builder
      <4> QED
        BY <2>4, <4>1, <4>2 DEF Builder
    <3> HIDE DEF base
    <3>2. bld'.calls = <<>>
      BY <2>3, <3>1 DEF Builder
    <3>3. disp'.rows = Round(bld)
      BY <2>3, <2>4
    <3>4. ASSUME NEW id \in Tools PROVE (InDisp(id)' => InBld(id)) /\ ~InBld(id)'
      BY <1>0, <1>02, <3>2, <3>3, RoundIsWhole DEF InDisp, InBld
    <3> QED
      BY <1>2, <2>2, <2>3, <3>4
  <2>5. CASE bld.calls = <<>>
    <3>1. bld'.calls = bld.calls
      BY <1>0, <2>3, <2>5 DEF Builder
    <3>2. disp'.rows = <<>>
      BY <2>3, <2>5
    <3>3. ASSUME NEW id \in Tools PROVE ~InDisp(id)' /\ (InBld(id)' => InBld(id))
      BY <3>1, <3>2, NothingWhole DEF InDisp, InBld
    <3> QED
      BY <1>2, <2>2, <2>3, <3>3
  <2> QED
    BY <2>4, <2>5
<1>5. ASSUME NEW id \in Tools, OnToolCall(id) PROVE HolderInv'
  <2>1. PICK ev : Leave([bld EXCEPT !.calls = Append(@, id), !.open = FALSE], <<>>, ev)
    BY <1>5 DEF OnToolCall
  <2>2. disk' = disk /\ closer' = closer /\ bld' = [bld EXCEPT !.calls = Append(@, id), !.open = FALSE] /\ disp'.rows = <<>>
    BY <2>1, LeaveFields DEF Leave
  <2>3. rbSeen.owner[id] = 0 /\ turn # 0
    BY <1>5, NoStray DEF OnToolCall, Accepts
  <2>4. rbSeen'.owner = [rbSeen.owner EXCEPT ![id] = turn]
    BY <1>0, <1>5 DEF OnToolCall, Counted, Seen
  <2>5. bld'.calls = Append(bld.calls, id)
    BY <1>0, <2>2 DEF Builder
  <2>6. ToSet(bld'.calls) = ToSet(bld.calls) \cup {id}
    BY <1>01, <2>5, CallsGrow
  <2>7. rbSeen.owner \in [Tools -> Ids]
    BY <1>0 DEF Seen
  <2>8. ASSUME NEW x \in Tools PROVE Held(x)'
    <3>1. /\ InBld(x)' => InBld(x) \/ x = id
          /\ OnDisk(x)' = OnDisk(x) /\ ~InDisp(x)' /\ InRun(x)' = InRun(x) /\ InStop(x)' = InStop(x)
      BY <2>2, <2>6, NothingWhole DEF InBld, OnDisk, InDisp, InRun, InStop
    <3>2. Held(x)
      BY DEF HolderInv
    <3>3. CASE x = id
      <4>1. ~OnDisk(x) /\ ~InRun(x) /\ ~InStop(x)
        BY <2>3, <3>2, <3>3 DEF Held
      <4>2. rbSeen'.owner[x] # 0
        BY <2>3, <2>4, <2>7, <3>3
      <4> QED
        BY <3>1, <4>1, <4>2 DEF Held
    <3>4. CASE x # id
      <4>1. rbSeen'.owner[x] = rbSeen.owner[x]
        BY <2>4, <2>7, <3>4
      <4> QED
        BY <3>1, <3>2, <3>4, <4>1 DEF Held
    <3> QED
      BY <3>3, <3>4
  <2> QED
    BY <2>8 DEF HolderInv
<1>6. ASSUME NEW id \in Tools, OnToolResult(id) PROVE HolderInv'
  <2> DEFINE b == [bld EXCEPT !.results = @ \cup {id}]
  <2> DEFINE rows == IF Pending(b) = {} THEN Round(b) ELSE <<>>
  <2> DEFINE b2 == IF Pending(b) = {} THEN Flushed(b) ELSE b
  <2>1. b \in Builder /\ b.calls = bld.calls
    BY <1>0 DEF Builder
  <2>2. PICK ev : Leave(b2, rows, ev)
    BY <1>6 DEF OnToolResult
  <2>3. rbSeen'.owner = rbSeen.owner
    BY <1>0, <1>6 DEF OnToolResult, Counted, Seen
  <2>4. disk' = disk /\ closer' = closer /\ bld' = b2 /\ disp'.rows = rows
    BY <2>2, LeaveFields DEF Leave
  <2> HIDE DEF b
  <2>5. CASE Pending(b) = {}
    <3>1. bld'.calls = <<>>
      BY <2>1, <2>4, <2>5 DEF Flushed, Builder
    <3>2. disp'.rows = Round(b)
      BY <2>4, <2>5
    <3>3. ASSUME NEW x \in Tools PROVE (InDisp(x)' => InBld(x)) /\ ~InBld(x)'
      BY <1>02, <2>1, <3>1, <3>2, RoundIsWhole DEF InDisp, InBld
    <3> QED
      BY <1>2, <2>3, <2>4, <3>3
  <2>6. CASE Pending(b) # {}
    <3>1. bld'.calls = bld.calls
      BY <2>1, <2>4, <2>6
    <3>2. disp'.rows = <<>>
      BY <2>4, <2>6
    <3>3. ASSUME NEW x \in Tools PROVE ~InDisp(x)' /\ (InBld(x)' => InBld(x))
      BY <3>1, <3>2, NothingWhole DEF InDisp, InBld
    <3> QED
      BY <1>2, <2>3, <2>4, <3>3
  <2> QED
    BY <2>5, <2>6
<1>7. ASSUME NEW id \in Tools, OnLateTerminal(id) PROVE HolderInv'
  <2>1. /\ bld' = [bld EXCEPT !.late = @ \ {id}, !.done = Stitch(@, id)] /\ UNCHANGED <<disk, closer>>
        /\ disp' = [Idle EXCEPT !.pc = IF bld.stitch # 0 THEN "stitch" ELSE "emit",
                            !.h = bld.h, !.fn = bld.stitch, !.id = id,
                            !.ev = Notice({id}, "result", "same")]
    BY <1>7 DEF OnLateTerminal
  <2>2. disp'.rows = <<>> /\ bld'.calls = bld.calls
    BY <1>0, <2>1 DEF Idle, Builder
  <2>3. rbSeen'.owner = rbSeen.owner
    BY <1>0, <1>7 DEF OnLateTerminal, Counted, Seen
  <2> QED
    BY <1>2, <2>1, <2>2, <2>3, NothingWhole DEF InDisp, InBld
<1>8. ASSUME NEW id \in Tools, DropTerminal(id) PROVE HolderInv'
  <2>1. UNCHANGED <<bld, disk, disp, closer>>
    BY <1>8 DEF DropTerminal
  <2>2. rbSeen'.owner = rbSeen.owner
    BY <1>0, <1>8 DEF DropTerminal, Counted, Seen
  <2> QED
    BY <1>3, <2>1, <2>2
<1>9. CASE DispatchPersist
  <2>1. disp' = [disp EXCEPT !.pc = "emit", !.rows = <<>>, !.fn = 0, !.id = ""] /\ UNCHANGED <<bld, closer>>
        /\ Write(disp.rows, disp.fn)
    BY <1>9 DEF DispatchPersist
  <2>2. disp'.rows = <<>>
    BY <1>0, <2>1 DEF Dispatcher
  <2>3. rbSeen'.owner = rbSeen.owner /\ \A id : Claims(disk', id) => Claims(disk, id) \/ Claims(disp.rows, id)
    BY <1>01, <1>03, <2>1, RowsWritten
  <2>4. ASSUME NEW x \in Tools PROVE Held(x)'
    <3>1. /\ InBld(x)' = InBld(x) /\ (OnDisk(x)' => OnDisk(x) \/ InDisp(x))
          /\ ~InDisp(x)' /\ InRun(x)' = InRun(x) /\ InStop(x)' = InStop(x)
      BY <2>1, <2>2, <2>3, NothingWhole DEF InBld, OnDisk, InDisp, InRun, InStop
    <3> QED
      BY <2>3, <3>1 DEF HolderInv, Held
  <2> QED
    BY <2>4 DEF HolderInv
<1>10. CASE DispatchStitch
  <2>1. disp' = [disp EXCEPT !.pc = "emit", !.rows = <<>>, !.fn = 0, !.id = ""] /\ UNCHANGED <<bld, closer>>
        /\ disk' \in {Stitch(disk, disp.id), disk} /\ disp.id \in Tools
    BY <1>10 DEF DispatchStitch, TypeInv
  <2>2. disp'.rows = <<>>
    BY <1>0, <2>1 DEF Dispatcher
  <2>3. \A id : Claims(disk', id) => Claims(disk, id)
    BY <1>0, <2>1, StitchKeeps
  <2>4. rbSeen'.owner = rbSeen.owner
    BY <1>0, <1>10 DEF DispatchStitch, Seen
  <2> QED
    BY <1>1, <2>1, <2>2, <2>3, <2>4, NothingWhole DEF InBld, OnDisk, InDisp, InRun, InStop
<1>11. CASE DispatchEmit
  <2>1. disp' = Idle /\ UNCHANGED <<bld, disk, closer, rbSeen>>
    BY <1>11 DEF DispatchEmit
  <2>2. disp'.rows = <<>>
    BY <2>1 DEF Idle
  <2> QED
    BY <1>3, <2>1, <2>2
\* A closer keeps its rows in a step that does not collect or append.
<1>12. ASSUME NEW a \in Closers, closer'[a].rows = closer[a].rows, \A o \in Closers : o # a => closer'[o] = closer[o],
              bld'.calls = bld.calls, disk' = disk, disp' = disp, rbSeen'.owner = rbSeen.owner
       PROVE  HolderInv'
  <2>1. closer'["run"].rows = closer["run"].rows /\ closer'["stop"].rows = closer["stop"].rows
    BY <1>0, <1>12
  <2> QED
    BY <1>1, <1>12, <2>1 DEF InBld, OnDisk, InDisp, InRun, InStop
<1>13. ASSUME NEW a \in Closers, EndsTaken(a) PROVE HolderInv'
  <2>1. bld' = [bld EXCEPT !.open = FALSE] /\ UNCHANGED <<disk, disp, rbSeen>>
    BY <1>13 DEF EndsTaken
  <2>2. bld'.calls = bld.calls
    BY <1>0, <2>1 DEF Builder
  <2>3. closer'[a].rows = closer[a].rows /\ \A o \in Closers : o # a => closer'[o] = closer[o]
    BY <1>0, <1>13 DEF EndsTaken, Closer
  <2> QED
    BY <1>12, <2>1, <2>2, <2>3
<1>14. ASSUME NEW a \in Closers, NEW pc, Step(a, pc), bld'.calls = bld.calls, disk' = disk, disp' = disp,
              rbSeen'.owner = rbSeen.owner
       PROVE  HolderInv'
  <2>1. closer'[a].rows = closer[a].rows /\ \A o \in Closers : o # a => closer'[o] = closer[o]
    BY <1>14, StepCloser
  <2> QED
    BY <1>12, <1>14, <2>1
<1>15. ASSUME NEW a \in Closers, EndsTold(a) PROVE HolderInv'
  <2>1. PICK pc : Step(a, pc)
    BY <1>15 DEF EndsTold
  <2> QED
    BY <1>14, <1>15, <2>1 DEF EndsTold
<1>16. CASE FlushHooked
  <2>1. closer'["stop"].rows = closer["stop"].rows /\ \A o \in Closers : o # "stop" => closer'[o] = closer[o]
    BY <1>0, <1>16 DEF FlushHooked, Closer
  <2> QED
    BY <1>0, <1>12, <1>16, <2>1 DEF FlushHooked
<1>17. ASSUME NEW a \in Closers, Collect(a) PROVE HolderInv'
  <2>1. bld' = [Flushed(bld) EXCEPT !.done = <<>>] /\ UNCHANGED <<disk, disp, rbSeen>> /\ closer[a].pc = "collect"
    BY <1>17 DEF Collect
  <2>2. bld'.calls = <<>>
    <3>1. Flushed(bld) \in Builder /\ Flushed(bld).calls = <<>>
      BY <1>0, FlushTypes DEF Flushed, Builder
    <3> QED
      BY <2>1, <3>1 DEF Builder
  <2>3. closer'[a].rows \in {NewRound(bld), <<>>} /\ \A o \in Closers : o # a => closer'[o] = closer[o]
    BY <1>17, Collected
  <2>4. \A id \in Tools : Claims(closer'[a].rows, id) => InBld(id)
    BY <2>3, LastRound, NothingWhole DEF InBld
  <2>5. ASSUME NEW x \in Tools PROVE Held(x)'
    <3>1. ~InBld(x)' /\ OnDisk(x)' = OnDisk(x) /\ InDisp(x)' = InDisp(x)
      BY <1>02, <2>1, <2>2 DEF InBld, OnDisk, InDisp
    <3>2. CASE a = "run"
      <4>1. (InRun(x)' => InBld(x)) /\ InStop(x)' = InStop(x)
        BY <1>0, <2>3, <2>4, <3>2 DEF InRun, InStop
      <4> QED
        BY <2>1, <3>1, <4>1 DEF HolderInv, Held
    <3>3. CASE a = "stop"
      <4>1. (InStop(x)' => InBld(x)) /\ InRun(x)' = InRun(x)
        BY <1>0, <2>3, <2>4, <3>3 DEF InRun, InStop
      <4> QED
        BY <2>1, <3>1, <4>1 DEF HolderInv, Held
    <3> QED
      BY <3>2, <3>3 DEF Closers
  <2> QED
    BY <2>5 DEF HolderInv
<1>18. ASSUME NEW a \in Closers, ClosePersist(a) PROVE HolderInv'
  <2>1. closer' = [closer EXCEPT ![a] = [Idle EXCEPT !.pc = "done"]] /\ UNCHANGED <<bld, disp>>
        /\ Write(closer[a].rows, closer[a].fn)
    BY <1>18 DEF ClosePersist
  <2>2. closer'[a].rows = <<>> /\ \A o \in Closers : o # a => closer'[o] = closer[o]
    BY <1>0, <2>1 DEF Idle
  <2>3. closer[a].rows \in {disp.rows, closer["run"].rows, closer["stop"].rows} /\ closer[a].fn \in Ids
    BY <1>01 DEF Closers
  <2>4. rbSeen'.owner = rbSeen.owner /\ \A id : Claims(disk', id) => Claims(disk, id) \/ Claims(closer[a].rows, id)
    BY <1>03, <2>1, <2>3, RowsWritten
  <2>5. ASSUME NEW x \in Tools PROVE Held(x)'
    <3>1. InBld(x)' = InBld(x) /\ InDisp(x)' = InDisp(x)
      BY <2>1 DEF InBld, InDisp
    <3>2. CASE a = "run"
      <4>1. ~InRun(x)' /\ InStop(x)' = InStop(x) /\ (OnDisk(x)' => OnDisk(x) \/ InRun(x))
        BY <1>0, <2>2, <2>4, <3>2, NothingWhole DEF InRun, InStop, OnDisk
      <4> QED
        BY <2>4, <3>1, <4>1 DEF HolderInv, Held
    <3>3. CASE a = "stop"
      <4>1. ~InStop(x)' /\ InRun(x)' = InRun(x) /\ (OnDisk(x)' => OnDisk(x) \/ InStop(x))
        BY <1>0, <2>2, <2>4, <3>3, NothingWhole DEF InRun, InStop, OnDisk
      <4> QED
        BY <2>4, <3>1, <4>1 DEF HolderInv, Held
    <3> QED
      BY <3>2, <3>3 DEF Closers
  <2> QED
    BY <2>5 DEF HolderInv
<1>19. CASE BeginRun
  <2> DEFINE n == run.n + 1
  <2> DEFINE kept == WithoutOrphans(disk)
  <2>1. UNCHANGED <<bld, disp, closer>>
    BY <1>19 DEF BeginRun
  <2>2. rbSeen'.owner = rbSeen.owner
    BY <1>0, <1>19 DEF BeginRun, Seen
  <2>3. kept \in Seq(Row) /\ \A id : Claims(kept, id) => Claims(disk, id)
    BY <1>0, CutKeeps DEF DiskInv
  <2> HIDE DEF kept
  <2>4. disk' \in {Append(kept, User(n)), kept, disk}
    BY <1>19 DEF BeginRun, kept
  <2>5. \A id : Claims(Append(kept, User(n)), id) => Claims(kept, id)
    <3>1. n \in RunIds
      <4>1. run.n \in Ids /\ run.n < MaxRuns
        BY <1>0, <1>19 DEF BeginRun, TheRun
      <4> QED
        BY <4>1 DEF Ids, RunIds
    <3>2. User(n) \in Row /\ IsUser(User(n))
      BY <3>1, Makers
    <3> DEFINE u == User(n)
    <3>3. ~IsCall(u)
      BY <3>2, RowKinds
    <3>4. Append(kept, u) = kept \o <<u>> /\ <<u>> \in Seq(Row)
      <4>1. u \in Row
        BY <3>2
      <4> HIDE DEF u
      <4> QED
        BY <2>3, <4>1
    <3>5. \A id : ~Claims(<<u>>, id)
      <4> HIDE DEF u
      <4> QED
        BY <3>3 DEF Claims
    <3>6. ASSUME NEW id PROVE Claims(Append(kept, u), id) => Claims(kept, id)
      <4> HIDE DEF u
      <4>1. Claims(kept \o <<u>>, id) <=> Claims(kept, id) \/ Claims(<<u>>, id)
        BY <2>3, <3>4, JoinKeeps
      <4> QED
        BY <3>4, <3>5, <4>1
    <3> QED
      BY <3>6
  <2>6. \A id : Claims(disk', id) => Claims(disk, id)
    BY <2>3, <2>4, <2>5
  <2> QED
    BY <1>1, <2>1, <2>2, <2>6 DEF InBld, OnDisk, InDisp, InRun, InStop
<1>20. CASE Reset
  <2>1. bld' = Fresh(run.n) /\ UNCHANGED <<disk, disp, closer, rbSeen>>
    BY <1>20 DEF Reset
  <2>2. bld'.calls = <<>>
    BY <2>1 DEF Fresh
  <2> QED
    BY <1>02, <1>1, <2>1, <2>2 DEF InBld, OnDisk, InDisp, InRun, InStop
<1>21. CASE EndTurn \/ PromptFails
  <2>1. Step("run", "ends") /\ UNCHANGED <<bld, disk, disp, rbSeen>>
    BY <1>21 DEF EndTurn, PromptFails, Finish
  <2> QED
    BY <1>0, <1>14, <2>1
<1>22. CASE ClearHandler
  <2>1. Step("run", "idle") /\ UNCHANGED <<disk, disp, rbSeen>> /\ bld' = [bld EXCEPT !.h = 0]
    BY <1>22 DEF ClearHandler
  <2>2. bld'.calls = bld.calls
    BY <1>0, <2>1 DEF Builder
  <2> QED
    BY <1>0, <1>14, <2>1, <2>2
<1>23. CASE StopAndFlush \/ StopWaited \/ StopDone
  <2>1. PICK pc : Step("stop", pc)
    BY <1>23 DEF StopAndFlush, StopWaited, StopDone
  <2>2. UNCHANGED <<bld, disk, disp>>
    BY <1>23 DEF StopAndFlush, StopWaited, StopDone
  <2>3. rbSeen'.owner = rbSeen.owner
    BY <1>0, <1>23 DEF StopAndFlush, StopWaited, StopDone, Seen
  <2> QED
    BY <1>0, <1>14, <2>1, <2>2, <2>3
<1>24. CASE Prompt \/ Capture
  <2>1. UNCHANGED <<bld, disk, disp, closer>>
    BY <1>24 DEF Prompt, Capture
  <2>2. rbSeen'.owner = rbSeen.owner
    BY <1>0, <1>24 DEF Prompt, Capture, Seen
  <2> QED
    BY <1>3, <2>1, <2>2
<1>25. CASE ClearOnFlush
  <2>1. UNCHANGED <<disk, disp, closer, rbSeen>> /\ bld' = [bld EXCEPT !.flush = 0, !.stitch = 0]
    BY <1>25 DEF ClearOnFlush
  <2>2. bld'.calls = bld.calls
    BY <1>0, <2>1 DEF Builder
  <2> QED
    BY <1>1, <2>1, <2>2 DEF InBld, OnDisk, InDisp, InRun, InStop
<1>26. CASE Crash
  <2>1. bld' = [Fresh(0) EXCEPT !.flush = 0] /\ disp' = Idle /\ closer' = [a \in Closers |-> Idle]
    BY <1>26 DEF Crash
  <2>2. /\ bld'.calls = <<>> /\ disp'.rows = <<>>
        /\ closer'["run"].rows = <<>> /\ closer'["stop"].rows = <<>>
    BY <1>0, <2>1 DEF Fresh, Idle
  <2>3. rbSeen'.owner = rbSeen.owner
    BY <1>0, <1>26 DEF Crash, Seen
  <2>4. \A id : Claims(disk', id) =>
          Claims(disk, id) \/ Claims(disp.rows, id) \/ Claims(closer["run"].rows, id) \/ Claims(closer["stop"].rows, id)
    <3>1. CASE UNCHANGED disk
      BY <3>1
    <3>2. ASSUME NEW rows \in {disp.rows, closer["run"].rows, closer["stop"].rows}, NEW k \in 1 .. Len(rows) - 1,
                 disk' = disk \o SubSeq(rows, 1, k)
          PROVE  \A id : Claims(disk', id) => Claims(disk, id) \/ Claims(rows, id)
      <4> DEFINE s == SubSeq(rows, 1, k)
      <4>1. rows \in Seq(Row) /\ Whole(rows)
        BY <1>03
      <4>2. k \in 0 .. Len(rows)
        BY <3>2, <4>1
      <4>3. s \in Seq(Row) /\ \A id : Claims(s, id) => Claims(rows, id)
        BY <4>1, <4>2, PrefixPiece DEF Whole
      <4> HIDE DEF s
      <4>4. \A id : Claims(disk \o s, id) <=> Claims(disk, id) \/ Claims(s, id)
        BY <1>0, <4>3, JoinKeeps
      <4> QED
        BY <3>2, <4>3, <4>4 DEF s
    <3> QED
      BY <1>26, <3>1, <3>2 DEF Crash
  <2>5. ASSUME NEW x \in Tools PROVE Held(x)'
    <3>1. /\ ~InBld(x)' /\ ~InDisp(x)' /\ ~InRun(x)' /\ ~InStop(x)'
          /\ OnDisk(x)' => OnDisk(x) \/ InDisp(x) \/ InRun(x) \/ InStop(x)
      BY <1>02, <2>2, <2>4, NothingWhole DEF InBld, OnDisk, InDisp, InRun, InStop
    <3> QED
      BY <2>3, <3>1 DEF HolderInv, Held
  <2> QED
    BY <2>5 DEF HolderInv
<1> QED
  BY <1>4, <1>5, <1>6, <1>7, <1>8, <1>9, <1>10, <1>11, <1>13, <1>15, <1>16, <1>17, <1>18, <1>19, <1>20, <1>21, <1>22,
     <1>23, <1>24, <1>25, <1>26
     DEF Next, Updates, RunStep, CloseRound

(***************************************************************************)
(* What a Run has been given, and where it is.                             *)
(***************************************************************************)
\* A Run is given nothing before it prompts.
NewInv ==
  \A m \in RunIds : m > run.n \/ (m = run.n /\ run.pc \in {"begun", "wired"}) => rbSeen.got[m] = {}

\* No cut will take away what a Run that succeeded was given.
SafeInv == \A n \in rbSeen.ok \ rbSeen.behind : \A id \in rbSeen.got[n] : Safe(disk, id)

\* What is closed after a success has no call in it.
LastInv == run.res = "ok" => \A a \in Closers : Len(closer[a].rows) <= 1

\* A Run that may still succeed, with a history that no cut can reach.
Clean ==
  /\ run.pc \in {"prompt", "closing"} \/ (run.pc = "capture" /\ run.res = "ok")
  /\ run.n \notin rbSeen.errs /\ run.n \notin rbSeen.behind

\* The result is on its way to the disk.
Handed(id) ==
  \/ id \in bld.results
  \/ Has(disp.rows, id, TRUE) \/ Has(closer["run"].rows, id, TRUE) \/ Has(closer["stop"].rows, id, TRUE)
  \/ disp.pc = "stitch" /\ disp.id = id

\* Nothing that a clean Run was given is lost, and the placeholders are where the late results go.
GotInv == Clean => ~rbSeen.torn /\ \A id \in rbSeen.got[run.n] : Has(disk, id, TRUE) \/ Handed(id)
LateInv == Clean =>
  /\ \A id \in bld.late : Has(disk, id, FALSE) \/ Has(disp.rows, id, FALSE)
  /\ disp.pc = "stitch" => Has(disk, disp.id, FALSE)

ResultInv == NewInv /\ SafeInv /\ LastInv /\ GotInv /\ LateInv

LEMMA ResultInit == ASSUME Init PROVE ResultInv
<1>1. run.pc = "idle" /\ run.res = "" /\ rbSeen.ok = {} /\ rbSeen.got = [n \in RunIds |-> {}]
  BY DEF Init
<1> QED
  BY <1>1 DEF ResultInv, NewInv, SafeInv, LastInv, GotInv, LateInv, Clean

\* Who is given a result is the Run that prompts.
LEMMA GotGrows ==
  ASSUME TypeInv, RunInv, Next
  PROVE  \/ rbSeen'.got = rbSeen.got
         \/ /\ Accepts /\ bld.h = run.n /\ run.n \in RunIds /\ UNCHANGED run /\ rbSeen'.ok = rbSeen.ok
            /\ \E id \in Tools : rbSeen'.got = [rbSeen.got EXCEPT ![run.n] = @ \cup {id}]
<1>0. rbSeen \in Seen /\ bld \in Builder /\ bld.h \in Ids
  BY DEF TypeInv, Builder
<1>1. ASSUME NEW id \in Tools, Accepts, rbSeen' = [Counted EXCEPT !.sent = @ \cup {id}, !.got[bld.h] = @ \cup {id}],
             UNCHANGED run
      PROVE  /\ bld.h = run.n /\ run.n \in RunIds /\ rbSeen'.ok = rbSeen.ok
             /\ rbSeen'.got = [rbSeen.got EXCEPT ![run.n] = @ \cup {id}]
  <2>1. bld.h = run.n /\ bld.h # 0
    BY <1>1 DEF Accepts, RunInv
  <2>2. run.n \in RunIds
    BY <1>0, <2>1 DEF Ids, RunIds
  <2> DEFINE x == rbSeen.sent \cup {id}
  <2> DEFINE g == [rbSeen.got EXCEPT ![bld.h] = @ \cup {id}]
  <2>3. rbSeen' = [Counted EXCEPT !.sent = x, !.got = g]
    BY <1>0, <1>1 DEF Counted, Seen
  <2> HIDE DEF x, g
  <2>4. rbSeen'.got = g /\ rbSeen'.ok = rbSeen.ok
    BY <1>0, <2>3 DEF Counted, Seen
  <2> QED
    BY <2>1, <2>2, <2>4 DEF g
<1>2. ASSUME NEW id \in Tools, OnToolResult(id) \/ OnLateTerminal(id)
      PROVE  /\ Accepts /\ bld.h = run.n /\ run.n \in RunIds /\ UNCHANGED run /\ rbSeen'.ok = rbSeen.ok
             /\ \E jd \in Tools : rbSeen'.got = [rbSeen.got EXCEPT ![run.n] = @ \cup {jd}]
  BY <1>1, <1>2 DEF OnToolResult, OnLateTerminal, Leave
<1>3. ASSUME NEW rows, NEW n, Write(rows, n) PROVE rbSeen'.got = rbSeen.got
  BY <1>0, <1>3 DEF Write, Seen
<1>4. CASE OnMessageChunk \/ \E id \in Tools : OnToolCall(id) \/ DropTerminal(id)
  BY <1>0, <1>4 DEF OnMessageChunk, OnToolCall, DropTerminal, Counted, Seen
<1>5. CASE DispatchPersist \/ \E a \in Closers : ClosePersist(a)
  BY <1>3, <1>5 DEF DispatchPersist, ClosePersist
<1>6. CASE DispatchStitch
  BY <1>0, <1>6 DEF DispatchStitch, Seen
<1>7. CASE BeginRun
  BY <1>0, <1>7 DEF BeginRun, Seen
<1>8. CASE Prompt \/ Capture
  BY <1>0, <1>8 DEF Prompt, Capture, Seen
<1>9. CASE StopAndFlush \/ Crash
  BY <1>0, <1>9 DEF StopAndFlush, Crash, Seen
<1>10. CASE UNCHANGED rbSeen
  BY <1>10
<1> QED
  BY <1>2, <1>4, <1>5, <1>6, <1>7, <1>8, <1>9, <1>10
     DEF Next, Updates, RunStep, CloseRound, DispatchEmit, EndsTaken, EndsTold, Collect, FlushHooked, Reset,
         EndTurn, PromptFails, Finish, ClearHandler, ClearOnFlush, StopWaited, StopDone

\* The Run only goes forward.
LEMMA RunGoesOn ==
  ASSUME MaxRuns \in Nat, TypeInv, Next
  PROVE  /\ run'.n = run.n \/ (run.pc = "idle" /\ run'.n = run.n + 1 /\ run'.pc \in {"begun", "idle"})
         /\ run'.n = run.n /\ run'.pc \in {"begun", "wired"} => run.pc \in {"begun", "wired"}
<1>0. run \in TheRun
  BY DEF TypeInv
<1>1. CASE BeginRun
  <2> DEFINE n == run.n + 1
  <2>1. run.pc = "idle"
    BY <1>1 DEF BeginRun, RunAt
  <2>2. \/ run' = [run EXCEPT !.n = n, !.pc = "begun", !.res = "", !.cancelled = FALSE]
        \/ run' = [run EXCEPT !.n = n, !.res = "error", !.cancelled = FALSE]
    BY <1>1 DEF BeginRun
  <2>3. run'.n = n /\ run'.pc \in {"begun", "idle"}
    <3> HIDE DEF n
    <3> QED
      BY <1>0, <2>1, <2>2 DEF TheRun
  <2>4. n # run.n
    <3>1. run.n \in Ids
      BY <1>0 DEF TheRun
    <3> QED
      BY <3>1 DEF Ids
  <2> QED
    BY <2>1, <2>3, <2>4
<1>2. CASE Reset \/ Prompt \/ EndTurn \/ PromptFails \/ ClearHandler \/ Capture \/ ClearOnFlush
  BY <1>0, <1>2 DEF Reset, Prompt, EndTurn, PromptFails, Finish, ClearHandler, Capture, ClearOnFlush, To, RunAt, TheRun
<1>3. CASE StopAndFlush \/ Crash
  BY <1>0, <1>3 DEF StopAndFlush, Crash, TheRun
<1>4. CASE UNCHANGED run
  BY <1>4
<1> QED
  BY <1>1, <1>2, <1>3, <1>4
     DEF Next, Updates, RunStep, CloseRound, OnMessageChunk, OnToolCall, OnToolResult, OnLateTerminal, Leave,
         DropTerminal, DispatchPersist, DispatchStitch, DispatchEmit, EndsTaken, EndsTold, Collect, ClosePersist,
         FlushHooked, StopWaited, StopDone

\* A Run that has not prompted after a step had not prompted before it.
LEMMA AheadBefore ==
  ASSUME MaxRuns \in Nat, TypeInv, Next, NEW m \in RunIds, m > run'.n \/ (m = run'.n /\ run'.pc \in {"begun", "wired"})
  PROVE  m > run.n \/ (m = run.n /\ run.pc \in {"begun", "wired"})
<1>0. run.n \in Nat
  <2>1. run.n \in Ids
    BY DEF TypeInv, TheRun
  <2> QED
    BY <2>1 DEF Ids
<1>1. CASE run'.n = run.n
  BY <1>1, RunGoesOn
<1>2. CASE run'.n = run.n + 1
  <2>1. m \in Nat /\ m >= run'.n
    BY <1>0, <1>2 DEF RunIds
  <2> QED
    BY <1>0, <1>2, <2>1
<1> QED
  BY <1>1, <1>2, RunGoesOn

LEMMA NewNext == ASSUME MaxRuns \in Nat, TypeInv, RunInv, NewInv, Next PROVE NewInv'
<1>0. rbSeen.got \in [RunIds -> SUBSET Tools] /\ run.n \in Nat
  <2>1. run.n \in Ids /\ rbSeen \in Seen
    BY DEF TypeInv, TheRun
  <2> QED
    BY <2>1 DEF Ids, Seen
<1>1. ASSUME NEW m \in RunIds, m > run'.n \/ (m = run'.n /\ run'.pc \in {"begun", "wired"})
      PROVE  rbSeen'.got[m] = {}
  <2>1. m > run.n \/ (m = run.n /\ run.pc \in {"begun", "wired"})
    BY <1>1, AheadBefore
  <2>2. rbSeen.got[m] = {}
    BY <2>1 DEF NewInv
  <2>3. ASSUME Accepts PROVE m # run.n
    <3>1. run.pc \in {"prompt", "closing"}
      BY <2>3 DEF Accepts
    <3>2. CASE m = run.n
      BY <2>1, <3>1, <3>2, <1>0
    <3> QED
      BY <3>2
  <2> QED
    BY <1>0, <2>2, <2>3, GotGrows
<1> QED
  BY <1>1 DEF NewInv

\* No step takes a result away that no cut can reach.
LEMMA SafeGrows ==
  ASSUME MaxRuns \in Nat, TypeInv, WhoInv, DiskInv, QueueInv, HolderInv, Next, NEW id, Safe(disk, id)
  PROVE  Safe(disk', id)
<1>0. /\ disk \in Seq(Row) /\ run \in TheRun /\ disp \in Dispatcher /\ rbSeen \in Seen
      /\ closer \in [Closers -> Closer] /\ "run" \in Closers /\ "stop" \in Closers
      /\ closer["run"] \in Closer /\ closer["stop"] \in Closer
  BY DEF TypeInv, Closers
<1>1. disp.fn \in Ids /\ closer["run"].fn \in Ids /\ closer["stop"].fn \in Ids
  BY <1>0 DEF Dispatcher, Closer
<1>2. ASSUME NEW s \in {disp.rows, closer["run"].rows, closer["stop"].rows}, NEW n \in Ids, Write(s, n)
      PROVE  Safe(disk', id)
  BY <1>2, Apart, RowsWritten
<1>3. CASE DispatchPersist
  BY <1>1, <1>2, <1>3 DEF DispatchPersist
<1>4. ASSUME NEW a \in Closers, ClosePersist(a) PROVE Safe(disk', id)
  BY <1>1, <1>2, <1>4 DEF ClosePersist, Closers
<1>5. CASE DispatchStitch
  <2>1. disk' \in {Stitch(disk, disp.id), disk} /\ disp.id \in Tools
    BY <1>5 DEF DispatchStitch, TypeInv
  <2> QED
    BY <1>0, <2>1, StitchKeeps
<1>6. CASE BeginRun
  <2> DEFINE n == run.n + 1
  <2> DEFINE kept == WithoutOrphans(disk)
  <2>1. /\ kept \in Seq(Row) /\ Ordered(kept) /\ AllPaired(kept) /\ Prompted(kept, rbSeen.prompts) /\ Safe(kept, id)
    BY <1>0, CutKeeps DEF DiskInv
  <2> HIDE DEF kept
  <2>2. disk' \in {Append(kept, User(n)), kept, disk}
    BY <1>6 DEF BeginRun, kept
  <2>3. n \in RunIds /\ \A m \in rbSeen.prompts : m < n
    <3>1. run.n \in Ids /\ run.n < MaxRuns
      BY <1>0, <1>6 DEF BeginRun, TheRun
    <3>2. rbSeen.prompts \subseteq 1 .. run.n
      BY DEF WhoInv
    <3> QED
      BY <3>1, <3>2 DEF Ids, RunIds
  <2>4. rbSeen.prompts \in SUBSET Nat
    BY <1>0 DEF Seen, RunIds
  <2> HIDE DEF n
  <2>5. Safe(Append(kept, User(n)), id)
    BY <2>1, <2>3, <2>4, PromptJoins
  <2> QED
    BY <2>1, <2>2, <2>5
<1>7. CASE Crash
  <2>1. CASE UNCHANGED disk
    BY <2>1
  <2>2. ASSUME NEW rows \in {disp.rows, closer["run"].rows, closer["stop"].rows}, NEW k \in 1 .. Len(rows) - 1,
               disk' = disk \o SubSeq(rows, 1, k)
        PROVE  Safe(disk', id)
    <3> DEFINE s == SubSeq(rows, 1, k)
    <3>1. rows \in Seq(Row)
      BY Apart
    <3>2. s \in Seq(Row)
      BY <3>1
    <3> HIDE DEF s
    <3>3. Safe(disk \o s, id)
      BY <1>0, <3>2, JoinKeeps
    <3> QED
      BY <2>2, <3>3 DEF s
  <2> QED
    BY <1>7, <2>1, <2>2 DEF Crash
<1>8. CASE UNCHANGED disk
  BY <1>8
<1> QED
  BY <1>3, <1>4, <1>5, <1>6, <1>7, <1>8
     DEF Next, Updates, RunStep, CloseRound, OnMessageChunk, OnToolCall, OnToolResult, OnLateTerminal, Leave,
         DropTerminal, DispatchEmit, EndsTaken, EndsTold, Collect, FlushHooked, Reset, Prompt, Capture,
         EndTurn, PromptFails, Finish, ClearHandler, ClearOnFlush, StopAndFlush, StopWaited, StopDone

\* Who is behind a torn append, and who has succeeded.
LEMMA OkGrows ==
  ASSUME TypeInv, Next
  PROVE  /\ rbSeen.behind \subseteq rbSeen'.behind
         /\ \/ rbSeen'.ok = rbSeen.ok
            \/ /\ Capture /\ rbSeen'.ok = rbSeen.ok \cup {run.n} /\ UNCHANGED <<disk, bld, live, disp, closer>>
               /\ run.pc = "capture" /\ run.res = "ok" /\ run.n \notin rbSeen.errs
               /\ rbSeen'.got = rbSeen.got /\ rbSeen'.behind = rbSeen.behind
<1>0. rbSeen \in Seen
  BY DEF TypeInv
<1>1. CASE OnMessageChunk \/ \E id \in Tools : OnToolCall(id) \/ DropTerminal(id) \/ OnToolResult(id) \/ OnLateTerminal(id)
  BY <1>0, <1>1 DEF OnMessageChunk, OnToolCall, DropTerminal, OnToolResult, OnLateTerminal, Counted, Seen
<1>2. ASSUME NEW rows, NEW n, Write(rows, n) PROVE rbSeen'.behind = rbSeen.behind /\ rbSeen'.ok = rbSeen.ok
  BY <1>0, <1>2 DEF Write, Seen
<1>3. CASE DispatchPersist \/ \E a \in Closers : ClosePersist(a)
  BY <1>2, <1>3 DEF DispatchPersist, ClosePersist
<1>4. CASE DispatchStitch
  BY <1>0, <1>4 DEF DispatchStitch, Seen
<1>5. CASE BeginRun
  BY <1>0, <1>5 DEF BeginRun, Seen
<1>6. CASE Prompt
  BY <1>0, <1>6 DEF Prompt, Seen
<1>7. CASE StopAndFlush \/ Crash
  BY <1>0, <1>7 DEF StopAndFlush, Crash, Seen
<1>8. CASE Capture
  <2> DEFINE x == rbSeen.ok \cup (IF run.res = "ok" /\ run.n \notin rbSeen.errs THEN {run.n} ELSE {})
  <2>1. rbSeen' = [rbSeen EXCEPT !.ok = x] /\ UNCHANGED <<disk, bld, live, disp, closer>> /\ run.pc = "capture"
    BY <1>8 DEF Capture, RunAt
  <2>2. x = rbSeen.ok \/ (x = rbSeen.ok \cup {run.n} /\ run.res = "ok" /\ run.n \notin rbSeen.errs)
    OBVIOUS
  <2> HIDE DEF x
  <2>3. rbSeen'.ok = x /\ rbSeen'.got = rbSeen.got /\ rbSeen'.behind = rbSeen.behind
    BY <1>0, <2>1 DEF Seen
  <2> QED
    BY <1>8, <2>1, <2>2, <2>3
<1>9. CASE UNCHANGED rbSeen
  BY <1>9
<1> QED
  BY <1>1, <1>3, <1>4, <1>5, <1>6, <1>7, <1>8, <1>9
     DEF Next, Updates, RunStep, CloseRound, DispatchEmit, EndsTaken, EndsTold, Collect, FlushHooked, Reset,
         EndTurn, PromptFails, Finish, ClearHandler, ClearOnFlush, StopWaited, StopDone

\* A round that holds no call holds no result.
LEMMA ShortHasNone ==
  ASSUME NEW s \in Seq(Row), Whole(s), Len(s) <= 1, NEW id, NEW real
  PROVE  ~Has(s, id, real)
<1>1. ASSUME NEW i \in DOMAIN s PROVE ~IsTool(s[i])
  BY <1>1, PieceRows DEF Whole
<1> QED
  BY <1>1, ResultsDiffer DEF Has

\* In a history whose rounds are all answered every result is safe.
LEMMA PairedIsSafe ==
  ASSUME NEW rows, AllPaired(rows), NEW id, Has(rows, id, TRUE)
  PROVE  Safe(rows, id)
BY DEF AllPaired, Has, Safe

LEMMA SafeNext ==
  ASSUME MaxRuns \in Nat, TypeInv, RunInv, TurnInv, WhoInv, DiskInv, QueueInv, HolderInv, BldInv,
         SafeInv, LastInv, GotInv, Next
  PROVE  SafeInv'
<1>0. rbSeen.got \in [RunIds -> SUBSET Tools]
  BY DEF TypeInv, Seen
<1>1. \A id : Safe(disk, id) => Safe(disk', id)
  BY SafeGrows
<1>2. ASSUME NEW n \in rbSeen'.ok \ rbSeen'.behind, n \in rbSeen.ok, NEW id \in rbSeen'.got[n] PROVE Safe(disk', id)
  <2>1. n \notin rbSeen.behind
    BY OkGrows
  <2>2. id \in rbSeen.got[n]
    <3>1. CASE rbSeen'.got = rbSeen.got
      BY <3>1
    <3>2. CASE bld.h = run.n
      <4>1. n # run.n
        BY <1>2, <3>2 DEF WhoInv
      <4>2. n \in RunIds
        <5>1. n \in 1 .. run.n
          BY <1>2 DEF WhoInv
        <5>2. run.n \in Ids
          BY DEF TypeInv, TheRun
        <5> QED
          BY <5>1, <5>2 DEF Ids, RunIds
      <4> QED
        BY <1>0, <1>2, <4>1, <4>2, GotGrows
    <3> QED
      BY <3>1, <3>2, GotGrows
  <2> QED
    BY <1>1, <1>2, <2>1, <2>2 DEF SafeInv
<1>3. ASSUME NEW n \in rbSeen'.ok \ rbSeen'.behind, n \notin rbSeen.ok, NEW id \in rbSeen'.got[n] PROVE Safe(disk', id)
  <2>1. /\ n = run.n /\ UNCHANGED <<disk, bld, live, disp, closer>>
        /\ run.pc = "capture" /\ run.res = "ok" /\ run.n \notin rbSeen.errs
        /\ rbSeen'.got = rbSeen.got /\ rbSeen'.behind = rbSeen.behind
    BY <1>3, OkGrows
  <2>2. Clean
    BY <2>1 DEF Clean
  <2>3. ~rbSeen.torn /\ (Has(disk, id, TRUE) \/ Handed(id))
    BY <1>3, <2>1, <2>2 DEF GotInv
  <2>4. AllPaired(disk)
    BY <2>3 DEF DiskInv
  <2>5. ~Handed(id)
    <3>1. bld.calls = <<>> /\ disp.pc = "idle"
      BY <2>1 DEF TurnInv
    <3>2. id \notin bld.results
      BY <3>1 DEF BldInv, ToSet
    <3>3. ~Has(disp.rows, id, TRUE)
      <4>1. disp.rows = <<>>
        BY <3>1 DEF QueueInv
      <4> QED
        BY <4>1, NothingWhole
    <3>4. ASSUME NEW a \in Closers PROVE ~Has(closer[a].rows, id, TRUE)
      <4>1. Len(closer[a].rows) <= 1
        BY <2>1 DEF LastInv
      <4>2. closer[a].rows \in Seq(Row) /\ Whole(closer[a].rows)
        BY DEF TypeInv, Closer, QueueInv
      <4> QED
        BY <4>1, <4>2, ShortHasNone
    <3> QED
      BY <3>1, <3>2, <3>3, <3>4 DEF Handed, Closers
  <2>6. Safe(disk, id)
    BY <2>3, <2>4, <2>5, PairedIsSafe
  <2> QED
    BY <1>1, <2>6
<1> QED
  BY <1>2, <1>3 DEF SafeInv

LEMMA LastNext ==
  ASSUME MaxRuns \in Nat, TypeInv, BldInv, RunInv, TurnInv, DrainInv, QueueInv, LastInv, Next
  PROVE  LastInv'
<1>0. /\ run \in TheRun /\ closer \in [Closers -> Closer] /\ "run" \in Closers /\ "stop" \in Closers
  BY DEF TypeInv, Closers
<1>1. ASSUME run'.res = "ok" => run.res = "ok",
             \A a \in Closers : closer'[a].rows \in {closer[a].rows, <<>>}
      PROVE  LastInv'
  <2>1. Len(<<>>) <= 1
    OBVIOUS
  <2> QED
    BY <1>1, <2>1 DEF LastInv
<1>2. ASSUME NEW a \in Closers, NEW pc, Step(a, pc), run'.res = "ok" => run.res = "ok" PROVE LastInv'
  BY <1>1, <1>2, StepCloser
<1>3. ASSUME NEW a \in Closers, EndsTaken(a) PROVE LastInv'
  <2>1. closer'[a].rows = closer[a].rows /\ \A o \in Closers : o # a => closer'[o] = closer[o]
    BY <1>0, <1>3 DEF EndsTaken, Closer
  <2> QED
    BY <1>1, <1>3, <2>1 DEF EndsTaken
<1>4. CASE FlushHooked
  <2>1. closer'["stop"].rows = closer["stop"].rows /\ \A o \in Closers : o # "stop" => closer'[o] = closer[o]
    BY <1>0, <1>4 DEF FlushHooked, Closer
  <2> QED
    BY <1>1, <1>4, <2>1 DEF FlushHooked
<1>5. ASSUME NEW a \in Closers, Collect(a) PROVE LastInv'
  <2>1. closer'[a].rows \in {NewRound(bld), <<>>} /\ \A o \in Closers : o # a => closer'[o] = closer[o]
    BY <1>5, Collected
  <2>2. UNCHANGED run
    BY <1>5 DEF Collect
  <2>3. ASSUME run.res = "ok" PROVE Len(NewRound(bld)) <= 1
    <3>1. bld.calls = <<>>
      BY <2>3 DEF TurnInv
    <3>2. NewRound(bld) # <<>> => Len(NewRound(bld)) = 1 + Len(bld.calls)
      BY LastRound
    <3>3. Len(<<>>) = 0
      OBVIOUS
    <3> DEFINE l == Len(NewRound(bld))
    <3>4. l \in {0, 1}
      BY <3>1, <3>2, <3>3
    <3>5. l <= 1
      <4> HIDE DEF l
      <4> QED
        BY <3>4
    <3> QED
      BY <3>5
  <2>4. Len(<<>>) <= 1
    OBVIOUS
  <2> QED
    BY <2>1, <2>2, <2>3, <2>4 DEF LastInv
<1>6. ASSUME NEW a \in Closers, ClosePersist(a) PROVE LastInv'
  <2>1. closer'[a].rows = <<>> /\ \A o \in Closers : o # a => closer'[o] = closer[o]
    BY <1>0, <1>6 DEF ClosePersist, Idle
  <2> QED
    BY <1>1, <1>6, <2>1 DEF ClosePersist
<1>7. CASE EndTurn
  <2>1. Step("run", "ends") /\ run.pc = "prompt" /\ Finish(IF run.cancelled \/ Pending(bld) # {} \/ bld.done \o NewRound(bld) = <<>> THEN "error" ELSE "ok")
    BY <1>7 DEF EndTurn, Finish, RunAt
  <2>2. run'.res = "ok" => ~run.cancelled
    BY <1>0, <2>1 DEF Finish, TheRun
  <2>3. \A a \in Closers : closer'[a].rows = closer[a].rows
    BY <1>0, <2>1, StepCloser
  <2>4. ~run.cancelled => \A a \in Closers : closer[a].rows = <<>>
    BY <2>1 DEF RunInv, QueueInv, StopPc, Closers
  <2>5. Len(<<>>) <= 1
    OBVIOUS
  <2> QED
    BY <2>2, <2>3, <2>4, <2>5 DEF LastInv
<1>8. CASE PromptFails
  BY <1>0, <1>2, <1>8 DEF PromptFails, Finish, TheRun
<1>9. CASE ClearHandler
  BY <1>0, <1>2, <1>9 DEF ClearHandler, To, TheRun
<1>10. CASE StopAndFlush
  BY <1>0, <1>2, <1>10 DEF StopAndFlush, TheRun
<1>11. CASE StopWaited \/ StopDone
  BY <1>0, <1>2, <1>11 DEF StopWaited, StopDone
<1>12. ASSUME NEW a \in Closers, EndsTold(a) PROVE LastInv'
  BY <1>0, <1>2, <1>12 DEF EndsTold
<1>13. CASE Crash
  <2>1. run'.res # "ok"
    BY <1>0, <1>13 DEF Crash, TheRun
  <2> QED
    BY <2>1 DEF LastInv
<1>14. CASE BeginRun
  <2> DEFINE n == run.n + 1
  <2>1. \/ run' = [run EXCEPT !.n = n, !.pc = "begun", !.res = "", !.cancelled = FALSE]
        \/ run' = [run EXCEPT !.n = n, !.res = "error", !.cancelled = FALSE]
    BY <1>14 DEF BeginRun
  <2> HIDE DEF n
  <2>2. run'.res # "ok"
    BY <1>0, <2>1 DEF TheRun
  <2> QED
    BY <2>2 DEF LastInv
<1>15. CASE Reset \/ Prompt \/ Capture \/ ClearOnFlush
  BY <1>0, <1>1, <1>15 DEF Reset, Prompt, Capture, ClearOnFlush, To, TheRun
<1>16. CASE UNCHANGED <<run, closer>>
  BY <1>1, <1>16
<1> QED
  BY <1>3, <1>4, <1>5, <1>6, <1>7, <1>8, <1>9, <1>10, <1>11, <1>12, <1>13, <1>14, <1>15, <1>16
     DEF Next, Updates, RunStep, CloseRound, OnMessageChunk, OnToolCall, OnToolResult, OnLateTerminal, Leave,
         DropTerminal, DispatchPersist, DispatchStitch, DispatchEmit

LEMMA KeptNext ==
  ASSUME MaxRuns \in Nat, TypeInv, BldInv, RunInv, TurnInv, WhoInv, DrainInv, DiskInv, QueueInv,
         HolderInv, NewInv, GotInv, LateInv, Next
  PROVE  GotInv' /\ LateInv'
<1>0. /\ bld \in Builder /\ disk \in Seq(Row) /\ run \in TheRun /\ disp \in Dispatcher /\ rbSeen \in Seen
      /\ closer \in [Closers -> Closer] /\ "run" \in Closers /\ "stop" \in Closers
      /\ rbSeen.got \in [RunIds -> SUBSET Tools] /\ run.n \in Ids
      /\ disp.fn \in Ids /\ closer["run"].fn \in Ids /\ closer["stop"].fn \in Ids
  BY DEF TypeInv, Closers, Seen, TheRun, Dispatcher, Closer
\* A Run that is clean has been so since its prompt.
<1>01. ASSUME Clean PROVE bld.flush # 0 /\ run.n \in RunIds
  <2>1. run.pc \in {"prompt", "closing", "capture"}
    BY <1>01 DEF Clean
  <2>2. run.n # 0 /\ bld.flush = run.n
    BY <2>1 DEF RunInv
  <2> QED
    BY <1>0, <2>2 DEF Ids, RunIds
<1>02. ASSUME rbSeen'.errs = rbSeen.errs, rbSeen'.behind = rbSeen.behind, run'.n = run.n,
              run'.pc = run.pc \/ run.pc \in {"prompt", "closing"}, run'.res = run.res \/ run.pc \in {"prompt", "closing"},
              Clean'
       PROVE  Clean
  BY <1>02 DEF Clean
<1>03. ASSUME disp.pc = "idle" PROVE disp.rows = <<>> /\ \A id, real : ~Has(disp.rows, id, real)
  <2>1. disp.rows = <<>>
    BY <1>03 DEF QueueInv
  <2> QED
    BY <2>1, NothingWhole
\* The handling of an update: what leaves the builder is in the rows of the dispatcher.
<1>1. ASSUME NEW b, NEW rows, NEW ev, Leave(b, rows, ev), Accepts,
             rbSeen'.errs = rbSeen.errs, rbSeen'.behind = rbSeen.behind, rbSeen'.torn = rbSeen.torn,
             \A id \in rbSeen'.got[run.n] : id \in rbSeen.got[run.n] \/ id \in b.results \/ Has(rows, id, TRUE),
             \A id \in bld.results : id \in b.results \/ Has(rows, id, TRUE),
             \A id \in b.late : id \in bld.late \/ Has(rows, id, FALSE)
      PROVE  GotInv' /\ LateInv'
  <2>1. SUFFICES ASSUME Clean'
                 PROVE  /\ ~rbSeen'.torn
                        /\ \A id \in rbSeen'.got[run'.n] : Has(disk', id, TRUE) \/ Handed(id)'
                        /\ \A id \in bld'.late : Has(disk', id, FALSE) \/ Has(disp'.rows, id, FALSE)
                        /\ disp'.pc = "stitch" => Has(disk', disp'.id, FALSE)
    BY DEF GotInv, LateInv
  <2>2. disp.pc = "idle" /\ UNCHANGED <<disk, run, closer>> /\ bld' = b
    BY <1>1 DEF Accepts, Leave
  <2>3. disp'.rows = rows /\ disp'.pc # "stitch"
    <3>1. disp'.pc = (IF rows # <<>> /\ bld.flush # 0 THEN "persist" ELSE "emit") /\ disp'.rows = rows
      BY <1>1, LeaveFields
    <3> QED
      BY <3>1
  <2>4. Clean
    BY <1>1, <1>02, <2>1, <2>2
  <2>5. ~rbSeen.torn /\ \A id \in rbSeen.got[run.n] : Has(disk, id, TRUE) \/ Handed(id)
    BY <2>4 DEF GotInv
  <2>6. \A id \in bld.late : Has(disk, id, FALSE)
    BY <1>03, <2>2, <2>4 DEF LateInv
  <2>7. \A id : Handed(id) => id \in bld.results \/ Has(closer["run"].rows, id, TRUE) \/ Has(closer["stop"].rows, id, TRUE)
    BY <1>03, <2>2 DEF Handed
  <2>8. ASSUME NEW id \in rbSeen'.got[run.n] PROVE Has(disk, id, TRUE) \/ Handed(id)'
    <3>1. id \in bld'.results \/ Has(disp'.rows, id, TRUE) => Handed(id)'
      BY DEF Handed
    <3>2. Has(closer["run"].rows, id, TRUE) \/ Has(closer["stop"].rows, id, TRUE) => Handed(id)'
      BY <2>2 DEF Handed
    <3> QED
      BY <1>1, <2>2, <2>3, <2>5, <2>7, <3>1, <3>2
  <2> QED
    BY <1>1, <2>2, <2>3, <2>5, <2>6, <2>8
<1>2. CASE OnMessageChunk
  <2> DEFINE rows == IF bld.calls # <<>> THEN Round(bld) ELSE <<>>
  <2> DEFINE late == bld.late \cup Pending(bld)
  <2> DEFINE base == IF bld.calls # <<>> THEN [Flushed(bld) EXCEPT !.late = @ \cup Pending(bld)] ELSE bld
  <2> DEFINE b == [base EXCEPT !.text = TRUE, !.open = TRUE]
  <2>1. PICK ev : Accepts /\ Leave(b, rows, ev)
    BY <1>2 DEF OnMessageChunk
  <2>2. rbSeen'.errs = rbSeen.errs /\ rbSeen'.behind = rbSeen.behind /\ rbSeen'.torn = rbSeen.torn /\ rbSeen'.got = rbSeen.got
    BY <1>0, <1>2 DEF OnMessageChunk, Counted, Seen
  <2>3. CASE bld.calls = <<>>
    <3>1. b.results = bld.results /\ b.late = bld.late
      BY <1>0, <2>3 DEF Builder
    <3> HIDE DEF b, rows
    <3> QED
      BY <1>1, <2>1, <2>2, <3>1
  <2>4. CASE bld.calls # <<>>
    <3>1. rows = Round(bld)
      BY <2>4
    <3>2. b.late = bld.late \cup Pending(bld)
      <4>1. Flushed(bld) \in Builder /\ Flushed(bld).late = bld.late
        BY <1>0, FlushTypes DEF Flushed, Builder
      <4>2. Pending(bld) \in SUBSET Tools
        BY <1>0 DEF Pending, ToSet, Builder
      <4> QED
        BY <2>4, <4>1, <4>2 DEF Builder
    <3>3. \A id \in ToSet(bld.calls) : Has(Round(bld), id, id \in bld.results)
      BY <1>0, RoundIsWhole DEF BldInv
    <3>4. \A id \in bld.results : Has(Round(bld), id, TRUE)
      <4> TAKE id \in bld.results
      <4>1. id \in ToSet(bld.calls) /\ (id \in bld.results) = TRUE
        BY DEF BldInv
      <4> QED
        BY <3>3, <4>1
    <3>5. \A id \in Pending(bld) : Has(Round(bld), id, FALSE)
      <4> TAKE id \in Pending(bld)
      <4>1. id \in ToSet(bld.calls) /\ (id \in bld.results) = FALSE
        BY DEF Pending
      <4> QED
        BY <3>3, <4>1
    <3> HIDE DEF b, rows
    <3> QED
      BY <1>1, <2>1, <2>2, <3>1, <3>2, <3>4, <3>5
  <2> QED
    BY <2>3, <2>4
<1>3. ASSUME NEW id \in Tools, OnToolCall(id) PROVE GotInv' /\ LateInv'
  <2> DEFINE b == [bld EXCEPT !.calls = Append(@, id), !.open = FALSE]
  <2> DEFINE rows == <<>>
  <2>1. PICK ev : Accepts /\ Leave(b, rows, ev)
    BY <1>3 DEF OnToolCall
  <2>2. rbSeen'.errs = rbSeen.errs /\ rbSeen'.behind = rbSeen.behind /\ rbSeen'.torn = rbSeen.torn /\ rbSeen'.got = rbSeen.got
    BY <1>0, <1>3 DEF OnToolCall, Counted, Seen
  <2>3. b.results = bld.results /\ b.late = bld.late
    BY <1>0 DEF Builder
  <2> HIDE DEF b, rows
  <2> QED
    BY <1>1, <2>1, <2>2, <2>3<1>4. ASSUME NEW id \in Tools, OnToolResult(id) PROVE GotInv' /\ LateInv'
  <2> DEFINE results == bld.results \cup {id}
  <2> DEFINE b == [bld EXCEPT !.results = @ \cup {id}]
  <2> DEFINE rows == IF Pending(b) = {} THEN Round(b) ELSE <<>>
  <2> DEFINE b2 == IF Pending(b) = {} THEN Flushed(b) ELSE b
  <2>1. b \in Builder /\ b.calls = bld.calls /\ b.late = bld.late /\ b.results = results
    BY <1>0 DEF Builder
  <2>2. PICK ev : Accepts /\ Leave(b2, rows, ev) /\ id \in Pending(bld)
    BY <1>4 DEF OnToolResult
  <2>3. rbSeen'.errs = rbSeen.errs /\ rbSeen'.behind = rbSeen.behind /\ rbSeen'.torn = rbSeen.torn
    BY <1>0, <1>4 DEF OnToolResult, Counted, Seen
  <2>4. bld.h = run.n /\ run.n \in RunIds
    <3>1. bld.h = run.n /\ run.n # 0
      BY <2>2 DEF Accepts, RunInv
    <3> QED
      BY <1>0, <3>1 DEF Ids, RunIds
  <2>5. rbSeen'.got[run.n] = rbSeen.got[run.n] \cup {id}
    <3> DEFINE sent == rbSeen.sent \cup {id}
    <3> DEFINE g == [rbSeen.got EXCEPT ![run.n] = @ \cup {id}]
    <3>1. rbSeen' = [Counted EXCEPT !.sent = sent, !.got = g]
      BY <1>0, <1>4, <2>4 DEF OnToolResult, Counted, Seen
    <3> HIDE DEF sent, g
    <3>2. rbSeen'.got = g
      BY <1>0, <3>1 DEF Counted, Seen
    <3> QED
      BY <1>0, <2>4, <3>2 DEF g
  <2> HIDE DEF b
  <2>6. CASE Pending(b) # {}
    <3>1. b2.results = results /\ b2.late = bld.late
      BY <2>1, <2>6
    <3> HIDE DEF b2, rows
    <3> QED
      BY <1>1, <2>2, <2>3, <2>5, <3>1
  <2>7. CASE Pending(b) = {}
    <3>1. b2.late = bld.late
      BY <2>1, <2>7 DEF Flushed, Builder
    <3>2. \A jd \in results : Has(rows, jd, TRUE)
      <4> TAKE jd \in results
      <4>1. jd \in ToSet(b.calls) /\ (jd \in b.results) = TRUE
        BY <2>1, <2>2 DEF BldInv, Pending
      <4>2. Has(Round(b), jd, jd \in b.results)
        BY <2>1, <4>1, RoundIsWhole DEF BldInv
      <4> QED
        BY <2>7, <4>1, <4>2
    <3> HIDE DEF b2, rows
    <3> QED
      BY <1>1, <2>2, <2>3, <2>5, <3>1, <3>2
  <2> QED
    BY <2>6, <2>7
<1>5. ASSUME NEW id \in Tools, OnLateTerminal(id) PROVE GotInv' /\ LateInv'
  <2>1. /\ bld' = [bld EXCEPT !.late = @ \ {id}, !.done = Stitch(@, id)] /\ UNCHANGED <<disk, run, closer>>
        /\ disp' = [Idle EXCEPT !.pc = IF bld.stitch # 0 THEN "stitch" ELSE "emit",
                            !.h = bld.h, !.fn = bld.stitch, !.id = id,
                            !.ev = Notice({id}, "result", "same")]
        /\ Accepts /\ id \in bld.late
    BY <1>5 DEF OnLateTerminal
  <2>2. bld.h = run.n /\ run.n \in RunIds /\ bld.stitch # 0 /\ disp.pc = "idle"
    <3>1. bld.h = run.n /\ run.n # 0 /\ bld.stitch = run.n /\ disp.pc = "idle"
      BY <2>1 DEF Accepts, RunInv
    <3> QED
      BY <1>0, <3>1 DEF Ids, RunIds
  <2>3. rbSeen'.errs = rbSeen.errs /\ rbSeen'.behind = rbSeen.behind /\ rbSeen'.torn = rbSeen.torn
    BY <1>0, <1>5 DEF OnLateTerminal, Counted, Seen
  <2>4. rbSeen'.got[run.n] = rbSeen.got[run.n] \cup {id}
    <3> DEFINE sent == rbSeen.sent \cup {id}
    <3> DEFINE g == [rbSeen.got EXCEPT ![run.n] = @ \cup {id}]
    <3>1. rbSeen' = [Counted EXCEPT !.sent = sent, !.got = g]
      BY <1>0, <1>5, <2>2 DEF OnLateTerminal, Counted, Seen
    <3> HIDE DEF sent, g
    <3>2. rbSeen'.got = g
      BY <1>0, <3>1 DEF Counted, Seen
    <3> QED
      BY <1>0, <2>2, <3>2 DEF g
  <2>5. disp'.pc = "stitch" /\ disp'.id = id /\ disp'.rows = <<>>
    BY <2>1, <2>2 DEF Idle
  <2>6. bld'.results = bld.results /\ bld'.late = bld.late \ {id}
    BY <1>0, <2>1 DEF Builder
  <2>7. SUFFICES ASSUME Clean'
                 PROVE  /\ ~rbSeen'.torn
                        /\ \A x \in rbSeen'.got[run'.n] : Has(disk', x, TRUE) \/ Handed(x)'
                        /\ \A x \in bld'.late : Has(disk', x, FALSE) \/ Has(disp'.rows, x, FALSE)
                        /\ disp'.pc = "stitch" => Has(disk', disp'.id, FALSE)
    BY DEF GotInv, LateInv
  <2>8. Clean
    BY <1>02, <2>1, <2>3, <2>7
  <2>9. ~rbSeen.torn /\ \A x \in rbSeen.got[run.n] : Has(disk, x, TRUE) \/ Handed(x)
    BY <2>8 DEF GotInv
  <2>10. \A x \in bld.late : Has(disk, x, FALSE)
    BY <1>03, <2>2, <2>8 DEF LateInv
  <2>11. \A x : Handed(x) => Handed(x)'
    BY <1>03, <2>1, <2>2, <2>6 DEF Handed
  <2>12. Handed(id)'
    BY <2>5 DEF Handed
  <2> QED
    BY <2>1, <2>3, <2>4, <2>5, <2>6, <2>9, <2>10, <2>11, <2>12
\* Rows that somebody takes to the disk, and what else may happen to the disk.
<1>6. ASSUME Clean, run'.n = run.n, rbSeen'.got = rbSeen.got, rbSeen'.torn = rbSeen.torn,
             \A id : Has(disk, id, TRUE) => Has(disk', id, TRUE),
             \A id : Handed(id) => Handed(id)' \/ Has(disk', id, TRUE),
             \A id \in bld'.late : id \in bld.late
                /\ (Has(disk, id, FALSE) \/ Has(disp.rows, id, FALSE) => Has(disk', id, FALSE) \/ Has(disp'.rows, id, FALSE)),
             disp'.pc = "stitch" => disp.pc = "stitch" /\ disp'.id = disp.id
                                    /\ (Has(disk, disp.id, FALSE) => Has(disk', disp.id, FALSE))
      PROVE  GotInv' /\ LateInv'
  <2>1. GotInv'
    BY <1>6 DEF GotInv
  <2>2. LateInv'
    BY <1>6 DEF LateInv
  <2> QED
    BY <2>1, <2>2<1>7. ASSUME disk' = disk, disp' = disp \/ (disp'.rows = disp.rows /\ disp'.pc # "stitch" /\ disp.pc # "stitch"),
             bld'.results = bld.results, bld'.late = bld.late, \A a \in Closers : closer'[a].rows = closer[a].rows,
             run'.n = run.n, run'.pc = run.pc \/ run.pc \in {"prompt", "closing"},
             run'.res = run.res \/ run.pc \in {"prompt", "closing"},
             rbSeen'.got = rbSeen.got, rbSeen'.torn = rbSeen.torn, rbSeen'.errs = rbSeen.errs, rbSeen'.behind = rbSeen.behind
      PROVE  GotInv' /\ LateInv'
  <2>1. SUFFICES ASSUME Clean' PROVE GotInv' /\ LateInv'
    BY DEF GotInv, LateInv
  <2>2. Clean
    BY <1>02, <1>7, <2>1
  <2>3. \A id : Handed(id) => Handed(id)'
    BY <1>0, <1>7 DEF Handed
  <2>4. disp'.pc = "stitch" => disp.pc = "stitch" /\ disp'.id = disp.id
    BY <1>7
  <2>5. disp'.rows = disp.rows
    BY <1>7
  <2> QED
    BY <1>6, <1>7, <2>2, <2>3, <2>4, <2>5
<1>8. ASSUME NEW id \in Tools, DropTerminal(id) PROVE GotInv' /\ LateInv'
  <2>1. UNCHANGED <<bld, disk, disp, closer, run>>
    BY <1>8 DEF DropTerminal
  <2>2. /\ rbSeen'.got = rbSeen.got /\ rbSeen'.torn = rbSeen.torn /\ rbSeen'.errs = rbSeen.errs
        /\ rbSeen'.behind = rbSeen.behind
    BY <1>0, <1>8 DEF DropTerminal, Counted, Seen
  <2> QED
    BY <1>7, <2>1, <2>2
\* An append for the Run of the moment, of the dispatcher or of a closer.
<1>9. ASSUME NEW s \in {disp.rows, closer["run"].rows, closer["stop"].rows}, NEW n \in Ids, Write(s, n),
             UNCHANGED run, Clean', Clean => n = run.n
      PROVE  /\ Clean /\ rbSeen'.got = rbSeen.got /\ rbSeen'.torn = rbSeen.torn
             /\ \A id, real : Has(disk, id, real) \/ Has(s, id, real) => Has(disk', id, real)
  <2>1. Whole(s) /\ s \in Seq(Row) /\ \A id : ~ (Claims(disk, id) /\ Claims(s, id))
    BY Apart
  <2>2. /\ \A id, real : Has(disk, id, real) => Has(disk', id, real)
        /\ rbSeen'.got = rbSeen.got /\ rbSeen'.behind = rbSeen.behind
        /\ \/ /\ rbSeen'.torn = rbSeen.torn /\ rbSeen'.errs = rbSeen.errs
              /\ \A id, real : Has(s, id, real) => Has(disk', id, real)
           \/ rbSeen'.errs = rbSeen.errs \cup ({n} \ {0})
    BY <1>9, <2>1, RowsWritten
  <2>3. Clean
    BY <1>9, <2>2 DEF Clean
  <2>4. n # 0 /\ n = run.n /\ run.n \notin rbSeen'.errs
    <3>1. run.n # 0
      BY <1>01, <2>3 DEF RunIds
    <3>2. run.n \notin rbSeen'.errs
      BY <1>9 DEF Clean
    <3> QED
      BY <1>9, <2>3, <3>1, <3>2
  <2> QED
    BY <2>2, <2>3, <2>4
<1>10. CASE DispatchPersist
  <2>1. disp' = [disp EXCEPT !.pc = "emit", !.rows = <<>>, !.fn = 0, !.id = ""] /\ UNCHANGED <<bld, closer, run>>
        /\ Write(disp.rows, disp.fn) /\ disp.pc = "persist"
    BY <1>10 DEF DispatchPersist
  <2>2. SUFFICES ASSUME Clean' PROVE GotInv' /\ LateInv'
    BY DEF GotInv, LateInv
  <2>3. Clean => disp.fn = run.n
    BY <2>1 DEF Clean, TurnInv
  <2>4. /\ Clean /\ rbSeen'.got = rbSeen.got /\ rbSeen'.torn = rbSeen.torn
        /\ \A id, real : Has(disk, id, real) \/ Has(disp.rows, id, real) => Has(disk', id, real)
    BY <1>0, <1>9, <2>1, <2>2, <2>3
  <2>5. disp'.pc # "stitch"
    BY <1>0, <2>1 DEF Dispatcher
  <2>6. \A id : Handed(id) => Handed(id)' \/ Has(disk', id, TRUE)
    BY <2>1, <2>4 DEF Handed
  <2> QED
    BY <1>6, <2>1, <2>4, <2>5, <2>6
<1>11. ASSUME NEW a \in Closers, ClosePersist(a) PROVE GotInv' /\ LateInv'
  <2>1. closer' = [closer EXCEPT ![a] = [Idle EXCEPT !.pc = "done"]] /\ UNCHANGED <<bld, disp, run>>
        /\ Write(closer[a].rows, closer[a].fn) /\ closer[a].pc = "persist"
    BY <1>11 DEF ClosePersist
  <2>2. SUFFICES ASSUME Clean' PROVE GotInv' /\ LateInv'
    BY DEF GotInv, LateInv
  <2>3. closer[a].fn = run.n
    <3>1. run'.pc # "idle"
      BY <2>2 DEF Clean
    <3> QED
      BY <2>1, <3>1 DEF WhoInv
  <2>4. closer[a].rows \in {disp.rows, closer["run"].rows, closer["stop"].rows} /\ closer[a].fn \in Ids
    BY <1>0 DEF Closers
  <2>5. /\ Clean /\ rbSeen'.got = rbSeen.got /\ rbSeen'.torn = rbSeen.torn
        /\ \A id, real : Has(disk, id, real) \/ Has(closer[a].rows, id, real) => Has(disk', id, real)
    BY <1>9, <2>1, <2>2, <2>3, <2>4
  <2>6. \A o \in Closers : o # a => closer'[o] = closer[o]
    BY <1>0, <2>1
  <2>7. \A id : Handed(id) => Handed(id)' \/ Has(disk', id, TRUE)
    <3>1. CASE a = "run"
      BY <1>0, <2>1, <2>5, <2>6, <3>1 DEF Handed
    <3>2. CASE a = "stop"
      BY <1>0, <2>1, <2>5, <2>6, <3>2 DEF Handed
    <3> QED
      BY <3>1, <3>2 DEF Closers
  <2> QED
    BY <1>6, <2>1, <2>5, <2>7
<1>12. CASE DispatchStitch
  <2>1. disp' = [disp EXCEPT !.pc = "emit", !.rows = <<>>, !.fn = 0, !.id = ""] /\ UNCHANGED <<bld, closer, run>>
        /\ disp.pc = "stitch" /\ disp.id \in Tools
    BY <1>12 DEF DispatchStitch, TypeInv
  <2>2. SUFFICES ASSUME Clean' PROVE GotInv' /\ LateInv'
    BY DEF GotInv, LateInv
  <2>3. \/ disk' = Stitch(disk, disp.id) /\ UNCHANGED rbSeen
        \/ rbSeen'.errs = rbSeen.errs \cup {disp.fn} /\ rbSeen'.behind = rbSeen.behind
    BY <1>0, <1>12 DEF DispatchStitch, Seen
  <2>4. Clean
    BY <2>1, <2>2, <2>3 DEF Clean
  <2>5. disp.fn = run.n
    BY <2>1, <2>4 DEF Clean, TurnInv
  <2>6. run.n \notin rbSeen'.errs
    BY <2>1, <2>2 DEF Clean
  <2>7. disk' = Stitch(disk, disp.id) /\ UNCHANGED rbSeen
    BY <2>3, <2>5, <2>6
  <2>8. /\ \A x : Has(disk, x, TRUE) => Has(disk', x, TRUE)
        /\ \A x : x # disp.id /\ Has(disk, x, FALSE) => Has(disk', x, FALSE)
        /\ Has(disk, disp.id, FALSE) => Has(disk', disp.id, TRUE)
    BY <1>0, <2>1, <2>7, StitchKeeps
  <2>9. disp.id \notin bld.late /\ Has(disk, disp.id, FALSE)
    BY <2>1, <2>4 DEF TurnInv, LateInv
  <2>10. disp.rows = <<>> /\ disp'.rows = <<>> /\ disp'.pc # "stitch"
    BY <1>0, <2>1 DEF QueueInv, Dispatcher
  <2>11. \A x : Handed(x) => Handed(x)' \/ Has(disk', x, TRUE)
    BY <2>1, <2>8, <2>9, <2>10 DEF Handed
  <2> QED
    BY <1>6, <2>1, <2>4, <2>7, <2>8, <2>9, <2>10, <2>11
<1>13. CASE DispatchEmit
  <2>1. disp' = Idle /\ UNCHANGED <<bld, disk, closer, run, rbSeen>> /\ disp.pc = "emit"
    BY <1>13 DEF DispatchEmit
  <2>2. disp.rows = <<>> /\ disp'.rows = <<>> /\ disp'.pc # "stitch" /\ disp.pc # "stitch"
    BY <2>1 DEF QueueInv, Idle
  <2> QED
    BY <1>7, <2>1, <2>2
<1>14. ASSUME NEW a \in Closers, EndsTaken(a) PROVE GotInv' /\ LateInv'
  <2>1. bld' = [bld EXCEPT !.open = FALSE] /\ UNCHANGED <<disk, disp, run, rbSeen>>
    BY <1>14 DEF EndsTaken
  <2>2. bld'.results = bld.results /\ bld'.late = bld.late
    BY <1>0, <2>1 DEF Builder
  <2>3. \A o \in Closers : closer'[o].rows = closer[o].rows
    BY <1>0, <1>14 DEF EndsTaken, Closer
  <2> QED
    BY <1>7, <2>1, <2>2, <2>3
<1>15. ASSUME NEW a \in Closers, NEW pc, Step(a, pc), UNCHANGED <<disk, disp>>,
              bld'.results = bld.results, bld'.late = bld.late,
              run'.n = run.n, run'.pc = run.pc \/ run.pc \in {"prompt", "closing"},
              run'.res = run.res \/ run.pc \in {"prompt", "closing"},
              rbSeen'.got = rbSeen.got, rbSeen'.torn = rbSeen.torn, rbSeen'.errs = rbSeen.errs,
              rbSeen'.behind = rbSeen.behind
       PROVE  GotInv' /\ LateInv'
  <2>1. \A o \in Closers : closer'[o].rows = closer[o].rows
    BY <1>15, StepCloser
  <2> QED
    BY <1>7, <1>15, <2>1
<1>16. ASSUME NEW a \in Closers, EndsTold(a) PROVE GotInv' /\ LateInv'
  BY <1>15, <1>16 DEF EndsTold
<1>17. CASE FlushHooked
  <2>1. \A o \in Closers : closer'[o].rows = closer[o].rows
    BY <1>0, <1>17 DEF FlushHooked, Closer
  <2> QED
    BY <1>7, <1>17, <2>1 DEF FlushHooked
<1>18. ASSUME NEW a \in Closers, Collect(a) PROVE GotInv' /\ LateInv'
  <2>1. bld' = [Flushed(bld) EXCEPT !.done = <<>>] /\ UNCHANGED <<disk, disp, run, rbSeen>> /\ closer[a].pc = "collect"
    BY <1>18 DEF Collect
  <2>2. bld'.late = bld.late
    <3>1. Flushed(bld) \in Builder /\ Flushed(bld).late = bld.late
      BY <1>0, FlushTypes DEF Flushed, Builder
    <3> QED
      BY <2>1, <3>1 DEF Builder
  <2>3. SUFFICES ASSUME Clean' PROVE GotInv' /\ LateInv'
    BY DEF GotInv, LateInv
  <2>4. Clean
    BY <1>02, <2>1, <2>3
  <2>5. closer'[a].rows = NewRound(bld) /\ \A o \in Closers : o # a => closer'[o] = closer[o]
    BY <1>01, <1>18, <2>4, Collected
  <2>6. \A id \in bld.results : Has(NewRound(bld), id, TRUE)
    <3> TAKE id \in bld.results
    <3>1. id \in ToSet(bld.calls) /\ (id \in bld.results) = TRUE
      BY DEF BldInv
    <3> QED
      BY <3>1, LastRound
  <2>7. closer[a].rows = <<>>
    BY <2>1 DEF QueueInv
  <2>8. \A id : ~Has(closer[a].rows, id, TRUE)
    BY <2>7, NothingWhole
  <2>9. \A id : Handed(id) => Handed(id)'
    <3>1. CASE a = "run"
      BY <1>0, <2>1, <2>5, <2>6, <2>8, <3>1 DEF Handed
    <3>2. CASE a = "stop"
      BY <1>0, <2>1, <2>5, <2>6, <2>8, <3>2 DEF Handed
    <3> QED
      BY <3>1, <3>2 DEF Closers
  <2> QED
    BY <1>6, <2>1, <2>2, <2>4, <2>9
<1>19. CASE EndTurn \/ PromptFails
  <2>1. Step("run", "ends") /\ UNCHANGED <<bld, disk, disp, rbSeen>> /\ run.pc = "prompt"
    BY <1>19 DEF EndTurn, PromptFails, Finish, RunAt
  <2>2. run'.n = run.n
    BY <1>0, <1>19 DEF EndTurn, PromptFails, Finish, TheRun
  <2> QED
    BY <1>0, <1>15, <2>1, <2>2
<1>20. CASE ClearHandler
  <2>1. Step("run", "idle") /\ UNCHANGED <<disk, disp, rbSeen>> /\ run.pc = "closing" /\ bld' = [bld EXCEPT !.h = 0]
    BY <1>20 DEF ClearHandler, RunAt
  <2>2. run'.n = run.n
    BY <1>0, <1>20 DEF ClearHandler, To, TheRun
  <2>3. bld'.results = bld.results /\ bld'.late = bld.late
    BY <1>0, <2>1 DEF Builder
  <2> QED
    BY <1>0, <1>15, <2>1, <2>2, <2>3
<1>21. CASE StopAndFlush \/ StopWaited \/ StopDone
  <2>1. PICK pc : Step("stop", pc)
    BY <1>21 DEF StopAndFlush, StopWaited, StopDone
  <2>2. UNCHANGED <<bld, disk, disp>>
    BY <1>21 DEF StopAndFlush, StopWaited, StopDone
  <2>3. /\ rbSeen'.got = rbSeen.got /\ rbSeen'.torn = rbSeen.torn /\ rbSeen'.errs = rbSeen.errs
        /\ rbSeen'.behind = rbSeen.behind
    BY <1>0, <1>21 DEF StopAndFlush, StopWaited, StopDone, Seen
  <2>4. run'.n = run.n /\ run'.pc = run.pc /\ run'.res = run.res
    BY <1>0, <1>21 DEF StopAndFlush, StopWaited, StopDone, TheRun
  <2> QED
    BY <1>0, <1>15, <2>1, <2>2, <2>3, <2>4
<1>22. CASE Prompt
  <2>1. UNCHANGED <<bld, disk, disp, closer>> /\ run.pc = "wired" /\ run'.n = run.n
    BY <1>0, <1>22 DEF Prompt, RunAt, To, TheRun
  <2>2. SUFFICES ASSUME Clean' PROVE GotInv' /\ LateInv'
    BY DEF GotInv, LateInv
  <2>3. disp.pc = "idle" /\ rbSeen'.behind = rbSeen.behind \cup (IF rbSeen.torn THEN {run.n} ELSE {})
        /\ rbSeen'.torn = rbSeen.torn /\ rbSeen'.got = rbSeen.got
    <3>1. ~ (run' = [run EXCEPT !.pc = "capture", !.res = "error"])
      <4>1. ~ (run'.pc = "capture" /\ run'.res = "error")
        BY <2>2 DEF Clean
      <4> QED
        BY <1>0, <4>1 DEF TheRun
    <3> DEFINE x == rbSeen.behind \cup (IF rbSeen.torn THEN {run.n} ELSE {})
    <3>2. disp.pc = "idle" /\ rbSeen' = [rbSeen EXCEPT !.behind = x]
      BY <1>22, <3>1 DEF Prompt
    <3> HIDE DEF x
    <3>3. rbSeen'.behind = x /\ rbSeen'.torn = rbSeen.torn /\ rbSeen'.got = rbSeen.got
      BY <1>0, <3>2 DEF Seen
    <3> QED
      BY <3>2, <3>3 DEF x
  <2>4. ~rbSeen'.torn
    BY <2>1, <2>2, <2>3 DEF Clean
  <2>5. rbSeen'.got[run'.n] = {}
    <3>1. run.n # 0
      BY <2>1 DEF RunInv
    <3>2. run.n \in RunIds
      BY <1>0, <3>1 DEF Ids, RunIds
    <3> QED
      BY <2>1, <2>3, <3>2 DEF NewInv
  <2>6. bld'.late = {}
    BY <2>1 DEF RunInv
  <2> QED
    BY <2>1, <2>3, <2>4, <2>5, <2>6 DEF GotInv, LateInv
<1>23. CASE BeginRun \/ Reset \/ Capture \/ ClearOnFlush \/ Crash
  <2>1. run'.pc \in {"begun", "idle", "wired", "unwire"}
    <3>1. CASE BeginRun
      <4> DEFINE n == run.n + 1
      <4>1. run.pc = "idle"
        BY <3>1 DEF BeginRun, RunAt
      <4>2. \/ run' = [run EXCEPT !.n = n, !.pc = "begun", !.res = "", !.cancelled = FALSE]
            \/ run' = [run EXCEPT !.n = n, !.res = "error", !.cancelled = FALSE]
        BY <3>1 DEF BeginRun
      <4> HIDE DEF n
      <4> QED
        BY <1>0, <4>1, <4>2 DEF TheRun
    <3>2. CASE Reset \/ Capture \/ ClearOnFlush \/ Crash
      BY <1>0, <3>2 DEF Reset, Capture, ClearOnFlush, Crash, To, TheRun
    <3> QED
      BY <1>23, <3>1, <3>2
  <2>2. ~Clean'
    BY <2>1 DEF Clean
  <2> QED
    BY <2>2 DEF GotInv, LateInv
<1> QED
  BY <1>2, <1>3, <1>4, <1>5, <1>8, <1>10, <1>11, <1>12, <1>13, <1>14, <1>16, <1>17, <1>18, <1>19, <1>20, <1>21, <1>22, <1>23
     DEF Next, Updates, RunStep, CloseRound

(***************************************************************************)
(* What the handlers have been told.                                       *)
(***************************************************************************)
NoStart(v) == \A id \in Tools : v.tools[id] # "started"
Quiet(v) == ~v.open /\ NoStart(v)

\* A result is accepted once, and for a call that is not open any more.
SentInv ==
  /\ \A m \in RunIds : rbSeen.got[m] \subseteq rbSeen.sent
  /\ Pending(bld) \cap rbSeen.sent = {}

\* Nobody tells a Run anything before it prompts.
QuietInv ==
  /\ \A m \in RunIds : m > run.n \/ (m = run.n /\ run.pc \in {"begun", "wired"}) => Quiet(live[m])
  /\ run.pc = "wired" => ~bld.open

\* A stop or a close-out that is about to tell the ends has none for a Run that succeeds.
EndsInv == \A a \in Closers : closer[a].pc = "tell" =>
  /\ closer[a].ev.open # "yes"
  /\ closer[a].h \in rbSeen.ok \/ (closer[a].h = run.n /\ run.res = "ok") => closer[a].ev.ids = {}

\* What the handler of the Run shows, the notice that the dispatcher has for it included.
Shown == IF disp.pc # "idle" THEN Told(live[run.n], disp.ev) ELSE live[run.n]
PromptView == run.pc = "prompt" /\ ~run.cancelled =>
  /\ Shown.open = bld.open
  /\ \A id \in rbSeen.got[run.n] : Shown.tools[id] = "result"
  /\ \A id \in Tools : Shown.tools[id] = "started" => id \in Pending(bld)

\* The end of the bubble that is open is about to be told.
Ended(n) == closer["stop"].pc = "tell" /\ closer["stop"].ev.open = "no" /\ closer["stop"].h = n
DoneView == run.res = "ok" /\ run.pc \in {"closing", "capture"} =>
  /\ \A id \in rbSeen.got[run.n] : live[run.n].tools[id] = "result"
  /\ NoStart(live[run.n])
  /\ live[run.n].open => \/ closer["run"].pc = "ends" /\ bld.open
                         \/ closer["run"].pc = "tell" /\ closer["run"].ev.open = "no"
                         \/ Ended(run.n)
  /\ bld.open => closer["run"].pc = "ends"
OkView == \A n \in rbSeen.ok :
  /\ rbSeen.stray \/ n \in rbSeen.behind \/ \A id \in rbSeen.got[n] : live[n].tools[id] = "result"
  /\ NoStart(live[n])
  /\ live[n].open => Ended(n)

ViewInv == SentInv /\ QuietInv /\ EndsInv /\ PromptView /\ DoneView /\ OkView

LEMMA ViewInit == ASSUME MaxRuns \in Nat, Init PROVE ViewInv
<1>1. /\ run.pc = "idle" /\ run.res = "" /\ run.n = 0 /\ rbSeen.ok = {} /\ rbSeen.sent = {}
      /\ rbSeen.got = [n \in RunIds |-> {}]
      /\ live = [n \in RunIds |-> [open |-> FALSE, tools |-> [id \in Tools |-> "none"]]]
  BY DEF Init
<1>2. bld.calls = <<>> /\ closer["stop"].pc = "idle" /\ closer["run"].pc = "idle"
  BY DEF Init, Fresh, Idle, Closers
<1>3. \A m \in RunIds : Quiet(live[m])
  BY <1>1 DEF Quiet, NoStart
<1>4. Pending(bld) \cap rbSeen.sent = {} /\ \A m \in RunIds : rbSeen.got[m] \subseteq rbSeen.sent
  BY <1>1
<1> QED
  BY <1>1, <1>2, <1>3, <1>4 DEF ViewInv, SentInv, QuietInv, EndsInv, PromptView, DoneView, OkView, Closers

\* What a notice does to a view.
LEMMA ToldFields ==
  ASSUME NEW v, NEW e
  PROVE  /\ Told(v, e).open = (IF e.open = "same" THEN v.open ELSE e.open = "yes")
         /\ \A id \in Tools : Told(v, e).tools[id] = (IF id \in e.ids THEN e.as ELSE v.tools[id])
BY DEF Told

LEMMA NoticeFields ==
  ASSUME NEW ids, NEW as, NEW open
  PROVE  Notice(ids, as, open).ids = ids /\ Notice(ids, as, open).as = as /\ Notice(ids, as, open).open = open
BY DEF Notice

LEMMA TellFields ==
  ASSUME TypeInv, NEW h \in Ids, NEW e, Tell(h, e), NEW m \in RunIds
  PROVE  live'[m] = IF m = h THEN Told(live[m], e) ELSE live[m]
<1>1. live \in [RunIds -> View]
  BY DEF TypeInv
<1>2. CASE h = 0
  BY <1>2 DEF Tell, RunIds
<1>3. CASE h # 0
  <2> DEFINE x == Told(live[h], e)
  <2>1. live' = [live EXCEPT ![h] = x]
    BY <1>3 DEF Tell
  <2> HIDE DEF x
  <2> QED
    BY <1>1, <2>1 DEF x
<1> QED
  BY <1>2, <1>3

\* The handlers are told by the dispatcher and the closers; a crash lets the pages reload.
LEMMA LiveSteps ==
  ASSUME Next
  PROVE  live' = live \/ DispatchEmit \/ (\E a \in Closers : EndsTold(a)) \/ Crash
<1>1. CASE Updates
  BY <1>1 DEF Updates, OnMessageChunk, OnToolCall, OnToolResult, OnLateTerminal, Leave, DropTerminal, DispatchPersist,
              DispatchStitch
<1>2. CASE RunStep
  BY <1>2 DEF RunStep, BeginRun, Reset, Prompt, EndTurn, PromptFails, Finish, ClearHandler, Capture, ClearOnFlush
<1>3. CASE \E a \in Closers : CloseRound(a)
  BY <1>3 DEF CloseRound, EndsTaken, Collect, ClosePersist
<1>4. CASE FlushHooked \/ StopAndFlush \/ StopWaited \/ StopDone
  BY <1>4 DEF FlushHooked, StopAndFlush, StopWaited, StopDone
<1> QED
  BY <1>1, <1>2, <1>3, <1>4 DEF Next

\* What the pages show when they have been reloaded.
LEMMA Reloaded ==
  ASSUME Crash, NEW m \in RunIds
  PROVE  /\ Quiet(live'[m])
         /\ \A id \in Tools : Has(disk, id, TRUE) => live'[m].tools[id] = "result"
<1>1. live'[m] = [open |-> FALSE, tools |-> [id \in Tools |->
                  IF \E i \in DOMAIN disk : disk[i] = Result(id, TRUE) THEN "result" ELSE "none"]]
  BY DEF Crash
<1>2. ~live'[m].open
  BY <1>1
<1>3. \A id \in Tools : live'[m].tools[id] = IF \E i \in DOMAIN disk : disk[i] = Result(id, TRUE) THEN "result" ELSE "none"
  BY <1>1
<1> QED
  BY <1>2, <1>3 DEF Quiet, NoStart, Has

LEMMA SentNext ==
  ASSUME TypeInv, BldInv, SentInv, Next
  PROVE  SentInv'
<1>0. /\ bld \in Builder /\ rbSeen \in Seen /\ rbSeen.got \in [RunIds -> SUBSET Tools] /\ bld.h \in Ids
      /\ ToSet(<<>>) = {}
  BY DEF TypeInv, Seen, Builder, ToSet
<1>1. ASSUME rbSeen'.got = rbSeen.got, rbSeen.sent \subseteq rbSeen'.sent,
             \A id \in Pending(bld)' : (id \in Pending(bld) /\ rbSeen'.sent = rbSeen.sent) \/ id \notin rbSeen'.sent
      PROVE  SentInv'
  BY <1>1 DEF SentInv
<1>2. ASSUME bld'.calls = <<>>, rbSeen'.got = rbSeen.got, rbSeen'.sent = rbSeen.sent PROVE SentInv'
  BY <1>0, <1>1, <1>2 DEF Pending
<1>3. ASSUME bld'.calls = bld.calls, bld'.results = bld.results, rbSeen'.got = rbSeen.got, rbSeen'.sent = rbSeen.sent
      PROVE  SentInv'
  BY <1>1, <1>3 DEF Pending
<1>4. CASE OnMessageChunk
  <2> DEFINE base == IF bld.calls # <<>> THEN [Flushed(bld) EXCEPT !.late = @ \cup Pending(bld)] ELSE bld
  <2> DEFINE b == [base EXCEPT !.text = TRUE, !.open = TRUE]
  <2>1. bld' = b
    BY <1>4 DEF OnMessageChunk, Leave
  <2>2. rbSeen'.got = rbSeen.got /\ rbSeen'.sent = rbSeen.sent
    BY <1>0, <1>4 DEF OnMessageChunk, Counted, Seen
  <2>3. CASE bld.calls = <<>>
    <3>1. bld'.calls = bld.calls /\ bld'.results = bld.results
      BY <1>0, <2>1, <2>3 DEF Builder
    <3> QED
      BY <1>3, <2>2, <3>1
  <2>4. CASE bld.calls # <<>>
    <3>1. base.calls = <<>> /\ base \in Builder
      <4>1. Flushed(bld) \in Builder /\ Flushed(bld).calls = <<>>
        BY <1>0, FlushTypes DEF Flushed, Builder
      <4>2. Pending(bld) \in SUBSET Tools
        BY <1>0 DEF Pending, ToSet, Builder
      <4> QED
        BY <2>4, <4>1, <4>2 DEF Builder
    <3> HIDE DEF base
    <3>2. bld'.calls = <<>>
      BY <2>1, <3>1 DEF Builder
    <3> QED
      BY <1>2, <2>2, <3>2
  <2> QED
    BY <2>3, <2>4
<1>5. ASSUME NEW id \in Tools, OnToolCall(id) PROVE SentInv'
  <2>1. bld' = [bld EXCEPT !.calls = Append(@, id), !.open = FALSE] /\ id \notin rbSeen.sent
    BY <1>5 DEF OnToolCall, Leave
  <2>2. rbSeen'.got = rbSeen.got /\ rbSeen'.sent = rbSeen.sent
    BY <1>0, <1>5 DEF OnToolCall, Counted, Seen
  <2>3. bld'.calls = Append(bld.calls, id) /\ bld'.results = bld.results /\ bld.calls \in Seq(Tools)
    BY <1>0, <2>1 DEF Builder
  <2>4. ToSet(bld'.calls) = ToSet(bld.calls) \cup {id}
    BY <2>3, CallsGrow
  <2> QED
    BY <1>1, <2>1, <2>2, <2>3, <2>4 DEF Pending
\* A terminal that is accepted.
<1>6. ASSUME NEW id \in Tools, rbSeen' = [Counted EXCEPT !.sent = @ \cup {id}, !.got[bld.h] = @ \cup {id}]
      PROVE  rbSeen'.sent = rbSeen.sent \cup {id} /\ \A m \in RunIds : rbSeen'.got[m] \subseteq rbSeen.got[m] \cup {id}
  <2> DEFINE sent == rbSeen.sent \cup {id}
  <2> DEFINE g == [rbSeen.got EXCEPT ![bld.h] = @ \cup {id}]
  <2>1. rbSeen' = [Counted EXCEPT !.sent = sent, !.got = g]
    BY <1>0, <1>6 DEF Counted, Seen
  <2> HIDE DEF sent, g
  <2>2. rbSeen'.got = g /\ rbSeen'.sent = sent
    BY <1>0, <2>1 DEF Counted, Seen
  <2> QED
    BY <1>0, <2>2 DEF g, sent
<1>7. ASSUME NEW id \in Tools, OnToolResult(id) PROVE SentInv'
  <2> DEFINE results == bld.results \cup {id}
  <2> DEFINE b == [bld EXCEPT !.results = @ \cup {id}]
  <2>1. b \in Builder /\ b.calls = bld.calls /\ b.results = results
    BY <1>0 DEF Builder
  <2>2. bld' = (IF Pending(b) = {} THEN Flushed(b) ELSE b) /\ id \in Pending(bld)
    BY <1>7 DEF OnToolResult, Leave
  <2>3. rbSeen'.sent = rbSeen.sent \cup {id} /\ \A m \in RunIds : rbSeen'.got[m] \subseteq rbSeen.got[m] \cup {id}
    BY <1>6, <1>7 DEF OnToolResult
  <2> HIDE DEF b
  <2>4. Pending(bld') \subseteq Pending(bld) \ {id}
    <3>1. CASE Pending(b) # {}
      BY <2>1, <2>2, <3>1 DEF Pending
    <3>2. CASE Pending(b) = {}
      <4>1. bld'.calls = <<>>
        BY <2>1, <2>2, <3>2 DEF Flushed, Builder
      <4> QED
        BY <1>0, <4>1 DEF Pending
    <3> QED
      BY <3>1, <3>2
  <2> QED
    BY <2>3, <2>4 DEF SentInv
<1>8. ASSUME NEW id \in Tools, OnLateTerminal(id) PROVE SentInv'
  <2>1. bld' = [bld EXCEPT !.late = @ \ {id}, !.done = Stitch(@, id)] /\ id \notin ToSet(bld.calls)
    BY <1>8 DEF OnLateTerminal
  <2>2. bld'.calls = bld.calls /\ bld'.results = bld.results
    BY <1>0, <2>1 DEF Builder
  <2>3. rbSeen'.sent = rbSeen.sent \cup {id} /\ \A m \in RunIds : rbSeen'.got[m] \subseteq rbSeen.got[m] \cup {id}
    BY <1>6, <1>8 DEF OnLateTerminal
  <2> QED
    BY <2>1, <2>2, <2>3 DEF SentInv, Pending
<1>9. ASSUME NEW id \in Tools, DropTerminal(id) PROVE SentInv'
  <2>1. UNCHANGED bld /\ id \notin ToSet(bld.calls)
    BY <1>9 DEF DropTerminal, Declared
  <2>2. rbSeen'.got = rbSeen.got /\ rbSeen'.sent = rbSeen.sent \cup {id}
    BY <1>0, <1>9 DEF DropTerminal, Counted, Seen
  <2> QED
    BY <2>1, <2>2 DEF SentInv, Pending
<1>10. ASSUME NEW rows, NEW n, Write(rows, n), UNCHANGED bld PROVE SentInv'
  <2>1. rbSeen'.got = rbSeen.got /\ rbSeen'.sent = rbSeen.sent
    BY <1>0, <1>10 DEF Write, Seen
  <2> QED
    BY <1>3, <1>10, <2>1
<1>11. CASE DispatchPersist \/ \E a \in Closers : ClosePersist(a)
  BY <1>10, <1>11 DEF DispatchPersist, ClosePersist
<1>12. CASE DispatchStitch \/ BeginRun \/ Prompt \/ Capture \/ StopAndFlush
  <2>1. UNCHANGED bld
    BY <1>12 DEF DispatchStitch, BeginRun, Prompt, Capture, StopAndFlush
  <2>2. rbSeen'.got = rbSeen.got /\ rbSeen'.sent = rbSeen.sent
    BY <1>0, <1>12 DEF DispatchStitch, BeginRun, Prompt, Capture, StopAndFlush, Seen
  <2> QED
    BY <1>3, <2>1, <2>2
<1>13. ASSUME NEW a \in Closers, EndsTaken(a) PROVE SentInv'
  <2>1. bld'.calls = bld.calls /\ bld'.results = bld.results
    BY <1>0, <1>13 DEF EndsTaken, Builder
  <2> QED
    BY <1>3, <1>13, <2>1 DEF EndsTaken
<1>14. ASSUME NEW a \in Closers, Collect(a) PROVE SentInv'
  <2>1. bld' = [Flushed(bld) EXCEPT !.done = <<>>] /\ UNCHANGED rbSeen
    BY <1>14 DEF Collect
  <2>2. Flushed(bld) \in Builder /\ Flushed(bld).calls = <<>>
    BY <1>0, FlushTypes DEF Flushed, Builder
  <2>3. bld'.calls = <<>>
    BY <2>1, <2>2 DEF Builder
  <2> QED
    BY <1>2, <2>1, <2>3
<1>15. CASE Reset
  <2>1. bld'.calls = <<>> /\ UNCHANGED rbSeen
    BY <1>15 DEF Reset, Fresh
  <2> QED
    BY <1>2, <2>1
<1>16. CASE ClearHandler \/ ClearOnFlush
  <2>1. bld'.calls = bld.calls /\ bld'.results = bld.results /\ UNCHANGED rbSeen
    BY <1>0, <1>16 DEF ClearHandler, ClearOnFlush, Builder
  <2> QED
    BY <1>3, <2>1
<1>17. CASE Crash
  <2>1. bld'.calls = <<>>
    BY <1>17 DEF Crash, Fresh
  <2>2. rbSeen'.got = rbSeen.got /\ rbSeen'.sent = rbSeen.sent
    BY <1>0, <1>17 DEF Crash, Seen
  <2> QED
    BY <1>2, <2>1, <2>2
<1>18. CASE UNCHANGED <<bld, rbSeen>>
  BY <1>3, <1>18
<1> QED
  BY <1>4, <1>5, <1>7, <1>8, <1>9, <1>11, <1>12, <1>13, <1>14, <1>15, <1>16, <1>17, <1>18
     DEF Next, Updates, RunStep, CloseRound, DispatchEmit, EndsTold, FlushHooked, EndTurn, PromptFails, Finish,
         StopWaited, StopDone

\* No Run is behind the one that holds the semaphore, and no number exceeds it.
LEMMA EarlierIds ==
  ASSUME MaxRuns \in Nat, TypeInv
  PROVE  run.n \in Nat /\ disp.h \in Nat /\ disp.h \in Ids /\ \A a \in Closers : closer[a].h \in Nat /\ closer[a].h \in Ids
<1>1. run.n \in Ids /\ disp.h \in Ids /\ \A a \in Closers : closer[a].h \in Ids
  BY DEF TypeInv, TheRun, Dispatcher, Closer
<1> QED
  BY <1>1 DEF Ids

LEMMA QuietNext ==
  ASSUME MaxRuns \in Nat, TypeInv, RunInv, TurnInv, WhoInv, QuietInv, Next
  PROVE  QuietInv'
<1>0. /\ bld \in Builder /\ run \in TheRun /\ "run" \in Closers /\ "stop" \in Closers
  BY DEF TypeInv, Closers
<1>1. ASSUME NEW m \in RunIds, m > run'.n \/ (m = run'.n /\ run'.pc \in {"begun", "wired"})
      PROVE  Quiet(live'[m])
  <2>1. m > run.n \/ (m = run.n /\ run.pc \in {"begun", "wired"})
    BY <1>1, AheadBefore
  <2>2. Quiet(live[m])
    BY <2>1 DEF QuietInv
  <2>3. m \in Nat
    BY DEF RunIds
  <2>4. ASSUME DispatchEmit PROVE live'[m] = live[m]
    <3>1. disp.pc = "emit" /\ Tell(disp.h, disp.ev)
      BY <2>4 DEF DispatchEmit
    <3>2. disp.h <= run.n /\ (run.pc \in {"begun", "wired"} => disp.h < run.n)
      BY <3>1 DEF TurnInv
    <3>3. m # disp.h
      <4>1. CASE m > run.n
        BY <2>3, <3>2, <4>1, EarlierIds
      <4>2. CASE m = run.n /\ run.pc \in {"begun", "wired"}
        BY <2>3, <3>2, <4>2, EarlierIds
      <4> QED
        BY <2>1, <4>1, <4>2
    <3> QED
      BY <3>1, <3>3, EarlierIds, TellFields
  <2>5. ASSUME NEW a \in Closers, EndsTold(a) PROVE live'[m] = live[m]
    <3>1. closer[a].pc = "tell" /\ Tell(closer[a].h, closer[a].ev)
      BY <2>5 DEF EndsTold
    <3>2. closer[a].h <= run.n
      BY <3>1 DEF WhoInv
    <3>3. run.pc \notin {"begun", "wired"}
      BY <3>1 DEF RunInv, StopPc, Closers
    <3>4. m > run.n
      BY <2>1, <3>3
    <3>5. m # closer[a].h
      BY <2>3, <3>2, <3>4, EarlierIds
    <3> QED
      BY <3>1, <3>5, EarlierIds, TellFields
  <2> QED
    BY <2>2, <2>4, <2>5, LiveSteps, Reloaded
<1>2. ASSUME run'.pc = "wired" PROVE ~bld'.open
  <2>1. CASE Reset
    BY <2>1 DEF Reset, Fresh
  <2>2. CASE ~Reset
    <3>1. run.pc = "wired"
      <4>1. CASE BeginRun
        <5> DEFINE n == run.n + 1
        <5>1. run.pc = "idle"
          BY <4>1 DEF BeginRun, RunAt
        <5>2. \/ run' = [run EXCEPT !.n = n, !.pc = "begun", !.res = "", !.cancelled = FALSE]
              \/ run' = [run EXCEPT !.n = n, !.res = "error", !.cancelled = FALSE]
          BY <4>1 DEF BeginRun
        <5> HIDE DEF n
        <5> QED
          BY <1>0, <1>2, <5>1, <5>2 DEF TheRun
      <4>2. CASE Prompt \/ EndTurn \/ PromptFails \/ ClearHandler \/ Capture \/ ClearOnFlush
        BY <1>0, <1>2, <4>2 DEF Prompt, EndTurn, PromptFails, Finish, ClearHandler, Capture, ClearOnFlush, To, TheRun
      <4>3. CASE StopAndFlush \/ Crash
        BY <1>0, <1>2, <4>3 DEF StopAndFlush, Crash, TheRun
      <4>4. CASE UNCHANGED run
        BY <1>2, <4>4
      <4> QED
        BY <2>2, <4>1, <4>2, <4>3, <4>4
           DEF Next, Updates, RunStep, CloseRound, OnMessageChunk, OnToolCall, OnToolResult, OnLateTerminal, Leave,
               DropTerminal, DispatchPersist, DispatchStitch, DispatchEmit, EndsTaken, EndsTold, Collect, ClosePersist,
               FlushHooked, StopWaited, StopDone
    <3>2. ~bld.open
      BY <3>1 DEF QuietInv
    <3>3. ~Accepts
      BY <3>1 DEF Accepts
    <3>4. \A a \in Closers : closer[a].pc \notin StopPc
      BY <1>0, <3>1 DEF RunInv, StopPc, Closers
    <3>5. ~Crash
      BY <1>0, <1>2 DEF Crash, TheRun
    <3>6. \A a \in Closers : ~EndsTaken(a) /\ ~Collect(a)
      BY <3>4 DEF EndsTaken, Collect, StopPc
    <3>7. ~ClearHandler /\ ~ClearOnFlush
      BY <3>1 DEF ClearHandler, ClearOnFlush, RunAt
    <3>8. UNCHANGED bld
      BY <2>2, <3>3, <3>5, <3>6, <3>7
         DEF Next, Updates, RunStep, CloseRound, OnMessageChunk, OnToolCall, OnToolResult, OnLateTerminal,
             DropTerminal, DispatchPersist, DispatchStitch, DispatchEmit, EndsTold, ClosePersist, BeginRun, Prompt,
             EndTurn, PromptFails, Finish, Capture, FlushHooked, StopAndFlush, StopWaited, StopDone
    <3> QED
      BY <3>2, <3>8
  <2> QED
    BY <2>1, <2>2
<1> QED
  BY <1>1, <1>2 DEF QuietInv

LEMMA EndsNext ==
  ASSUME MaxRuns \in Nat, TypeInv, RunInv, TurnInv, WhoInv, EndsInv, Next
  PROVE  EndsInv'
<1>0. /\ bld \in Builder /\ run \in TheRun /\ closer \in [Closers -> Closer] /\ "run" \in Closers /\ "stop" \in Closers
      /\ rbSeen \in Seen
  BY DEF TypeInv, Closers
<1>2. ASSUME \A a \in Closers : closer'[a].pc = "tell" => closer'[a] = closer[a], rbSeen'.ok = rbSeen.ok,
             run'.n = run.n, run'.res = "ok" => run.res = "ok"
      PROVE  EndsInv'
  BY <1>2 DEF EndsInv
<1>3. ASSUME \A a \in Closers : closer'[a].pc # "tell" PROVE EndsInv'
  BY <1>3 DEF EndsInv
<1>4. ASSUME NEW a \in Closers, EndsTaken(a) PROVE EndsInv'
  <2> DEFINE ev == Notice(Pending(bld), "interrupted", Closing(bld))
  <2>1. closer'[a].h = bld.h /\ closer'[a].ev = ev /\ \A o \in Closers : o # a => closer'[o] = closer[o]
    <3>1. closer' = [closer EXCEPT ![a] = [@ EXCEPT !.pc = "tell", !.h = bld.h, !.ev = ev]]
      BY <1>4 DEF EndsTaken
    <3> HIDE DEF ev
    <3>2. closer[a] \in Closer
      BY <1>0
    <3> QED
      BY <1>0, <3>1, <3>2 DEF Closer
  <2>2. UNCHANGED <<run, rbSeen>>
    BY <1>4 DEF EndsTaken
  <2>3. ev.open # "yes" /\ ev.ids = Pending(bld)
    BY NoticeFields DEF Closing
  <2>4. bld.h \notin rbSeen.ok
    BY DEF WhoInv
  <2>5. ASSUME run.res = "ok" PROVE Pending(bld) = {}
    BY <2>5 DEF TurnInv, Pending, ToSet
  <2> HIDE DEF ev
  <2> QED
    BY <2>1, <2>2, <2>3, <2>4, <2>5 DEF EndsInv
<1>5. ASSUME NEW a \in Closers, NEW pc, Step(a, pc), pc # "tell", rbSeen'.ok = rbSeen.ok,
             run'.n = run.n, run'.res = "ok" => run.res = "ok"
      PROVE  EndsInv'
  <2>1. closer'[a].pc # "tell" /\ \A o \in Closers : o # a => closer'[o] = closer[o]
    BY <1>5, StepCloser
  <2> QED
    BY <1>2, <1>5, <2>1
<1>6. ASSUME NEW a \in Closers, EndsTold(a) PROVE EndsInv'
  <2>1. (IF a = "run" THEN "collect" ELSE "hooked") # "tell"
    OBVIOUS
  <2> QED
    BY <1>5, <1>6, <2>1 DEF EndsTold
<1>7. CASE FlushHooked
  <2>1. closer'["stop"].pc # "tell" /\ \A o \in Closers : o # "stop" => closer'[o] = closer[o]
    BY <1>0, <1>7 DEF FlushHooked, Closer
  <2> QED
    BY <1>2, <1>7, <2>1 DEF FlushHooked
<1>8. ASSUME NEW a \in Closers, Collect(a) PROVE EndsInv'
  <2>1. closer'[a].pc # "tell" /\ \A o \in Closers : o # a => closer'[o] = closer[o]
    BY <1>8, CollectSteps
  <2> QED
    BY <1>2, <1>8, <2>1 DEF Collect
<1>9. ASSUME NEW a \in Closers, ClosePersist(a) PROVE EndsInv'
  <2>1. closer'[a].pc # "tell" /\ \A o \in Closers : o # a => closer'[o] = closer[o]
    BY <1>0, <1>9 DEF ClosePersist, Idle
  <2>2. rbSeen'.ok = rbSeen.ok
    BY <1>0, <1>9 DEF ClosePersist, Write, Seen
  <2> QED
    BY <1>2, <1>9, <2>1, <2>2 DEF ClosePersist
<1>10. CASE BeginRun
  <2>1. closer["stop"].pc = "idle" /\ closer["run"].pc = "idle" /\ UNCHANGED closer
    BY <1>10 DEF BeginRun, RunAt, RunInv
  <2>2. \A a \in Closers : closer'[a].pc # "tell"
    BY <2>1 DEF Closers
  <2> QED
    BY <1>3, <2>2
<1>11. CASE Crash
  <2>1. \A a \in Closers : closer'[a].pc # "tell"
    BY <1>11 DEF Crash, Idle
  <2> QED
    BY <1>3, <2>1
<1>12. CASE EndTurn
  <2>1. Step("run", "ends") /\ run.pc = "prompt" /\ UNCHANGED rbSeen
        /\ Finish(IF run.cancelled \/ Pending(bld) # {} \/ bld.done \o NewRound(bld) = <<>> THEN "error" ELSE "ok")
    BY <1>12 DEF EndTurn, Finish, RunAt
  <2>2. run'.n = run.n /\ (run'.res = "ok" => ~run.cancelled)
    BY <1>0, <2>1 DEF Finish, TheRun
  <2>3. CASE run'.res = "ok"
    <3>1. closer["stop"].pc # "tell" /\ closer'["stop"] = closer["stop"] /\ closer'["run"].pc = "ends"
      BY <1>0, <2>1, <2>2, <2>3, StepCloser DEF RunInv, StopPc
    <3>2. \A a \in Closers : closer'[a].pc # "tell"
      BY <3>1 DEF Closers
    <3> QED
      BY <1>3, <3>2
  <2>4. CASE run'.res # "ok"
    BY <1>0, <1>5, <2>1, <2>2, <2>4
  <2> QED
    BY <2>3, <2>4
<1>13. CASE PromptFails
  <2>1. Step("run", "ends") /\ UNCHANGED rbSeen /\ run'.n = run.n /\ run'.res # "ok"
    BY <1>0, <1>13 DEF PromptFails, Finish, TheRun
  <2> QED
    BY <1>0, <1>5, <2>1
<1>14. CASE ClearHandler
  <2>1. Step("run", "idle") /\ UNCHANGED rbSeen /\ run'.n = run.n /\ run'.res = run.res
    BY <1>0, <1>14 DEF ClearHandler, To, TheRun
  <2> QED
    BY <1>0, <1>5, <2>1
<1>15. CASE StopAndFlush \/ StopWaited \/ StopDone
  <2>1. Step("stop", "wait") \/ Step("stop", "ends") \/ Step("stop", "idle")
    BY <1>15 DEF StopAndFlush, StopWaited, StopDone
  <2>2. run'.n = run.n /\ run'.res = run.res
    BY <1>0, <1>15 DEF StopAndFlush, StopWaited, StopDone, TheRun
  <2>3. rbSeen'.ok = rbSeen.ok
    BY <1>0, <1>15 DEF StopAndFlush, StopWaited, StopDone, Seen
  <2> QED
    BY <1>0, <1>5, <2>1, <2>2, <2>3
<1>16. CASE Capture
  <2>1. UNCHANGED closer /\ run'.n = run.n /\ run'.res = run.res
    BY <1>0, <1>16 DEF Capture, To, TheRun
  <2>2. rbSeen'.ok = rbSeen.ok \/ (rbSeen'.ok = rbSeen.ok \cup {run.n} /\ run.res = "ok")
    BY OkGrows
  <2> QED
    BY <2>1, <2>2 DEF EndsInv
<1>17. CASE Reset \/ Prompt \/ ClearOnFlush
  <2>1. UNCHANGED closer /\ run'.n = run.n /\ (run'.res = "ok" => run.res = "ok")
    BY <1>0, <1>17 DEF Reset, Prompt, ClearOnFlush, To, TheRun
  <2>2. rbSeen'.ok = rbSeen.ok
    BY <1>0, <1>17 DEF Reset, Prompt, ClearOnFlush, Seen
  <2> QED
    BY <1>2, <2>1, <2>2
<1>18. CASE Updates
  <2>1. UNCHANGED <<run, closer>>
    BY <1>18 DEF Updates, OnMessageChunk, OnToolCall, OnToolResult, OnLateTerminal, Leave, DropTerminal,
                 DispatchPersist, DispatchStitch, DispatchEmit
  <2>2. rbSeen'.ok = rbSeen.ok
    <3>1. ~Capture \/ rbSeen'.ok = rbSeen.ok
      <4>1. ASSUME Capture PROVE run' # run
        BY <1>0, <4>1 DEF Capture, RunAt, To, TheRun
      <4> QED
        BY <2>1, <4>1
    <3> QED
      BY <3>1, OkGrows
  <2> QED
    BY <1>2, <2>1, <2>2
<1> QED
  BY <1>4, <1>6, <1>7, <1>8, <1>9, <1>10, <1>11, <1>12, <1>13, <1>14, <1>15, <1>16, <1>17, <1>18
     DEF Next, RunStep, CloseRound

\* After an update the dispatcher has a notice for the handler.
LEMMA LeaveTells ==
  ASSUME NEW b, NEW rows, NEW ev, Leave(b, rows, ev)
  PROVE  disp'.pc # "idle" /\ disp'.ev = ev /\ UNCHANGED live
<1>1. disp'.pc \in {"persist", "emit"} /\ disp'.ev = ev
  BY LeaveFields
<1> QED
  BY <1>1 DEF Leave

LEMMA PromptNext ==
  ASSUME MaxRuns \in Nat, TypeInv, BldInv, RunInv, TurnInv, NewInv, SentInv, QuietInv, PromptView, Next
  PROVE  PromptView'
<1>0. /\ bld \in Builder /\ run \in TheRun /\ disp \in Dispatcher /\ "run" \in Closers /\ "stop" \in Closers
      /\ rbSeen \in Seen /\ rbSeen.got \in [RunIds -> SUBSET Tools]
  BY DEF TypeInv, Closers, Seen
<1>1. SUFFICES ASSUME run'.pc = "prompt", ~run'.cancelled
               PROVE  /\ Shown'.open = bld'.open
                      /\ \A id \in rbSeen'.got[run'.n] : Shown'.tools[id] = "result"
                      /\ \A id \in Tools : Shown'.tools[id] = "started" => id \in Pending(bld)'
  BY DEF PromptView
<1>2. ASSUME run.pc # "idle" PROVE run.n \in RunIds
  <2>1. run.n # 0 /\ run.n \in Ids
    BY <1>0, <1>2 DEF RunInv, TheRun
  <2> QED
    BY <2>1 DEF Ids, RunIds
<1>3. CASE Prompt
  <2>1. /\ run.pc = "wired" /\ disp.pc = "idle" /\ UNCHANGED <<bld, live, disp>> /\ run'.n = run.n
        /\ rbSeen'.got = rbSeen.got
    <3>1. ~ (run' = [run EXCEPT !.pc = "capture", !.res = "error"])
      BY <1>0, <1>1 DEF TheRun
    <3>2. disp.pc = "idle" /\ rbSeen'.got = rbSeen.got
      BY <1>0, <1>3, <3>1 DEF Prompt, Seen
    <3> QED
      BY <1>0, <1>3, <3>2 DEF Prompt, RunAt, To, TheRun
  <2>2. run.n \in RunIds
    BY <1>2, <2>1
  <2>3. Quiet(live[run.n]) /\ ~bld.open /\ rbSeen.got[run.n] = {}
    BY <2>1, <2>2 DEF QuietInv, NewInv
  <2>4. live[run.n].open \in BOOLEAN /\ bld.open \in BOOLEAN
    BY <1>0, <2>2 DEF TypeInv, View, Builder
  <2>5. Shown' = live[run.n]
    BY <2>1 DEF Shown
  <2> QED
    BY <2>1, <2>3, <2>4, <2>5 DEF Quiet, NoStart
<1>4. CASE ~Prompt
  <2>1. UNCHANGED run
    <3>1. CASE BeginRun
      <4> DEFINE n == run.n + 1
      <4>1. run.pc = "idle"
        BY <3>1 DEF BeginRun, RunAt
      <4>2. \/ run' = [run EXCEPT !.n = n, !.pc = "begun", !.res = "", !.cancelled = FALSE]
            \/ run' = [run EXCEPT !.n = n, !.res = "error", !.cancelled = FALSE]
        BY <3>1 DEF BeginRun
      <4> HIDE DEF n
      <4> QED
        BY <1>0, <1>1, <4>1, <4>2 DEF TheRun
    <3>2. CASE Reset \/ EndTurn \/ PromptFails \/ ClearHandler \/ Capture \/ ClearOnFlush \/ Crash
      BY <1>0, <1>1, <3>2 DEF Reset, EndTurn, PromptFails, Finish, ClearHandler, Capture, ClearOnFlush, Crash, To, TheRun
    <3>3. CASE StopAndFlush
      <4> DEFINE c == run.pc # "idle"
      <4>1. run' = [run EXCEPT !.cancelled = c]
        BY <3>3 DEF StopAndFlush
      <4> HIDE DEF c
      <4>2. run'.cancelled = c /\ run'.pc = run.pc
        BY <1>0, <4>1 DEF TheRun
      <4> QED
        BY <1>1, <4>2 DEF c
    <3> QED
      BY <1>4, <3>1, <3>2, <3>3
         DEF Next, Updates, RunStep, CloseRound, OnMessageChunk, OnToolCall, OnToolResult, OnLateTerminal, Leave,
             DropTerminal, DispatchPersist, DispatchStitch, DispatchEmit, EndsTaken, EndsTold, Collect, ClosePersist,
             FlushHooked, StopWaited, StopDone
  <2>2. run.pc = "prompt" /\ ~run.cancelled /\ run.n \in RunIds
    BY <1>1, <1>2, <2>1
  <2>3. /\ Shown.open = bld.open
        /\ \A id \in rbSeen.got[run.n] : Shown.tools[id] = "result"
        /\ \A id \in Tools : Shown.tools[id] = "started" => id \in Pending(bld)
    BY <2>2 DEF PromptView
  <2>4. rbSeen.got[run.n] \cap Pending(bld) = {} /\ rbSeen.got[run.n] \subseteq rbSeen.sent
        /\ rbSeen.got[run.n] \subseteq Tools
    BY <1>0, <2>2 DEF SentInv
  \* The next notice of an update.
  <2>5. ASSUME Accepts, NEW ev, disp'.pc # "idle", disp'.ev = ev, UNCHANGED live
        PROVE  /\ Shown'.open = (IF ev.open = "same" THEN bld.open ELSE ev.open = "yes")
               /\ \A id \in Tools : Shown'.tools[id] = (IF id \in ev.ids THEN ev.as ELSE Shown.tools[id])
    <3>1. Shown = live[run.n] /\ Shown' = Told(live[run.n], ev)
      BY <2>1, <2>5 DEF Shown, Accepts
    <3> QED
      BY <2>3, <3>1, ToldFields
  <2>6. CASE OnMessageChunk
    <3> DEFINE rows == IF bld.calls # <<>> THEN Round(bld) ELSE <<>>
    <3> DEFINE base == IF bld.calls # <<>> THEN [Flushed(bld) EXCEPT !.late = @ \cup Pending(bld)] ELSE bld
    <3> DEFINE b == [base EXCEPT !.text = TRUE, !.open = TRUE]
    <3> DEFINE ev == Notice(Pending(bld), "interrupted", "yes")
    <3>1. Accepts /\ Leave(b, rows, ev)
      BY <2>6 DEF OnMessageChunk
    <3>2. rbSeen'.got = rbSeen.got
      BY <1>0, <2>6 DEF OnMessageChunk, Counted, Seen
    <3>3. base \in Builder
      <4>1. Flushed(bld) \in Builder
        BY <1>0, FlushTypes
      <4>2. Pending(bld) \in SUBSET Tools
        BY <1>0 DEF Pending, ToSet, Builder
      <4> QED
        BY <1>0, <4>1, <4>2 DEF Builder
    <3>4. bld'.open = TRUE
      <4> HIDE DEF base
      <4> QED
        BY <3>1, <3>3 DEF Leave, Builder
    <3>5. disp'.pc # "idle" /\ disp'.ev = ev /\ UNCHANGED live
      <4> HIDE DEF b, rows, ev
      <4> QED
        BY <3>1, LeaveTells
    <3>6. ev.ids = Pending(bld) /\ ev.as = "interrupted" /\ ev.open = "yes"
      BY NoticeFields
    <3> HIDE DEF ev
    <3>7. Shown'.open = TRUE /\ \A id \in Tools : Shown'.tools[id] = IF id \in Pending(bld) THEN "interrupted" ELSE Shown.tools[id]
      BY <2>5, <3>1, <3>5, <3>6
    <3> QED
      BY <2>1, <2>3, <2>4, <3>2, <3>4, <3>7
  <2>7. ASSUME NEW id \in Tools, OnToolCall(id)
        PROVE  /\ Shown'.open = bld'.open
               /\ \A x \in rbSeen'.got[run'.n] : Shown'.tools[x] = "result"
               /\ \A x \in Tools : Shown'.tools[x] = "started" => x \in Pending(bld)'
    <3> DEFINE b == [bld EXCEPT !.calls = Append(@, id), !.open = FALSE]
    <3> DEFINE rows == <<>>
    <3> DEFINE ev == Notice({id}, "started", Closing(bld))
    <3>1. Accepts /\ Leave(b, rows, ev) /\ id \notin rbSeen.sent /\ ~Declared(bld, id)
      BY <2>7 DEF OnToolCall
    <3>2. rbSeen'.got = rbSeen.got
      BY <1>0, <2>7 DEF OnToolCall, Counted, Seen
    <3>3. bld'.open = FALSE /\ bld'.calls = Append(bld.calls, id) /\ bld'.results = bld.results /\ bld.calls \in Seq(Tools)
      BY <1>0, <3>1 DEF Leave, Builder
    <3>4. Pending(bld)' = Pending(bld) \cup {id}
      <4>1. ToSet(bld'.calls) = ToSet(bld.calls) \cup {id}
        BY <3>3, CallsGrow
      <4>2. id \notin bld.results
        BY <3>1 DEF Declared, BldInv
      <4> QED
        BY <3>3, <4>1, <4>2 DEF Pending
    <3>5. disp'.pc # "idle" /\ disp'.ev = ev /\ UNCHANGED live
      <4> HIDE DEF b, rows, ev
      <4> QED
        BY <3>1, LeaveTells
    <3>6. ev.ids = {id} /\ ev.as = "started" /\ ev.open = Closing(bld)
      BY NoticeFields
    <3>7. bld.open \in BOOLEAN
      BY <1>0 DEF Builder
    <3> HIDE DEF ev
    <3>8. Shown'.open = FALSE
      BY <2>5, <3>1, <3>5, <3>6, <3>7 DEF Closing
    <3>9. \A x \in Tools : Shown'.tools[x] = IF x \in {id} THEN "started" ELSE Shown.tools[x]
      BY <2>5, <3>1, <3>5, <3>6
    <3> QED
      BY <2>1, <2>3, <2>4, <3>1, <3>2, <3>3, <3>4, <3>8, <3>9
  \* A terminal.
  <2>8. ASSUME NEW id \in Tools, Accepts, disp'.pc # "idle", disp'.ev = Notice({id}, "result", "same"), UNCHANGED live,
               bld'.open = bld.open, Pending(bld) \subseteq Pending(bld)' \cup {id},
               rbSeen' = [Counted EXCEPT !.sent = @ \cup {id}, !.got[bld.h] = @ \cup {id}]
        PROVE  /\ Shown'.open = bld'.open
               /\ \A x \in rbSeen'.got[run'.n] : Shown'.tools[x] = "result"
               /\ \A x \in Tools : Shown'.tools[x] = "started" => x \in Pending(bld)'
    <3> DEFINE ev == Notice({id}, "result", "same")
    <3>1. ev.ids = {id} /\ ev.as = "result" /\ ev.open = "same" /\ disp'.ev = ev
      BY <2>8, NoticeFields
    <3> HIDE DEF ev
    <3>2. Shown'.open = bld.open /\ \A x \in Tools : Shown'.tools[x] = IF x \in {id} THEN "result" ELSE Shown.tools[x]
      BY <2>5, <2>8, <3>1
    <3>3. rbSeen'.got[run.n] = rbSeen.got[run.n] \cup {id}
      <4> DEFINE sent == rbSeen.sent \cup {id}
      <4> DEFINE g == [rbSeen.got EXCEPT ![bld.h] = @ \cup {id}]
      <4>1. rbSeen' = [Counted EXCEPT !.sent = sent, !.got = g]
        BY <1>0, <2>8 DEF Counted, Seen
      <4> HIDE DEF sent, g
      <4>2. rbSeen'.got = g
        BY <1>0, <4>1 DEF Counted, Seen
      <4>3. bld.h = run.n
        BY <2>2 DEF RunInv
      <4> QED
        BY <1>0, <2>2, <4>2, <4>3 DEF g
    <3> QED
      BY <2>1, <2>3, <2>4, <2>8, <3>2, <3>3
  <2>9. ASSUME NEW id \in Tools, OnToolResult(id)
        PROVE  /\ Shown'.open = bld'.open
               /\ \A x \in rbSeen'.got[run'.n] : Shown'.tools[x] = "result"
               /\ \A x \in Tools : Shown'.tools[x] = "started" => x \in Pending(bld)'
    <3> DEFINE results == bld.results \cup {id}
    <3> DEFINE b == [bld EXCEPT !.results = @ \cup {id}]
    <3> DEFINE rows == IF Pending(b) = {} THEN Round(b) ELSE <<>>
    <3> DEFINE b2 == IF Pending(b) = {} THEN Flushed(b) ELSE b
    <3> DEFINE ev == Notice({id}, "result", "same")
    <3>1. Accepts /\ Leave(b2, rows, ev) /\ rbSeen' = [Counted EXCEPT !.sent = @ \cup {id}, !.got[bld.h] = @ \cup {id}]
      BY <2>9 DEF OnToolResult
    <3>2. b \in Builder /\ b.calls = bld.calls /\ b.results = results /\ b.open = bld.open
      BY <1>0 DEF Builder
    <3>3. Pending(b) = Pending(bld) \ {id}
      BY <3>2 DEF Pending
    <3>4. bld' = b2
      BY <3>1 DEF Leave
    <3>5. disp'.pc # "idle" /\ disp'.ev = ev /\ UNCHANGED live
      <4> HIDE DEF b2, rows, ev
      <4> QED
        BY <3>1, LeaveTells
    <3> HIDE DEF b
    <3>6. bld'.open = bld.open
      BY <3>2, <3>4 DEF Flushed, Builder
    <3>7. Pending(bld) \subseteq Pending(bld)' \cup {id}
      <4>1. CASE Pending(b) = {}
        BY <3>3, <4>1
      <4>2. CASE Pending(b) # {}
        BY <3>3, <3>4, <4>2
      <4> QED
        BY <4>1, <4>2
    <3> HIDE DEF b2, rows
    <3> QED
      BY <2>8, <3>1, <3>5, <3>6, <3>7
  <2>10. ASSUME NEW id \in Tools, OnLateTerminal(id)
         PROVE  /\ Shown'.open = bld'.open
                /\ \A x \in rbSeen'.got[run'.n] : Shown'.tools[x] = "result"
                /\ \A x \in Tools : Shown'.tools[x] = "started" => x \in Pending(bld)'
    <3>1. /\ bld' = [bld EXCEPT !.late = @ \ {id}, !.done = Stitch(@, id)] /\ UNCHANGED live /\ Accepts
          /\ disp' = [Idle EXCEPT !.pc = IF bld.stitch # 0 THEN "stitch" ELSE "emit",
                            !.h = bld.h, !.fn = bld.stitch, !.id = id,
                            !.ev = Notice({id}, "result", "same")]
          /\ rbSeen' = [Counted EXCEPT !.sent = @ \cup {id}, !.got[bld.h] = @ \cup {id}]
      BY <2>10 DEF OnLateTerminal
    <3>2. bld'.open = bld.open /\ bld'.calls = bld.calls /\ bld'.results = bld.results
      BY <1>0, <3>1 DEF Builder
    <3>3. Pending(bld) \subseteq Pending(bld)' \cup {id}
      BY <3>2 DEF Pending
    <3>4. disp'.pc # "idle" /\ disp'.ev = Notice({id}, "result", "same")
      <4> DEFINE ev == Notice({id}, "result", "same")
      <4> HIDE DEF ev
      <4>1. disp' = [Idle EXCEPT !.pc = IF bld.stitch # 0 THEN "stitch" ELSE "emit",
                            !.h = bld.h, !.fn = bld.stitch, !.id = id, !.ev = ev]
        BY <3>1 DEF ev
      <4>2. disp'.pc # "idle" /\ disp'.ev = ev
        BY <4>1 DEF Idle
      <4> QED
        BY <4>2 DEF ev
    <3> QED
      BY <2>8, <3>1, <3>2, <3>3, <3>4
  \* What leaves the view and the builder as they are.
  <2>11. ASSUME Shown' = Shown, bld' = bld, rbSeen'.got = rbSeen.got
         PROVE  /\ Shown'.open = bld'.open
                /\ \A x \in rbSeen'.got[run'.n] : Shown'.tools[x] = "result"
                /\ \A x \in Tools : Shown'.tools[x] = "started" => x \in Pending(bld)'
    BY <2>1, <2>3, <2>11
  <2>12. ASSUME NEW id \in Tools, DropTerminal(id)
         PROVE  Shown' = Shown /\ bld' = bld /\ rbSeen'.got = rbSeen.got
    BY <1>0, <2>1, <2>12 DEF DropTerminal, Counted, Seen, Shown
  <2>13. CASE DispatchPersist \/ DispatchStitch
    <3>1. disp' = [disp EXCEPT !.pc = "emit", !.rows = <<>>, !.fn = 0, !.id = ""] /\ UNCHANGED <<bld, live>>
          /\ disp.pc # "idle"
      BY <2>13 DEF DispatchPersist, DispatchStitch
    <3>2. disp'.pc # "idle" /\ disp'.ev = disp.ev
      BY <1>0, <3>1 DEF Dispatcher
    <3>3. rbSeen'.got = rbSeen.got
      BY <1>0, <2>13 DEF DispatchPersist, DispatchStitch, Write, Seen
    <3> QED
      BY <2>1, <2>11, <3>1, <3>2, <3>3 DEF Shown
  <2>14. CASE DispatchEmit
    <3>1. disp' = Idle /\ UNCHANGED <<bld, rbSeen>> /\ disp.pc = "emit" /\ Tell(disp.h, disp.ev)
      BY <2>14 DEF DispatchEmit
    <3>2. disp.h = run.n
      BY <2>2, <3>1 DEF TurnInv
    <3>3. live'[run.n] = Told(live[run.n], disp.ev)
      BY <2>2, <3>1, <3>2, EarlierIds, TellFields
    <3>4. disp'.pc = "idle"
      BY <3>1 DEF Idle
    <3> QED
      BY <2>1, <2>11, <3>1, <3>3, <3>4 DEF Shown
  <2>15. Updates
    <3>1. closer["run"].pc = "idle" /\ closer["stop"].pc \notin StopPc
      BY <2>2 DEF RunInv
    <3>2. \A a \in Closers : ~CloseRound(a)
      BY <3>1 DEF CloseRound, EndsTaken, EndsTold, Collect, ClosePersist, Closers, StopPc
    <3>3. ~FlushHooked /\ ~StopDone /\ ~StopWaited
      BY <2>2, <3>1 DEF FlushHooked, StopDone, StopWaited, RunAt, StopPc
    <3>4. ~Crash
      BY <1>0, <1>1 DEF Crash, TheRun
    <3>5. ~StopAndFlush
      <4> DEFINE c == run.pc # "idle"
      <4>1. ASSUME StopAndFlush PROVE run' = [run EXCEPT !.cancelled = c]
        BY <4>1 DEF StopAndFlush
      <4> HIDE DEF c
      <4>2. ASSUME StopAndFlush PROVE run'.cancelled = c
        BY <1>0, <4>1, <4>2 DEF TheRun
      <4> QED
        BY <1>1, <2>2, <4>2 DEF c
    <3>6. ~RunStep
      <4>1. ASSUME EndTurn \/ PromptFails PROVE FALSE
        BY <1>0, <1>1, <4>1 DEF EndTurn, PromptFails, Finish, TheRun
      <4> QED
        BY <1>4, <2>2, <4>1 DEF RunStep, BeginRun, Reset, ClearHandler, Capture, ClearOnFlush, RunAt
    <3> QED
      BY <3>2, <3>3, <3>4, <3>5, <3>6 DEF Next
  <2> QED
    BY <2>6, <2>7, <2>9, <2>10, <2>11, <2>12, <2>13, <2>14, <2>15 DEF Updates
<1> QED
  BY <1>3, <1>4

\* While a success is being closed only the closers work, on a builder without calls.
LEMMA DoneSteps ==
  ASSUME MaxRuns \in Nat, TypeInv, TurnInv, Next, run'.res = "ok", run'.pc \in {"closing", "capture"}
  PROVE  \/ EndTurn
         \/ ClearHandler /\ run.res = "ok" /\ run.pc = "closing"
         \/ /\ run.res = "ok" /\ run'.pc = run.pc /\ run.pc \in {"closing", "capture"} /\ run'.n = run.n
            /\ (\E a \in Closers : CloseRound(a)) \/ FlushHooked \/ StopAndFlush \/ StopWaited \/ StopDone
<1>0. run \in TheRun
  BY DEF TypeInv
<1>1. ASSUME BeginRun PROVE FALSE
  <2> DEFINE n == run.n + 1
  <2>1. \/ run' = [run EXCEPT !.n = n, !.pc = "begun", !.res = "", !.cancelled = FALSE]
        \/ run' = [run EXCEPT !.n = n, !.res = "error", !.cancelled = FALSE]
    BY <1>1 DEF BeginRun
  <2> HIDE DEF n
  <2>2. run'.res # "ok"
    BY <1>0, <2>1 DEF TheRun
  <2> QED
    BY <2>2
<1>2. ~Reset /\ ~Prompt /\ ~PromptFails /\ ~Capture /\ ~ClearOnFlush /\ ~Crash
  BY <1>0 DEF Reset, Prompt, PromptFails, Finish, Capture, ClearOnFlush, Crash, To, TheRun
<1>3. ASSUME Updates PROVE FALSE
  <2>1. UNCHANGED run
    BY <1>3 DEF Updates, OnMessageChunk, OnToolCall, OnToolResult, OnLateTerminal, Leave, DropTerminal,
                DispatchPersist, DispatchStitch, DispatchEmit
  <2>2. turn = 0 /\ disp.pc = "idle"
    BY <2>1 DEF TurnInv
  <2> QED
    BY <1>3, <2>2 DEF Updates, OnMessageChunk, OnToolCall, OnToolResult, OnLateTerminal, DropTerminal, Accepts,
                      DispatchPersist, DispatchStitch, DispatchEmit
<1>4. ASSUME ClearHandler PROVE run.res = "ok" /\ run.pc = "closing"
  BY <1>0, <1>4 DEF ClearHandler, To, RunAt, TheRun
<1>5. ASSUME (\E a \in Closers : CloseRound(a)) \/ FlushHooked \/ StopWaited \/ StopDone PROVE UNCHANGED run
  BY <1>5 DEF CloseRound, EndsTaken, EndsTold, Collect, ClosePersist, FlushHooked, StopWaited, StopDone
<1>6. ASSUME StopAndFlush PROVE run'.res = run.res /\ run'.pc = run.pc /\ run'.n = run.n
  BY <1>0, <1>6 DEF StopAndFlush, TheRun
<1> QED
  BY <1>1, <1>2, <1>3, <1>4, <1>5, <1>6 DEF Next, RunStep

\* What is told a Run that succeeds: at most that its bubble is closed.
LEMMA EndsTell ==
  ASSUME MaxRuns \in Nat, TypeInv, EndsInv, NEW a \in Closers, EndsTold(a), NEW m \in RunIds,
         closer[a].h = m => m \in rbSeen.ok \/ (m = run.n /\ run.res = "ok")
  PROVE  /\ \A id \in Tools : live'[m].tools[id] = live[m].tools[id]
         /\ live'[m].open => live[m].open
         /\ closer[a].h = m /\ closer[a].ev.open = "no" => ~live'[m].open
<1>1. closer[a].pc = "tell" /\ Tell(closer[a].h, closer[a].ev) /\ closer[a].h \in Ids
  BY EarlierIds DEF EndsTold
<1>2. live'[m] = IF m = closer[a].h THEN Told(live[m], closer[a].ev) ELSE live[m]
  BY <1>1, TellFields
<1>3. CASE m # closer[a].h
  BY <1>2, <1>3
<1>4. CASE m = closer[a].h
  <2>1. closer[a].ev.open # "yes" /\ closer[a].ev.ids = {}
    BY <1>1, <1>4 DEF EndsInv
  <2>2. /\ live'[m].open = (IF closer[a].ev.open = "same" THEN live[m].open ELSE closer[a].ev.open = "yes")
        /\ \A id \in Tools : live'[m].tools[id] = (IF id \in closer[a].ev.ids THEN closer[a].ev.as ELSE live[m].tools[id])
    BY <1>2, <1>4, ToldFields
  <2> QED
    BY <2>1, <2>2
<1> QED
  BY <1>3, <1>4

\* Ended, in the next state, of a Run of this one.
EndedNext(n) == closer'["stop"].pc = "tell" /\ closer'["stop"].ev.open = "no" /\ closer'["stop"].h = n

LEMMA DoneNext ==
  ASSUME MaxRuns \in Nat, TypeInv, BldInv, RunInv, TurnInv, WhoInv, EndsInv, PromptView, DoneView, Next
  PROVE  DoneView'
<1>0. /\ bld \in Builder /\ run \in TheRun /\ rbSeen \in Seen /\ closer \in [Closers -> Closer]
      /\ "run" \in Closers /\ "stop" \in Closers /\ closer["run"] \in Closer /\ closer["stop"] \in Closer
      /\ rbSeen.got \in [RunIds -> SUBSET Tools]
  BY DEF TypeInv, Closers, Seen
<1>1. SUFFICES ASSUME run'.res = "ok", run'.pc \in {"closing", "capture"}
               PROVE  /\ \A id \in rbSeen'.got[run'.n] : live'[run'.n].tools[id] = "result"
                      /\ NoStart(live'[run'.n])
                      /\ live'[run'.n].open => \/ closer'["run"].pc = "ends" /\ bld'.open
                                               \/ closer'["run"].pc = "tell" /\ closer'["run"].ev.open = "no"
                                               \/ EndedNext(run'.n)
                      /\ bld'.open => closer'["run"].pc = "ends"
  BY DEF DoneView, Ended, EndedNext
<1>2. CASE EndTurn
  <2>1. /\ UNCHANGED <<bld, live, disp, rbSeen>> /\ Step("run", "ends") /\ run.pc = "prompt" /\ disp.pc = "idle"
        /\ Finish(IF run.cancelled \/ Pending(bld) # {} \/ bld.done \o NewRound(bld) = <<>> THEN "error" ELSE "ok")
    BY <1>2 DEF EndTurn, Finish, RunAt
  <2>2. run'.n = run.n /\ ~run.cancelled /\ Pending(bld) = {}
    BY <1>0, <1>1, <2>1 DEF Finish, TheRun
  <2>3. closer'["run"].pc = "ends"
    BY <1>0, <2>1, StepCloser
  <2>4. Shown = live[run.n]
    BY <2>1 DEF Shown
  <2>5. /\ live[run.n].open = bld.open
        /\ \A id \in rbSeen.got[run.n] : live[run.n].tools[id] = "result"
        /\ \A id \in Tools : live[run.n].tools[id] = "started" => id \in Pending(bld)
    BY <2>1, <2>2, <2>4 DEF PromptView
  <2> QED
    BY <2>1, <2>2, <2>3, <2>5 DEF NoStart
<1>3. ASSUME run.res = "ok", run.pc \in {"closing", "capture"}
      PROVE  /\ \A id \in rbSeen.got[run.n] : live[run.n].tools[id] = "result"
             /\ NoStart(live[run.n])
             /\ live[run.n].open => \/ closer["run"].pc = "ends" /\ bld.open
                                    \/ closer["run"].pc = "tell" /\ closer["run"].ev.open = "no"
                                    \/ Ended(run.n)
             /\ bld.open => closer["run"].pc = "ends"
  BY <1>3 DEF DoneView
<1>4. CASE ClearHandler /\ run.res = "ok" /\ run.pc = "closing"
  <2>1. UNCHANGED <<live, rbSeen>> /\ bld' = [bld EXCEPT !.h = 0] /\ closer["run"].pc = "done" /\ Step("run", "idle")
    BY <1>4 DEF ClearHandler
  <2>2. run'.n = run.n /\ bld'.open = bld.open
    BY <1>0, <1>4, <2>1 DEF ClearHandler, To, TheRun, Builder
  <2>3. closer'["stop"] = closer["stop"]
    BY <1>0, <2>1, StepCloser
  <2> QED
    BY <1>3, <1>4, <2>1, <2>2, <2>3 DEF Ended, EndedNext
<1>5. ASSUME run.res = "ok", run.pc \in {"closing", "capture"}, run'.n = run.n, run'.pc = run.pc,
             (\E a \in Closers : CloseRound(a)) \/ FlushHooked \/ StopAndFlush \/ StopWaited \/ StopDone
      PROVE  /\ \A id \in rbSeen'.got[run.n] : live'[run.n].tools[id] = "result"
             /\ NoStart(live'[run.n])
             /\ live'[run.n].open => \/ closer'["run"].pc = "ends" /\ bld'.open
                                     \/ closer'["run"].pc = "tell" /\ closer'["run"].ev.open = "no"
                                     \/ EndedNext(run.n)
             /\ bld'.open => closer'["run"].pc = "ends"
  <2>1. /\ \A id \in rbSeen.got[run.n] : live[run.n].tools[id] = "result"
        /\ NoStart(live[run.n])
        /\ live[run.n].open => \/ closer["run"].pc = "ends" /\ bld.open
                               \/ closer["run"].pc = "tell" /\ closer["run"].ev.open = "no"
                               \/ Ended(run.n)
        /\ bld.open => closer["run"].pc = "ends"
    BY <1>3, <1>5
  <2>2. run.n \in RunIds
    <3>1. run.n # 0 /\ run.n \in Ids
      BY <1>0, <1>5 DEF RunInv, TheRun
    <3> QED
      BY <3>1 DEF Ids, RunIds
  <2>3. rbSeen'.got[run.n] = rbSeen.got[run.n] /\ rbSeen.got[run.n] \subseteq Tools
    <3>1. ~Accepts
      BY <1>5 DEF TurnInv, Accepts
    <3> QED
      BY <1>0, <2>2, <3>1, GotGrows
  <2>4. ASSUME UNCHANGED <<live, bld>>, closer'["run"].pc = closer["run"].pc \/ closer["run"].pc \notin {"ends", "tell"},
               closer'["run"].ev = closer["run"].ev \/ closer["run"].pc # "tell",
               closer["stop"].pc = "tell" => closer'["stop"] = closer["stop"]
        PROVE  /\ live'[run.n].open => \/ closer'["run"].pc = "ends" /\ bld'.open
                                       \/ closer'["run"].pc = "tell" /\ closer'["run"].ev.open = "no"
                                       \/ EndedNext(run.n)
               /\ bld'.open => closer'["run"].pc = "ends"
    BY <2>1, <2>4 DEF Ended, EndedNext
  <2>5. ASSUME NEW a \in Closers, EndsTaken(a)
        PROVE  /\ UNCHANGED live
               /\ live'[run.n].open => \/ closer'["run"].pc = "ends" /\ bld'.open
                                       \/ closer'["run"].pc = "tell" /\ closer'["run"].ev.open = "no"
                                       \/ EndedNext(run.n)
               /\ ~bld'.open
    <3> DEFINE ev == Notice(Pending(bld), "interrupted", Closing(bld))
    <3>1. closer'[a].pc = "tell" /\ closer'[a].h = bld.h /\ closer'[a].ev = ev /\ \A o \in Closers : o # a => closer'[o] = closer[o]
      <4>1. closer' = [closer EXCEPT ![a] = [@ EXCEPT !.pc = "tell", !.h = bld.h, !.ev = ev]]
        BY <2>5 DEF EndsTaken
      <4> HIDE DEF ev
      <4>2. closer[a] \in Closer
        BY <1>0
      <4> QED
        BY <1>0, <4>1, <4>2 DEF Closer
    <3>2. UNCHANGED live /\ bld' = [bld EXCEPT !.open = FALSE] /\ closer[a].pc = "ends"
      BY <2>5 DEF EndsTaken
    <3>3. ~bld'.open
      BY <1>0, <3>2 DEF Builder
    <3>4. bld.open => ev.open = "no"
      BY NoticeFields DEF Closing
    <3> HIDE DEF ev
    <3>5. CASE a = "run"
      <4>1. closer'["stop"] = closer["stop"] /\ closer["run"].pc = "ends"
        BY <1>0, <3>1, <3>2, <3>5
      <4> QED
        BY <2>1, <3>1, <3>2, <3>3, <3>4, <3>5, <4>1 DEF Ended, EndedNext
    <3>6. CASE a = "stop"
      <4>1. closer'["run"] = closer["run"] /\ closer["stop"].pc = "ends"
        BY <1>0, <3>1, <3>2, <3>6
      <4>2. bld.open => bld.h = run.n
        <5>1. bld.open => closer["run"].pc # "idle"
          BY <2>1
        <5> QED
          BY <5>1 DEF RunInv
      <4> QED
        BY <2>1, <3>1, <3>2, <3>3, <3>4, <3>6, <4>1, <4>2 DEF Ended, EndedNext
    <3> QED
      BY <3>5, <3>6 DEF Closers
  <2>6. ASSUME NEW a \in Closers, EndsTold(a)
        PROVE  /\ \A id \in Tools : live'[run.n].tools[id] = live[run.n].tools[id]
               /\ live'[run.n].open => \/ closer'["run"].pc = "ends" /\ bld'.open
                                       \/ closer'["run"].pc = "tell" /\ closer'["run"].ev.open = "no"
                                       \/ EndedNext(run.n)
               /\ bld'.open => closer'["run"].pc = "ends"
    <3>1. closer[a].pc = "tell" /\ UNCHANGED bld /\ Step(a, IF a = "run" THEN "collect" ELSE "hooked")
      BY <2>6 DEF EndsTold
    <3>2. \A o \in Closers : o # a => closer'[o] = closer[o]
      BY <3>1, StepCloser
    <3>3. /\ \A id \in Tools : live'[run.n].tools[id] = live[run.n].tools[id]
          /\ live'[run.n].open => live[run.n].open
          /\ closer[a].h = run.n /\ closer[a].ev.open = "no" => ~live'[run.n].open
      BY <1>5, <2>2, <2>6, EndsTell
    <3>4. CASE a = "run"
      <4>1. closer["run"].h = run.n /\ closer'["stop"] = closer["stop"]
        BY <1>0, <3>1, <3>2, <3>4 DEF WhoInv
      <4> QED
        BY <2>1, <3>1, <3>3, <3>4, <4>1 DEF Ended, EndedNext
    <3>5. CASE a = "stop"
      <4>1. closer'["run"] = closer["run"]
        BY <1>0, <3>2, <3>5
      <4> QED
        BY <2>1, <3>1, <3>3, <3>5, <4>1 DEF Ended, EndedNext
    <3> QED
      BY <3>4, <3>5, <3>3 DEF Closers
  <2>7. ASSUME NEW a \in Closers, Collect(a)
        PROVE  /\ UNCHANGED live
               /\ live'[run.n].open => \/ closer'["run"].pc = "ends" /\ bld'.open
                                       \/ closer'["run"].pc = "tell" /\ closer'["run"].ev.open = "no"
                                       \/ EndedNext(run.n)
               /\ bld'.open => closer'["run"].pc = "ends"
    <3>1. closer[a].pc = "collect" /\ UNCHANGED live /\ bld' = [Flushed(bld) EXCEPT !.done = <<>>]
      BY <2>7 DEF Collect
    <3>2. bld'.open = bld.open
      <4>1. Flushed(bld) \in Builder /\ Flushed(bld).open = bld.open
        BY <1>0, FlushTypes DEF Flushed, Builder
      <4> QED
        BY <3>1, <4>1 DEF Builder
    <3>3. \A o \in Closers : o # a => closer'[o] = closer[o]
      BY <2>7, CollectSteps
    <3>4. CASE a = "run"
      <4>1. closer'["stop"] = closer["stop"]
        BY <1>0, <3>3, <3>4
      <4> QED
        BY <2>1, <3>1, <3>2, <3>4, <4>1 DEF Ended, EndedNext
    <3>5. CASE a = "stop"
      <4>1. closer'["run"] = closer["run"]
        BY <1>0, <3>3, <3>5
      <4> QED
        BY <2>1, <3>1, <3>2, <3>5, <4>1 DEF Ended, EndedNext
    <3> QED
      BY <3>4, <3>5 DEF Closers
  <2>8. ASSUME NEW a \in Closers, ClosePersist(a)
        PROVE  /\ UNCHANGED live
               /\ live'[run.n].open => \/ closer'["run"].pc = "ends" /\ bld'.open
                                       \/ closer'["run"].pc = "tell" /\ closer'["run"].ev.open = "no"
                                       \/ EndedNext(run.n)
               /\ bld'.open => closer'["run"].pc = "ends"
    <3>1. closer[a].pc = "persist" /\ UNCHANGED <<live, bld>>
          /\ \A o \in Closers : o # a => closer'[o] = closer[o]
      BY <1>0, <2>8 DEF ClosePersist
    <3>2. CASE a = "run"
      <4>1. closer'["stop"] = closer["stop"] /\ closer["run"].pc = "persist"
        BY <1>0, <3>1, <3>2
      <4> QED
        BY <2>4, <3>1, <4>1
    <3>3. CASE a = "stop"
      <4>1. closer'["run"] = closer["run"] /\ closer["stop"].pc = "persist"
        BY <1>0, <3>1, <3>3
      <4> QED
        BY <2>4, <3>1, <4>1
    <3> QED
      BY <3>2, <3>3 DEF Closers
  <2>9. ASSUME FlushHooked \/ StopAndFlush \/ StopWaited \/ StopDone
        PROVE  /\ UNCHANGED live
               /\ live'[run.n].open => \/ closer'["run"].pc = "ends" /\ bld'.open
                                       \/ closer'["run"].pc = "tell" /\ closer'["run"].ev.open = "no"
                                       \/ EndedNext(run.n)
               /\ bld'.open => closer'["run"].pc = "ends"
    <3>1. UNCHANGED <<live, bld>> /\ closer["stop"].pc # "tell"
      BY <2>9 DEF FlushHooked, StopAndFlush, StopWaited, StopDone
    <3>2. closer'["run"] = closer["run"]
      BY <1>0, <2>9 DEF FlushHooked, StopAndFlush, StopWaited, StopDone, Step
    <3> QED
      BY <2>4, <3>1, <3>2
  <2> QED
    BY <1>5, <2>1, <2>3, <2>5, <2>6, <2>7, <2>8, <2>9 DEF CloseRound, NoStart
<1> QED
  BY <1>1, <1>2, <1>4, <1>5, DoneSteps

LEMMA OkNext ==
  ASSUME MaxRuns \in Nat, TypeInv, RunInv, TurnInv, WhoInv, rbSeen.stray \/ SafeInv, EndsInv, DoneView, OkView, Next
  PROVE  OkView'
<1>0. /\ run \in TheRun /\ closer \in [Closers -> Closer] /\ "run" \in Closers /\ "stop" \in Closers
      /\ rbSeen \in Seen /\ rbSeen.got \in [RunIds -> SUBSET Tools]
  BY DEF TypeInv, Closers, Seen
<1>1. SUFFICES ASSUME NEW n \in rbSeen'.ok
               PROVE  /\ rbSeen'.stray \/ n \in rbSeen'.behind \/ \A id \in rbSeen'.got[n] : live'[n].tools[id] = "result"
                      /\ NoStart(live'[n])
                      /\ live'[n].open => Ended(n)'
  BY DEF OkView
<1>2. CASE n \notin rbSeen.ok
  <2>1. /\ n = run.n /\ UNCHANGED <<live, closer>> /\ run.pc = "capture" /\ run.res = "ok"
        /\ rbSeen'.got = rbSeen.got
    BY <1>1, <1>2, OkGrows
  <2>2. closer["run"].pc = "idle"
    BY <2>1 DEF RunInv
  <2>3. /\ \A id \in rbSeen.got[n] : live[n].tools[id] = "result"
        /\ NoStart(live[n])
        /\ live[n].open => Ended(n)
    BY <2>1, <2>2 DEF DoneView
  <2> QED
    BY <2>1, <2>3 DEF Ended
<1>3. CASE n \in rbSeen.ok
  <2>1. n \in RunIds
    <3>1. n \in 1 .. run.n /\ run.n \in Ids
      BY <1>0, <1>3 DEF WhoInv, TheRun
    <3> QED
      BY <3>1 DEF Ids, RunIds
  <2>2. /\ rbSeen.stray \/ n \in rbSeen.behind \/ \A id \in rbSeen.got[n] : live[n].tools[id] = "result"
        /\ NoStart(live[n])
        /\ live[n].open => Ended(n)
    BY <1>3 DEF OkView
  <2>02. rbSeen.stray => rbSeen'.stray
    BY StrayStays
  <2>3. rbSeen'.got[n] = rbSeen.got[n] /\ rbSeen.got[n] \subseteq Tools /\ (n \in rbSeen.behind => n \in rbSeen'.behind)
    <3>1. bld.h # n
      BY <1>3 DEF WhoInv
    <3> QED
      BY <1>0, <2>1, <3>1, GotGrows, OkGrows
  <2>4. CASE DispatchEmit
    <3>1. disp.pc = "emit" /\ Tell(disp.h, disp.ev) /\ UNCHANGED closer
      BY <2>4 DEF DispatchEmit
    <3>2. disp.h # n
      BY <1>3, <3>1 DEF WhoInv
    <3>3. live'[n] = live[n]
      BY <2>1, <3>1, <3>2, EarlierIds, TellFields
    <3> QED
      BY <2>2, <2>02, <2>3, <3>1, <3>3 DEF Ended
  <2>5. ASSUME NEW a \in Closers, EndsTold(a)
        PROVE  /\ rbSeen'.stray \/ n \in rbSeen'.behind \/ \A id \in rbSeen'.got[n] : live'[n].tools[id] = "result"
               /\ NoStart(live'[n])
               /\ live'[n].open => Ended(n)'
    <3>1. /\ \A id \in Tools : live'[n].tools[id] = live[n].tools[id]
          /\ live'[n].open => live[n].open
          /\ closer[a].h = n /\ closer[a].ev.open = "no" => ~live'[n].open
      BY <1>3, <2>1, <2>5, EndsTell
    <3>2. Step(a, IF a = "run" THEN "collect" ELSE "hooked")
      BY <2>5 DEF EndsTold
    <3>3. live'[n].open => Ended(n)'
      <4>1. CASE a = "run"
        <5>1. closer'["stop"] = closer["stop"]
          BY <1>0, <3>2, <4>1, StepCloser
        <5> QED
          BY <2>2, <3>1, <5>1 DEF Ended
      <4>2. CASE a = "stop"
        BY <2>2, <3>1, <4>2 DEF Ended
      <4> QED
        BY <4>1, <4>2 DEF Closers
    <3> QED
      BY <2>2, <2>02, <2>3, <3>1, <3>3 DEF NoStart
  <2>6. CASE Crash
    <3>1. Quiet(live'[n]) /\ \A id \in Tools : Has(disk, id, TRUE) => live'[n].tools[id] = "result"
      BY <2>1, <2>6, Reloaded
    <3>2. ~rbSeen.stray /\ n \notin rbSeen.behind => \A id \in rbSeen.got[n] : Has(disk, id, TRUE)
      BY <1>3 DEF SafeInv, Safe, Has
    <3> QED
      BY <2>02, <2>3, <3>1, <3>2 DEF Quiet
  <2>7. CASE live' = live /\ ~DispatchEmit /\ ~Crash /\ ~ (\E a \in Closers : EndsTold(a))
    <3>1. closer["stop"].pc = "tell" => closer'["stop"] = closer["stop"]
      <4>1. ASSUME NEW a \in Closers, NEW pc, Step(a, pc), a = "stop" => closer["stop"].pc # "tell"
            PROVE  closer["stop"].pc = "tell" => closer'["stop"] = closer["stop"]
        BY <1>0, <4>1, StepCloser
      <4>2. ASSUME NEW a \in Closers, EndsTaken(a) \/ Collect(a) \/ ClosePersist(a)
            PROVE  closer["stop"].pc = "tell" => closer'["stop"] = closer["stop"]
        <5>1. (\A o \in Closers : o # a => closer'[o] = closer[o]) /\ closer[a].pc # "tell"
          BY <1>0, <4>2 DEF EndsTaken, Collect, ClosePersist
        <5> QED
          BY <1>0, <5>1
      <4>3. CASE EndTurn \/ PromptFails \/ ClearHandler
        BY <1>0, <4>1, <4>3 DEF EndTurn, PromptFails, Finish, ClearHandler
      <4>4. CASE FlushHooked \/ StopAndFlush \/ StopWaited \/ StopDone
        BY <4>4 DEF FlushHooked, StopAndFlush, StopWaited, StopDone
      <4>5. CASE UNCHANGED closer
        BY <4>5
      <4> QED
        BY <2>7, <4>2, <4>3, <4>4, <4>5
           DEF Next, Updates, RunStep, CloseRound, OnMessageChunk, OnToolCall, OnToolResult, OnLateTerminal, Leave,
               DropTerminal, DispatchPersist, DispatchStitch, BeginRun, Reset, Prompt, Capture, ClearOnFlush
    <3> QED
      BY <2>2, <2>02, <2>3, <2>7, <3>1 DEF Ended
  <2> QED
    BY <2>4, <2>5, <2>6, <2>7, LiveSteps
<1> QED
  BY <1>2, <1>3

(***************************************************************************)
(* The history is kept.                                                    *)
(***************************************************************************)
HistoryInv == DrainInv /\ DiskInv /\ QueueInv /\ HolderInv /\ SafeInv /\ LastInv /\ GotInv /\ LateInv
RoundInv == TypeInv /\ PhaseInv /\ NewInv /\ ViewInv /\ (rbSeen.stray \/ HistoryInv)

HistorySafe == HistoryPaired /\ PromptsKept /\ SuccessIsSettled

\* The three safety properties of the history, in every state that the invariant allows.
LEMMA RoundSafe == ASSUME RoundInv PROVE HistorySafe
<1>0. disk \in Seq(Row) /\ DOMAIN disk \subseteq Int
  BY DEF RoundInv, TypeInv
<1>1. rbSeen.stray \/ OneRowPerCall
  <2>1. ASSUME NEW t \in DOMAIN disk, NEW u \in DOMAIN disk, t < u, IsTool(disk[t]), IsTool(disk[u]), disk[t].id = disk[u].id
        PROVE  rbSeen.stray
    <3>. SUFFICES ASSUME ~rbSeen.stray PROVE FALSE
      OBVIOUS
    <3>1. PICK i \in DOMAIN disk : Answers(disk, t, i)
      BY <2>1 DEF RoundInv, HistoryInv, DiskInv, Ordered
    <3>2. PICK j \in DOMAIN disk : Answers(disk, u, j)
      BY <2>1 DEF RoundInv, HistoryInv, DiskInv, Ordered
    <3>3. Ordered(disk)
      BY DEF RoundInv, HistoryInv, DiskInv
    <3>4. /\ IsCall(disk[i]) /\ t - i \in DOMAIN disk[i].calls /\ disk[t].id = disk[i].calls[t - i]
          /\ IsCall(disk[j]) /\ u - j \in DOMAIN disk[j].calls /\ disk[u].id = disk[j].calls[u - j]
      BY <3>1, <3>2 DEF Answers
    <3>5. i = j
      BY <2>1, <3>3, <3>4 DEF Ordered
    <3>6. t - i = u - i
      BY <2>1, <3>3, <3>4, <3>5 DEF Ordered, Distinct
    <3> QED
      BY <1>0, <2>1, <3>6
  <2> QED
    BY <2>1 DEF OneRowPerCall, IsTool
<1>2. HistoryPaired
  <2>1. rbSeen.stray \/ rbSeen.torn \/ AllPaired(disk)
    BY DEF RoundInv, HistoryInv, DiskInv
  <2> QED
    BY <1>1, <2>1 DEF HistoryPaired, AllPaired, Broken, PairedAt, IsCall, IsTool
<1>3. PromptsKept
  BY DEF RoundInv, HistoryInv, DiskInv, Prompted, PromptsKept
<1>4. SuccessIsSettled
  <2>1. ASSUME NEW n \in rbSeen.ok
        PROVE  /\ rbSeen.stray \/ n \in rbSeen.behind \/ \A id \in rbSeen.got[n] :
                    Has(disk, id, TRUE) /\ live[n].tools[id] = "result"
               /\ closer["stop"].pc # "tell" => ~live[n].open /\ NoStart(live[n])
    <3>1. rbSeen.stray \/ n \in rbSeen.behind \/ \A id \in rbSeen.got[n] : Has(disk, id, TRUE)
      BY DEF RoundInv, HistoryInv, SafeInv, Safe, Has
    <3>2. /\ rbSeen.stray \/ n \in rbSeen.behind \/ \A id \in rbSeen.got[n] : live[n].tools[id] = "result"
          /\ NoStart(live[n])
          /\ live[n].open => closer["stop"].pc = "tell"
      BY DEF RoundInv, ViewInv, OkView, Ended
    <3> QED
      BY <3>1, <3>2
  <2> QED
    BY <2>1 DEF SuccessIsSettled, Has, NoStart
<1> QED
  BY <1>2, <1>3, <1>4 DEF HistorySafe

LEMMA RoundStutter == ASSUME RoundInv, UNCHANGED rbVars PROVE RoundInv'
<1>0. UNCHANGED bld /\ UNCHANGED disk /\ UNCHANGED live /\ UNCHANGED disp /\ UNCHANGED run /\ UNCHANGED closer
      /\ UNCHANGED turn /\ UNCHANGED rbSeen
  BY DEF rbVars
<1>1. TypeInv => TypeInv'
  BY <1>0 DEF TypeInv
<1>2. BldInv => BldInv'
  BY <1>0 DEF BldInv, Pending
<1>3. RunInv => RunInv'
  BY <1>0 DEF RunInv
<1>4. TurnInv => TurnInv'
  BY <1>0 DEF TurnInv
<1>5. WhoInv => WhoInv'
  BY <1>0 DEF WhoInv
<1>6. DiskInv => DiskInv'
  BY <1>0 DEF DiskInv
<1>7. QueueInv => QueueInv'
  BY <1>0 DEF QueueInv
<1>8. HolderInv => HolderInv'
  BY <1>0 DEF HolderInv, Held, InBld, OnDisk, InDisp, InRun, InStop
<1>9. NewInv => NewInv'
  BY <1>0 DEF NewInv
<1>10. SafeInv => SafeInv'
  BY <1>0 DEF SafeInv
<1>11. LastInv => LastInv'
  BY <1>0 DEF LastInv
<1>12. GotInv => GotInv'
  BY <1>0 DEF GotInv, Clean, Handed
<1>13. LateInv => LateInv'
  BY <1>0 DEF LateInv, Clean
<1>14. SentInv => SentInv'
  BY <1>0 DEF SentInv, Pending
<1>15. QuietInv => QuietInv'
  BY <1>0 DEF QuietInv
<1>16. EndsInv => EndsInv'
  BY <1>0 DEF EndsInv
<1>17. PromptView => PromptView'
  BY <1>0 DEF PromptView, Shown, Pending
<1>18. DoneView => DoneView'
  BY <1>0 DEF DoneView, Ended
<1>19. OkView => OkView'
  BY <1>0 DEF OkView, Ended
<1>20. DrainInv => DrainInv'
  BY <1>0 DEF DrainInv
<1>21. rbSeen.stray => rbSeen'.stray
  BY <1>0
<1> QED
  BY <1>1, <1>2, <1>3, <1>4, <1>5, <1>6, <1>7, <1>8, <1>9, <1>10, <1>11, <1>12, <1>13, <1>14, <1>15, <1>16, <1>17, <1>18, <1>19,
     <1>20, <1>21
     DEF RoundInv, HistoryInv, PhaseInv, ViewInv

LEMMA RoundNext == ASSUME MaxRuns \in Nat, RoundInv, Next PROVE RoundInv'
<1>0. /\ TypeInv /\ BldInv /\ RunInv /\ TurnInv /\ WhoInv /\ NewInv
      /\ SentInv /\ QuietInv /\ EndsInv /\ PromptView /\ DoneView /\ OkView
      /\ rbSeen.stray \/ HistoryInv
  BY DEF RoundInv, PhaseInv, ViewInv
<1>1. TypeInv' /\ BldInv' /\ RunInv' /\ TurnInv' /\ WhoInv' /\ NewInv'
  BY <1>0, TypeNext, BldNext, RunNext, TurnNext, WhoNext, NewNext
<1>2. rbSeen'.stray \/ HistoryInv'
  <2>. SUFFICES ASSUME ~rbSeen'.stray PROVE HistoryInv'
    OBVIOUS
  <2>1. DrainInv /\ DiskInv /\ QueueInv /\ HolderInv /\ SafeInv /\ LastInv /\ GotInv /\ LateInv
    BY <1>0, NoStray DEF HistoryInv
  <2>2. DrainInv' /\ DiskInv' /\ QueueInv' /\ HolderInv'
    BY <1>0, <2>1, DrainNext, DiskNext, QueueNext, HolderNext
  <2>3. SafeInv' /\ LastInv' /\ GotInv' /\ LateInv'
    BY <1>0, <2>1, SafeNext, LastNext, KeptNext
  <2> QED
    BY <2>2, <2>3 DEF HistoryInv
<1>3. rbSeen.stray \/ SafeInv
  BY <1>0 DEF HistoryInv
<1>4. SentInv' /\ QuietInv' /\ EndsInv' /\ PromptView' /\ DoneView' /\ OkView'
  BY <1>0, <1>3, SentNext, QuietNext, EndsNext, PromptNext, DoneNext, OkNext
<1> QED
  BY <1>1, <1>2, <1>4 DEF RoundInv, PhaseInv, ViewInv

LEMMA RoundInit == ASSUME MaxRuns \in Nat, Init PROVE RoundInv
BY TypeInit, BldInit, RunInit, TurnInit, WhoInit, DrainInit, DiskInit, QueueInit, HolderInit, ResultInit, ViewInit
   DEF RoundInv, HistoryInv, ResultInv, PhaseInv

LEMMA RoundStep == ASSUME MaxRuns \in Nat, RoundInv, [Next]_rbVars PROVE RoundInv'
BY RoundNext, RoundStutter

\* In every behaviour of the builder, for any number of Runs, updates, faults and stops, what a success
\* has shown is closed; and until a call is declared again once it was forgotten, or behind the last
\* round, the history is paired, the prompts are kept and a success has its results on disk.
THEOREM HistoryHolds ==
  ASSUME MaxRuns \in Nat
  PROVE  Spec => []HistorySafe
<1>1. Init => RoundInv
  BY RoundInit
<1>2. RoundInv /\ [Next]_rbVars => RoundInv'
  BY RoundStep
<1>3. RoundInv => HistorySafe
  BY RoundSafe
<1> QED
  BY <1>1, <1>2, <1>3, PTL DEF Spec
=============================================================================
