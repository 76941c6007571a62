------------------------------- MODULE JobPaging -------------------------------
(* The list of Jobs, read page by page while Jobs are updated, pinned and     *)
(* deleted: a cursor carries the place of the last Job of the page, and the   *)
(* next page is found in the order of that moment.                            *)
EXTENDS Naturals, FiniteSets, Sequences

CONSTANTS
    Jobs,           \* their ids, which break ties
    Pages,          \* the limits a client asks for
    MaxChanges      \* bound: changes of the list

VARIABLES
    job,            \* per Job: when it was pinned, 0 for never, when it was updated, whether it is live
    now,            \* the clock
    page            \* the client: its cursor, what it has seen, and what changed meanwhile

vars == <<job, now, page>>

NoCursor == [id |-> 0, pin |-> 0, upd |-> 0]
FirstPage == [more |-> TRUE, cursor |-> NoCursor, seen |-> {}, touched |-> {}]

Init ==
    /\ \E pinned \in SUBSET Jobs, together \in {{}, Jobs} :
          job = [j \in Jobs |-> [pin |-> IF j \in pinned THEN j ELSE 0,
                                 upd |-> IF j \in together THEN 1 ELSE j, live |-> TRUE]]
    /\ now = Cardinality(Jobs)
    /\ page = FirstPage

Place(j) == [id |-> j, pin |-> job[j].pin, upd |-> job[j].upd]

\* Pinned Jobs first, the latest first; the id breaks a tie.
UpdatedAfter(a, b) == IF a.upd = b.upd THEN a.id > b.id ELSE a.upd < b.upd
After(a, b) == IF a.pin # b.pin THEN a.pin < b.pin ELSE UpdatedAfter(a, b)

Listed == {j \in Jobs : job[j].live}
Before(j) == {k \in Listed : After(Place(j), Place(k))}
Order == [i \in 1 .. Cardinality(Listed) |-> CHOOSE j \in Listed : Cardinality(Before(j)) = i - 1]

\* A Job that comes behind the place of the cursor.
BehindById(j, cur) == FALSE
Behind(j, cur) == After(Place(j), cur)

\* Where the page begins: behind the cursor's Job if it is still listed and no later Job comes
\* before it, or at the first Job after the cursor's place.
StartOf(order, cur) ==
    LET hits == {i \in DOMAIN order : order[i] = cur.id \/ Behind(order[i], cur)}
        first == CHOOSE i \in hits : \A k \in hits : i <= k
    IN IF cur.id = 0 THEN 1
       ELSE IF hits = {} THEN Len(order) + 1
       ELSE IF order[first] = cur.id THEN first + 1 ELSE first

Read(limit) ==
    /\ page.more
    /\ LET order == Order
           start == StartOf(order, page.cursor)
           end   == IF start + limit <= Len(order) THEN start + limit - 1 ELSE Len(order)
           got   == {order[i] : i \in start .. end}
       IN page' = [page EXCEPT !.more = end < Len(order),
                               !.cursor = IF end < Len(order) THEN Place(order[end]) ELSE @,
                               !.seen = @ \cup got]
    /\ UNCHANGED <<job, now>>

Touch(j) == [page EXCEPT !.touched = @ \cup {j}]

Changing(j) ==
    /\ job[j].live /\ page.more /\ now < Cardinality(Jobs) + MaxChanges
    /\ now' = now + 1

\* A message, a new title, the end of a run: the Job moves to the top of its part of the list.
Update(j) ==
    /\ Changing(j)
    /\ job' = [job EXCEPT ![j].upd = now']
    /\ page' = Touch(j)

UpdatePinned(j, pinned) ==
    /\ Changing(j)
    /\ job' = [job EXCEPT ![j].upd = now', ![j].pin = IF pinned THEN now' ELSE 0]
    /\ page' = Touch(j)

MarkDeleted(j) ==
    /\ Changing(j)
    /\ job' = [job EXCEPT ![j].live = FALSE]
    /\ page' = Touch(j)

Next ==
    \/ \E limit \in Pages : Read(limit)
    \/ \E j \in Jobs : Update(j) \/ MarkDeleted(j) \/ \E p \in BOOLEAN : UpdatePinned(j, p)

Spec == Init /\ [][Next]_vars

\* A client that reads to the last page has seen every Job that was there all along and did not
\* change: the Job its cursor names may be updated, pinned, unpinned or deleted meanwhile
\* (ListByWorkspacePaged).
NobodySkipped == ~page.more => Listed \ page.touched \subseteq page.seen
=============================================================================
