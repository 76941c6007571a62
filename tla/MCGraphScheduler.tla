-------------------------- MODULE MCGraphScheduler --------------------------
(* GraphScheduler on the workflows its rules differ for.                     *)
EXTENDS GraphScheduler, TLC

To(n) == [to |-> n, port |-> "none"]
Yes(n) == [to |-> n, port |-> "yes"]
No(n) == [to |-> n, port |-> "no"]
\* A workflow of one scope; a loop's body is added with Inside.
Graph(kind, out) ==
    [nodes |-> DOMAIN kind, kind |-> kind, out |-> [n \in DOMAIN kind |-> IF n \in DOMAIN out THEN out[n] ELSE <<>>],
     path |-> [n \in DOMAIN kind |-> <<>>], mode |-> <<>>, rounds |-> <<>>, maxRound |-> 1, limit |-> 99,
     rank |-> [n \in DOMAIN kind |-> 1], writes |-> [n \in DOMAIN kind |-> {}]]
Inside(w, path, mode, rounds, max) ==
    [w EXCEPT !.path = path @@ w.path, !.mode = mode, !.rounds = rounds, !.maxRound = max]

\* A fan-out whose branches meet again; one of them is routed by a condition.
Diamond == Graph(
    ("s" :> "start" @@ "a" :> "shell" @@ "c" :> "ifelse" @@ "b" :> "prompt" @@ "j" :> "shell" @@ "e" :> "end"),
    ("s" :> <<To("a"), To("c")>> @@ "a" :> <<To("j")>> @@ "c" :> <<Yes("b"), No("e")>>
     @@ "b" :> <<To("j")>> @@ "j" :> <<To("e")>>))

\* Two rounds of two parallel nodes, beside a third; one opens a session.
Parallel == Inside(Graph(
    ("s" :> "start" @@ "l" :> "loop" @@ "e" :> "end" @@ "p" :> "shell"
     @@ "ls" :> "start" @@ "x" :> "shell" @@ "y" :> "prompt" @@ "le" :> "end"),
    ("s" :> <<To("l"), To("p")>> @@ "l" :> <<To("e")>> @@ "p" :> <<To("e")>>
     @@ "ls" :> <<To("x"), To("y")>> @@ "x" :> <<To("le")>> @@ "y" :> <<To("le")>>)),
    ("ls" :> <<"l">> @@ "x" :> <<"l">> @@ "y" :> <<"l">> @@ "le" :> <<"l">>),
    ("l" :> "fixed"), ("l" :> 2), 2)

\* A discussion in the middle, a second end beside it.
Discussion == Graph(
    ("s" :> "start" @@ "k" :> "clarify" @@ "w" :> "shell" @@ "b" :> "prompt" @@ "e" :> "end" @@ "f" :> "end"),
    ("s" :> <<To("k"), To("b")>> @@ "k" :> <<To("w")>> @@ "w" :> <<To("e")>> @@ "b" :> <<To("f")>>))

\* An until loop around a fixed one that runs no round and one that runs one.
Nested == Inside(Graph(
    ("s" :> "start" @@ "l" :> "loop" @@ "e" :> "end"
     @@ "ls" :> "start" @@ "z" :> "loop" @@ "i" :> "loop" @@ "le" :> "end"
     @@ "zs" :> "start" @@ "zx" :> "shell" @@ "ze" :> "end"
     @@ "is" :> "start" @@ "ix" :> "shell" @@ "ie" :> "end"),
    ("s" :> <<To("l")>> @@ "l" :> <<To("e")>>
     @@ "ls" :> <<To("z")>> @@ "z" :> <<To("i")>> @@ "i" :> <<To("le")>>
     @@ "zs" :> <<To("zx")>> @@ "zx" :> <<To("ze")>> @@ "is" :> <<To("ix")>> @@ "ix" :> <<To("ie")>>)),
    ("ls" :> <<"l">> @@ "z" :> <<"l">> @@ "i" :> <<"l">> @@ "le" :> <<"l">>
     @@ "zs" :> <<"l", "z">> @@ "zx" :> <<"l", "z">> @@ "ze" :> <<"l", "z">>
     @@ "is" :> <<"l", "i">> @@ "ix" :> <<"l", "i">> @@ "ie" :> <<"l", "i">>),
    ("l" :> "until" @@ "z" :> "fixed" @@ "i" :> "fixed"),
    ("l" :> 2 @@ "z" :> 0 @@ "i" :> 1), 2)


\* A discussion in the session of the node before it, a node that continues it.
FollowUp == Graph(
    ("s" :> "start" @@ "p" :> "prompt" @@ "k" :> "followup" @@ "y" :> "inherit" @@ "e" :> "end"),
    ("s" :> <<To("p")>> @@ "p" :> <<To("k")>> @@ "k" :> <<To("y")>> @@ "y" :> <<To("e")>>))

\* A condition before the last branch of a fan-out.
ConditionFirst == Graph(
    ("s" :> "start" @@ "c" :> "ifelse" @@ "a" :> "shell" @@ "b" :> "shell" @@ "e" :> "end"),
    ("s" :> <<To("c"), To("a")>> @@ "c" :> <<Yes("b"), No("e")>> @@ "a" :> <<To("e")>>
     @@ "b" :> <<To("e")>>))

\* A discussion right before the end.
DiscussionLast == Graph(
    ("s" :> "start" @@ "k" :> "clarify" @@ "e" :> "end"),
    ("s" :> <<To("k")>> @@ "k" :> <<To("e")>>))

\* A chain longer than its instance limit.
Limited == [Graph(
    ("s" :> "start" @@ "a" :> "shell" @@ "b" :> "shell" @@ "e" :> "end"),
    ("s" :> <<To("a")>> @@ "a" :> <<To("b")>> @@ "b" :> <<To("e")>>)) EXCEPT !.limit = 1]

\* A loop whose first agent continues a session that no node has opened.
NothingToInherit == Inside(Graph(
    ("s" :> "start" @@ "l" :> "loop" @@ "e" :> "end" @@ "ls" :> "start" @@ "y" :> "inherit" @@ "le" :> "end"),
    ("s" :> <<To("l")>> @@ "l" :> <<To("e")>> @@ "ls" :> <<To("y")>> @@ "y" :> <<To("le")>>)),
    ("ls" :> <<"l">> @@ "y" :> <<"l">> @@ "le" :> <<"l">>), ("l" :> "fixed"), ("l" :> 1), 2)

\* A round that continues the session of the round before it.
Continued == Inside(Graph(
    ("s" :> "start" @@ "p" :> "prompt" @@ "l" :> "loop" @@ "e" :> "end" @@ "ls" :> "start" @@ "y" :> "inherit" @@ "le" :> "end"),
    ("s" :> <<To("p")>> @@ "p" :> <<To("l")>> @@ "l" :> <<To("e")>> @@ "ls" :> <<To("y")>> @@ "y" :> <<To("le")>>)),
    ("ls" :> <<"l">> @@ "y" :> <<"l">> @@ "le" :> <<"l">>), ("l" :> "fixed"), ("l" :> 2), 2)

\* Edits: a loop of two rounds is given one or three; a chain gets another second
\* node.
Counted(rounds) == Inside(Graph(
    ("s" :> "start" @@ "l" :> "loop" @@ "e" :> "end" @@ "ls" :> "start" @@ "x" :> "shell" @@ "le" :> "end"),
    ("s" :> <<To("l")>> @@ "l" :> <<To("e")>> @@ "ls" :> <<To("x")>> @@ "x" :> <<To("le")>>)),
    ("ls" :> <<"l">> @@ "x" :> <<"l">> @@ "le" :> <<"l">>), ("l" :> "fixed"), ("l" :> rounds), 3)
Second(nodes) == Graph(
    ("s" :> "start" @@ "a" :> "shell" @@ "e" :> "end") @@ [n \in nodes |-> "prompt"],
    ("s" :> <<To("a")>> @@ "a" :> (IF "b" \in nodes THEN <<To("b")>> ELSE <<>>) \o (IF "c" \in nodes THEN <<To("c")>> ELSE <<>>)) @@ [n \in nodes |-> <<To("e")>>])
Edits == {<<Counted(2), Counted(n)>> : n \in {1, 3}}
         \cup {<<Second({"b"}), Second({"c"})>>}
NoEdits == {}

AllWorkflows == {Diamond, Parallel, Discussion, DiscussionLast, FollowUp, ConditionFirst,
                 Nested, Limited, NothingToInherit, Continued, Counted(2), Second({"b"})}

Faults(w) == [err |-> 2, ctrl |-> 2, resume |-> 2, signal |-> 1]
NoFaults(w) == [err |-> 0, ctrl |-> 0, resume |-> 0, signal |-> 0]

\* The chain gets one more node beside its second.
BranchIn == {<<Second({"b"}), Second({"b", "c"})>>}
Counts == {Counted(2)}
Chain == {Second({"b"})}

\* A branch is taken out of a join that has one of its two edges resolved.
ShortCut(longWay) == Graph(
    ("s" :> "start" @@ "a" :> "shell" @@ "b" :> "shell" @@ "j" :> "shell" @@ "e" :> "end")
        @@ (IF longWay THEN "c" :> "shell" ELSE <<>>),
    ("s" :> <<To("a"), To("b")>> @@ "a" :> <<To("j")>> @@ "j" :> <<To("e")>>)
        @@ (IF longWay THEN "b" :> <<To("c")>> @@ "c" :> <<To("j")>> ELSE "b" :> <<To("e")>>))
BranchOut == {<<ShortCut(TRUE), ShortCut(FALSE)>>}
LongWay == {ShortCut(TRUE)}

\* A round that fans out into a loop of no rounds and a node.
NoRoundFirst == {Inside(Graph(
    ("s" :> "start" @@ "l" :> "loop" @@ "e" :> "end" @@ "ls" :> "start" @@ "z" :> "loop"
     @@ "x" :> "shell" @@ "le" :> "end" @@ "zs" :> "start" @@ "zx" :> "shell" @@ "ze" :> "end"),
    ("s" :> <<To("l")>> @@ "l" :> <<To("e")>> @@ "ls" :> <<To("z"), To("x")>>
     @@ "z" :> <<To("le")>> @@ "x" :> <<To("le")>> @@ "zs" :> <<To("zx")>> @@ "zx" :> <<To("ze")>>)),
    ("ls" :> <<"l">> @@ "z" :> <<"l">> @@ "x" :> <<"l">> @@ "le" :> <<"l">>
     @@ "zs" :> <<"l", "z">> @@ "zx" :> <<"l", "z">> @@ "ze" :> <<"l", "z">>),
    ("l" :> "fixed" @@ "z" :> "fixed"), ("l" :> 2 @@ "z" :> 0), 2)}

\* A loop that continues the session of the agent before it, beside a node that
\* continues it as well.
LoopBesideHeir == {Inside(Graph(
    ("s" :> "start" @@ "p" :> "prompt" @@ "b" :> "inherit" @@ "l" :> "loop" @@ "e" :> "end"
     @@ "ls" :> "start" @@ "y" :> "inherit" @@ "le" :> "end"),
    ("s" :> <<To("p")>> @@ "p" :> <<To("l"), To("b")>> @@ "b" :> <<To("e")>> @@ "l" :> <<To("e")>>
     @@ "ls" :> <<To("y")>> @@ "y" :> <<To("le")>>)),
    ("ls" :> <<"l">> @@ "y" :> <<"l">> @@ "le" :> <<"l">>), ("l" :> "fixed"), ("l" :> 1), 1)}
=============================================================================
