---------------------------- MODULE MCGraphValidate ----------------------------
(* The workflows of MCGraphScheduler with every fault, and small graphs, as   *)
(* many as the validator lets through, run without one.                       *)
EXTENDS MCGraphScheduler

\* One or two edges out of a node, forwards: the first is the start, the last the end.
Name == <<"1", "2", "3", "4", "5", "6">>
Small == {Name[i] : i \in DOMAIN Name}
Last == Len(Name)
Outs(n) == {t \in SUBSET ((n + 1)..Last) : Cardinality(t) \in {1, 2}}
Shapes == {f \in {<<a, b, c, d, {Last}>> : a \in Outs(1), b \in Outs(2), c \in Outs(3), d \in Outs(4)} :
              UNION {f[n] : n \in 1..(Last - 1)} = 2..Last}

\* A graph has an agent that continues a session, and one that opens one or a shell
\* node beside another.
Agreed(f, k) ==
    /\ \A n \in 2..(Last - 1) : k[n] = "ifelse" => Cardinality(f[n]) = 2
    /\ Cardinality({n \in 2..(Last - 1) : k[n] = "ifelse"}) <= 1
    /\ \E n \in 2..(Last - 1) : k[n] \in Continues
    /\ k[5] = "followup" => k[4] = "inherit" /\ k[2] = "prompt"
KindsFor(f) == {k \in {<<"start", b, c, d, e, "end">> :
                          b \in {"prompt", "ifelse"}, c \in {"prompt", "ifelse", "inherit"},
                          d \in {"inherit", "shell"}, e \in {"inherit", "shell", "followup"}} : Agreed(f, k)}

OutOf(t, condition) ==
    LET a == CHOOSE x \in t : \A y \in t : x <= y
        b == CHOOSE x \in t : \A y \in t : x >= y
    IN IF condition THEN <<Yes(Name[a]), No(Name[b])>>
       ELSE IF a = b THEN <<To(Name[a])>> ELSE <<To(Name[a]), To(Name[b])>>

Candidate(f, kind) ==
    LET At(n) == CHOOSE i \in 1..Last : Name[i] = n
    IN [Graph([n \in Small |-> kind[At(n)]],
              [n \in Small \ {Name[Last]} |-> OutOf(f[At(n)], kind[At(n)] = "ifelse")])
        EXCEPT !.rank = [n \in Small |-> At(n)],
               !.writes = [n \in Small |-> IF kind[At(n)] = "shell" THEN {"v"} ELSE {}]]

Accepted == {w \in UNION {{Candidate(f, k) : k \in KindsFor(f)} : f \in Shapes} : Valid(w)}

Every == AllWorkflows \cup Accepted
\* The widest of them, two branches in a loop beside a third, is resumed once.
FaultsOf(w) == IF w.nodes = Small THEN NoFaults(w)
               ELSE [Faults(w) EXCEPT !.resume = IF w = Parallel THEN 1 ELSE @]
=============================================================================
