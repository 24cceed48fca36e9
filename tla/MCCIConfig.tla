----------------------------- MODULE MCCIConfig -----------------------------
(* Instances of CIConfig for TLC. *)
EXTENDS CIConfig

CONSTANTS t1, t2, s1, s2, unknown  \* t: third services

ListsOf(names) ==
    {<<>>} \cup {<<x>> : x \in names} \cup {<<x, y>> : x \in names, y \in names}

MCLists == ListsOf(Names)

Plain(s) ==
    [base |-> NoBase, image |-> s, env |-> s, assertions |-> s,
     disableCommonEnv |-> FALSE, valid |-> TRUE]

AllPlain == [s \in Services |-> Plain(s)]

\* Services without base services.  Two third services depend on each other and
\* on s1 in any way: up to two names each, with a name twice and a name nobody
\* has.  The others depend on one service.
Ordered ==
    LET Some == ListsOf(Names \ {s2})
    IN  {[services |-> AllPlain,
          dependsOn |-> [s \in Services |->
                            CASE s = t1 -> da [] s = t2 -> db [] s = s1 -> dc [] s = s2 -> <<t1>>],
          credentials |-> TRUE, clash |-> FALSE] :
            da \in Some, db \in Some, dc \in {l \in Some : Len(l) < 2}}

\* What one of the services x and y may say.
Entries(s, x, y) ==
    {[base |-> base, image |-> image, env |-> own, assertions |-> own,
      disableCommonEnv |-> own = Nil, valid |-> TRUE] :
        base \in {NoBase, unknown, t1, x, y}, image \in {s, Nil}, own \in {s, Nil}}
      \cup {[Plain(s) EXCEPT !.valid = FALSE]}

\* Two services of the same map that may be each other's base.
Paired(x, y) ==
    {[services |-> [s \in Services |-> IF s = x THEN ex ELSE IF s = y THEN ey ELSE Plain(s)],
      dependsOn |-> [s \in Services |-> IF s = x THEN dx ELSE IF s = y THEN dy ELSE <<>>],
      credentials |-> TRUE, clash |-> FALSE] :
        ex \in Entries(x, x, y), ey \in Entries(y, x, y),
        dx \in {<<>>, <<t1>>, <<s1>>}, dy \in {<<>>, <<x>>}}

\* All services plain, but the credentials or the names are not in order.
Odd ==
    {[services |-> AllPlain, dependsOn |-> [s \in Services |-> <<>>],
      credentials |-> ok, clash |-> clash] : ok \in BOOLEAN, clash \in BOOLEAN}

MCDefinitions == Odd \cup Paired(t1, t2) \cup Paired(s1, s2) \cup Ordered
=============================================================================
