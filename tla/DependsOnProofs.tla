--------------------------- MODULE DependsOnProofs ---------------------------
(***************************************************************************)
(* Proofs about DependsOn, for any services and any dependencies.  The     *)
(* inductive invariant OrderInv adds to the properties what the recursion  *)
(* keeps true of the calls in progress: each one was called for by the one *)
(* below it, and has only processed dependencies behind it.                *)
(***************************************************************************)
EXTENDS DependsOn, FiniteSetTheorems, TLAPS

ChainOK ==
    /\ \A k \in DOMAIN chain : \A i \in 1..(chain[k].index - 1) :
          /\ i <= Len(dependsOn[chain[k].service])
          /\ dependsOn[chain[k].service][i] \in Elements(processed)
    /\ \A k \in DOMAIN chain : k < Len(chain) =>
          /\ chain[k].index <= Len(dependsOn[chain[k].service])
          /\ chain[k + 1].service = dependsOn[chain[k].service][chain[k].index]

OrderInv ==
    /\ TypeOK
    /\ EachOnce
    /\ TopologicalOrder
    /\ ChainOK
    /\ RefusedForAReason
    /\ status = "finished" => unprocessed = {}

-----------------------------------------------------------------------------
(* Sequences *)

\* A list is a sequence of names.
LEMMA ListType ==
    ASSUME dependsOn \in [Services -> Lists], NEW s \in Services
    PROVE  dependsOn[s] \in Seq(Names)
BY DependsOnAssumption

\* What Append adds to the elements of a sequence.
LEMMA AppendElements ==
    ASSUME NEW S, NEW q \in Seq(S), NEW x \in S
    PROVE  Elements(Append(q, x)) = Elements(q) \cup {x}
PROOF
  <1> DEFINE r == Append(q, x)
  <1>1. /\ DOMAIN r = 1..(Len(q) + 1) /\ DOMAIN q = 1..Len(q) /\ Len(q) \in Nat
        /\ \A i \in DOMAIN q : r[i] = q[i]
        /\ r[Len(q) + 1] = x
    OBVIOUS
  <1>2. Elements(r) \subseteq Elements(q) \cup {x}
    <2> SUFFICES ASSUME NEW i \in DOMAIN r PROVE r[i] \in Elements(q) \cup {x}
      BY DEF Elements
    <2>1. CASE i \in DOMAIN q
      BY <1>1, <2>1 DEF Elements
    <2>2. CASE i = Len(q) + 1
      BY <1>1, <2>2
    <2> QED BY <1>1, <2>1, <2>2
  <1>3. Elements(q) \subseteq Elements(r)
    BY <1>1 DEF Elements
  <1>4. x \in Elements(r)
    <2>1. Len(q) + 1 \in DOMAIN r
      BY <1>1
    <2> QED BY <1>1, <2>1 DEF Elements
  <1> QED BY <1>2, <1>3, <1>4

-----------------------------------------------------------------------------
(* The steps *)

\* What SetProcessed does for a service that is in the list, whose dependencies
\* are all processed.
LEMMA Processed ==
    ASSUME OrderInv, NEW y \in unprocessed, SetProcessed(y), dependsOn' = dependsOn,
           Elements(dependsOn[y]) \subseteq Elements(processed)
    PROVE  /\ unprocessed' \subseteq Services /\ processed' \in Seq(Services)
           /\ Elements(processed') = Elements(processed) \cup {y}
           /\ EachOnce' /\ TopologicalOrder'
PROOF
  <1>1. /\ unprocessed \subseteq Services /\ processed \in Seq(Services) /\ y \in Services
        /\ unprocessed = Services \ Elements(processed)
    BY DEF OrderInv, TypeOK, EachOnce
  <1>2. unprocessed' = unprocessed \ {y} /\ processed' = Append(processed, y)
    BY DEF SetProcessed
  <1>3. Elements(processed') = Elements(processed) \cup {y}
    BY <1>1, <1>2, AppendElements
  <1>4. y \notin Elements(processed)
    BY <1>1
  <1>5. /\ Len(processed') = Len(processed) + 1 /\ Len(processed) \in Nat
        /\ DOMAIN processed' = 1..(Len(processed) + 1) /\ DOMAIN processed = 1..Len(processed)
        /\ \A i \in 1..Len(processed) : processed'[i] = processed[i]
        /\ processed'[Len(processed) + 1] = y
    BY <1>1, <1>2
  <1>6. EachOnce'
    <2>1. unprocessed' = Services \ Elements(processed')
      BY <1>1, <1>2, <1>3
    <2>2. ASSUME NEW i \in DOMAIN processed', NEW j \in DOMAIN processed',
                 processed'[i] = processed'[j]
          PROVE  i = j
      <3>1. \A k \in DOMAIN processed : processed[k] # y
        BY <1>4 DEF Elements
      <3>2. \A k, l \in DOMAIN processed : processed[k] = processed[l] => k = l
        BY DEF OrderInv, EachOnce
      <3> QED BY <1>5, <2>2, <3>1, <3>2
    <2> QED BY <2>1, <2>2 DEF EachOnce
  <1>7. TopologicalOrder'
    <2> SUFFICES ASSUME NEW i \in DOMAIN processed', NEW d \in Elements(dependsOn[processed'[i]])
                 PROVE  \E j \in 1..(i - 1) : processed'[j] = d
      BY DEF TopologicalOrder
    <2>1. CASE i \in DOMAIN processed
      <3>1. d \in Elements(dependsOn[processed[i]])
        BY <1>5, <2>1
      <3>2. PICK j \in 1..(i - 1) : processed[j] = d
        BY <2>1, <3>1 DEF OrderInv, TopologicalOrder
      <3> QED BY <1>5, <2>1, <3>2
    <2>2. CASE i = Len(processed) + 1
      <3>1. d \in Elements(processed)
        BY <1>5, <2>2
      <3>2. PICK j \in DOMAIN processed : processed[j] = d
        BY <3>1 DEF Elements
      <3> QED BY <1>5, <2>2, <3>2
    <2> QED BY <1>5, <2>1, <2>2
  <1> QED BY <1>1, <1>2, <1>3, <1>6, <1>7

\* processDependsOn keeps the invariant, whoever calls it: Initialize, or the
\* innermost call in progress for the dependency it has come to.
LEMMA EnterKeeps ==
    ASSUME OrderInv, status = "working", NEW y \in unprocessed, Enter(y),
           dependsOn' = dependsOn,
           chain # <<>> => /\ Top.index <= Len(dependsOn[Top.service])
                           /\ y = dependsOn[Top.service][Top.index]
    PROVE  OrderInv'
PROOF
  <1>0. /\ dependsOn \in [Services -> Lists] /\ unprocessed \subseteq Services /\ y \in Services
        /\ processed \in Seq(Services) /\ chain \in Seq(Call)
    BY DEF OrderInv, TypeOK
  <1>1. dependsOn[y] \in Seq(Names)
    BY <1>0, ListType
  <1>2. CASE /\ Len(dependsOn[y]) = 0 /\ SetProcessed(y) /\ UNCHANGED <<chain, status>>
    <2>1. Elements(dependsOn[y]) = {}
      BY <1>1, <1>2 DEF Elements
    <2>2. /\ unprocessed' \subseteq Services /\ processed' \in Seq(Services)
          /\ Elements(processed') = Elements(processed) \cup {y}
          /\ EachOnce' /\ TopologicalOrder'
      BY <1>2, <2>1, Processed
    <2>3. TypeOK'
      BY <1>2, <2>2 DEF OrderInv, TypeOK
    <2>4. ChainOK'
      BY <1>2, <2>2 DEF OrderInv, ChainOK
    <2>5. RefusedForAReason' /\ (status' = "finished" => unprocessed' = {})
      BY <1>2, status = "working" DEF RefusedForAReason
    <2> QED BY <2>2, <2>3, <2>4, <2>5 DEF OrderInv
  <1>3. CASE /\ Len(dependsOn[y]) > 0 /\ InChain(y) /\ status' = "circular"
             /\ UNCHANGED <<chain, unprocessed, processed>>
    <2>1. PICK j \in DOMAIN chain : chain[j].service = y
      BY <1>3 DEF InChain
    <2> DEFINE circle == {chain[k].service : k \in j..Len(chain)}
    <2>2. /\ Len(chain) \in Nat /\ DOMAIN chain = 1..Len(chain) /\ j \in 1..Len(chain)
          /\ \A k \in DOMAIN chain : chain[k] \in Call
      BY <1>0, <2>1
    <2>3. circle \in SUBSET Services
      BY <2>2 DEF Call
    <2>4. y \in circle
      BY <2>1, <2>2
    <2>5. ASSUME NEW k \in j..Len(chain)
          PROVE  Elements(dependsOn[chain[k].service]) \cap circle # {}
      <3>1. k \in DOMAIN chain /\ chain[k].service \in Services /\ chain[k].index \in Nat \ {0}
        BY <2>2 DEF Call
      <3>2. dependsOn[chain[k].service] \in Seq(Names)
        BY <1>0, <3>1, ListType
      <3>3. CASE k < Len(chain)
        <4>1. /\ chain[k].index <= Len(dependsOn[chain[k].service])
              /\ chain[k + 1].service = dependsOn[chain[k].service][chain[k].index]
          BY <3>1, <3>3 DEF OrderInv, ChainOK
        <4>2. chain[k + 1].service \in Elements(dependsOn[chain[k].service])
          BY <3>1, <3>2, <4>1 DEF Elements
        <4>3. chain[k + 1].service \in circle
          BY <2>2, <3>3
        <4> QED BY <4>2, <4>3
      <3>4. CASE k = Len(chain)
        <4>1. chain # <<>> /\ Top = chain[k]
          BY <1>0, <2>2, <3>4 DEF Top
        <4>2. y \in Elements(dependsOn[chain[k].service])
          BY <3>1, <3>2, <4>1 DEF Elements
        <4> QED BY <2>4, <4>2
      <3>5. k < Len(chain) \/ k = Len(chain)
        BY <2>2, <3>1
      <3> QED BY <3>3, <3>4, <3>5
    <2>6. Circular(circle)
      BY <2>4, <2>5 DEF Circular
    <2>7. RefusedForAReason'
      BY <1>3, <2>3, <2>6 DEF RefusedForAReason, Circular
    <2>8. TypeOK'
      BY <1>3 DEF OrderInv, TypeOK
    <2>9. EachOnce'
      BY <1>3 DEF OrderInv, EachOnce
    <2>10. TopologicalOrder'
      BY <1>3 DEF OrderInv, TopologicalOrder
    <2>11. ChainOK'
      BY <1>3 DEF OrderInv, ChainOK
    <2> QED BY <1>3, <2>7, <2>8, <2>9, <2>10, <2>11 DEF OrderInv
  <1>4. CASE /\ Len(dependsOn[y]) > 0 /\ ~InChain(y) /\ chain' = Append(chain, NewCall(y))
             /\ UNCHANGED <<unprocessed, processed, status>>
    <2> DEFINE n == Len(chain)
    <2>1. NewCall(y) \in Call /\ NewCall(y).service = y /\ NewCall(y).index = 1
      BY <1>0 DEF NewCall, Call
    <2>2. /\ chain' \in Seq(Call) /\ n \in Nat /\ DOMAIN chain = 1..n
          /\ Len(chain') = n + 1 /\ DOMAIN chain' = 1..(n + 1)
          /\ \A k \in 1..n : chain'[k] = chain[k]
          /\ chain'[n + 1] = NewCall(y)
      BY <1>0, <1>4, <2>1
    <2>3. TypeOK'
      BY <1>4, <2>2 DEF OrderInv, TypeOK
    <2>4. ASSUME NEW k \in DOMAIN chain', NEW i \in 1..(chain'[k].index - 1)
          PROVE  /\ i <= Len(dependsOn[chain'[k].service])
                 /\ dependsOn[chain'[k].service][i] \in Elements(processed)
      BY <2>1, <2>2, <2>4 DEF OrderInv, ChainOK
    <2>5. ASSUME NEW k \in DOMAIN chain', k < Len(chain')
          PROVE  /\ chain'[k].index <= Len(dependsOn[chain'[k].service])
                 /\ chain'[k + 1].service = dependsOn[chain'[k].service][chain'[k].index]
      <3>1. CASE k < n
        BY <2>2, <2>5, <3>1 DEF OrderInv, ChainOK
      <3>2. CASE k = n
        <4>1. chain # <<>> /\ Top = chain[k]
          BY <1>0, <2>2, <3>2 DEF Top
        <4> QED BY <2>1, <2>2, <3>2, <4>1
      <3> QED BY <2>2, <2>5, <3>1, <3>2
    <2>6. ChainOK'
      BY <1>4, <2>4, <2>5 DEF ChainOK
    <2> QED BY <1>4, <2>3, <2>6 DEF OrderInv, EachOnce, TopologicalOrder, RefusedForAReason, Circular
  <1> QED BY <1>2, <1>3, <1>4 DEF Enter

\* The inductive step, for the actions of DependsOn.
LEMMA OrderStep ==
    ASSUME OrderInv, Next
    PROVE  OrderInv'
PROOF
  <1>0. /\ dependsOn \in [Services -> Lists] /\ unprocessed \subseteq Services
        /\ processed \in Seq(Services) /\ chain \in Seq(Call)
        /\ unprocessed = Services \ Elements(processed)
    BY DEF OrderInv, TypeOK, EachOnce
  <1>1. CASE Pick
    <2>1. PICK y \in unprocessed : Enter(y)
      BY <1>1 DEF Pick
    <2> QED BY <1>1, <2>1, EnterKeeps DEF Pick
  <1>2. CASE Finish
    BY <1>2 DEF Finish, OrderInv, TypeOK, EachOnce, TopologicalOrder, ChainOK, RefusedForAReason
  <1>3. ASSUME status = "working", chain # <<>>
        PROVE  /\ Len(chain) \in Nat /\ Len(chain) \in DOMAIN chain /\ DOMAIN chain = 1..Len(chain)
               /\ Top \in Call /\ Top.service \in Services /\ Top.index \in Nat \ {0}
               /\ Dependencies \in Seq(Names) /\ Dependencies = dependsOn[Top.service]
    <2>1. /\ Len(chain) \in Nat /\ DOMAIN chain = 1..Len(chain) /\ Len(chain) # 0
      BY <1>0, <1>3
    <2>2. Top \in Call
      BY <1>0, <2>1 DEF Top
    <2>3. Top.service \in Services /\ Top.index \in Nat \ {0}
      BY <2>2 DEF Call
    <2>4. Dependencies \in Seq(Names) /\ Dependencies = dependsOn[Top.service]
      BY <1>0, <2>3, ListType DEF Dependencies
    <2> QED BY <2>1, <2>2, <2>3, <2>4
  <1>4. CASE Depend
    <2> DEFINE d == Dependencies[Top.index]
    <2>1. /\ status = "working" /\ chain # <<>> /\ Top.index <= Len(Dependencies)
          /\ dependsOn' = dependsOn
      BY <1>4 DEF Depend
    <2>2. CASE /\ d \in Elements(processed)
               /\ chain' = [chain EXCEPT ![Len(chain)].index = @ + 1]
               /\ UNCHANGED <<unprocessed, processed, status>>
      <3>1. /\ chain' = [chain EXCEPT ![Len(chain)] = [Top EXCEPT !.index = @ + 1]]
            /\ [Top EXCEPT !.index = @ + 1] \in Call
        BY <1>3, <2>1, <2>2 DEF Top, Call
      <3>2. /\ chain' \in Seq(Call) /\ Len(chain') = Len(chain) /\ DOMAIN chain' = DOMAIN chain
            /\ \A k \in DOMAIN chain : k # Len(chain) => chain'[k] = chain[k]
            /\ chain'[Len(chain)].service = Top.service
            /\ chain'[Len(chain)].index = Top.index + 1
        BY <1>0, <1>3, <2>1, <3>1 DEF Call
      <3>3. \A k \in DOMAIN chain : chain'[k].service = chain[k].service
        BY <3>2 DEF Top
      <3>4. ASSUME NEW k \in DOMAIN chain', NEW i \in 1..(chain'[k].index - 1)
            PROVE  /\ i <= Len(dependsOn[chain'[k].service])
                   /\ dependsOn[chain'[k].service][i] \in Elements(processed)
        <4>1. CASE k # Len(chain)
          BY <3>2, <3>4, <4>1 DEF OrderInv, ChainOK
        <4>2. CASE k = Len(chain) /\ i # Top.index
          <5>1. i \in 1..(chain[k].index - 1)
            BY <1>3, <2>1, <3>2, <3>4, <4>2 DEF Top
          <5> QED BY <3>2, <3>3, <4>2, <5>1 DEF OrderInv, ChainOK
        <4>3. CASE k = Len(chain) /\ i = Top.index
          BY <1>3, <2>1, <2>2, <3>2, <4>3
        <4> QED BY <4>1, <4>2, <4>3
      <3>5. ASSUME NEW k \in DOMAIN chain', k < Len(chain')
            PROVE  /\ chain'[k].index <= Len(dependsOn[chain'[k].service])
                   /\ chain'[k + 1].service = dependsOn[chain'[k].service][chain'[k].index]
        <4>1. k \in DOMAIN chain /\ k + 1 \in DOMAIN chain /\ k < Len(chain) /\ k # Len(chain)
          BY <1>3, <2>1, <3>2, <3>5
        <4> QED BY <3>2, <3>3, <4>1 DEF OrderInv, ChainOK
      <3>6. ChainOK'
        BY <2>1, <2>2, <3>4, <3>5 DEF ChainOK
      <3>7. TypeOK'
        BY <2>1, <2>2, <3>2 DEF OrderInv, TypeOK
      <3> QED BY <2>1, <2>2, <3>6, <3>7
              DEF OrderInv, EachOnce, TopologicalOrder, RefusedForAReason, Circular
    <2>3. CASE /\ d \notin Elements(processed) /\ d \notin unprocessed
               /\ status' = "notFound"
               /\ UNCHANGED <<chain, unprocessed, processed>>
      <3>1. d \in Elements(dependsOn[Top.service])
        BY <1>3, <2>1 DEF Elements
      <3>2. d \notin Services
        BY <1>0, <2>3
      <3>3. RefusedForAReason'
        BY <1>3, <2>1, <2>3, <3>1, <3>2 DEF RefusedForAReason
      <3> QED BY <2>1, <2>3, <3>3 DEF OrderInv, TypeOK, EachOnce, TopologicalOrder, ChainOK
    <2>4. CASE d \in unprocessed /\ Enter(d)
      BY <1>3, <2>1, <2>4, EnterKeeps
    <2> QED BY <1>4, <2>2, <2>3, <2>4 DEF Depend
  <1>5. CASE ProcessTop
    <2> DEFINE n == Len(chain)
               y == Top.service
    <2>1. /\ status = "working" /\ chain # <<>> /\ Top.index > Len(Dependencies)
          /\ SetProcessed(y) /\ chain' = SubSeq(chain, 1, n - 1)
          /\ dependsOn' = dependsOn /\ status' = status
      BY <1>5 DEF ProcessTop
    <2>2. /\ chain' \in Seq(Call) /\ Len(chain') = n - 1 /\ DOMAIN chain' = 1..(n - 1)
          /\ \A k \in 1..(n - 1) : chain'[k] = chain[k]
      BY <1>0, <1>3, <2>1
    <2>3. Elements(dependsOn[y]) \subseteq Elements(processed)
      <3> SUFFICES ASSUME NEW i \in DOMAIN dependsOn[y]
                   PROVE  dependsOn[y][i] \in Elements(processed)
        BY DEF Elements
      <3>1. i \in 1..(chain[n].index - 1) /\ n \in DOMAIN chain /\ chain[n] = Top
        BY <1>3, <2>1 DEF Top
      <3> QED BY <3>1 DEF OrderInv, ChainOK
    <2>4. /\ TypeOK' /\ EachOnce' /\ TopologicalOrder'
          /\ Elements(processed) \subseteq Elements(processed')
      <3>1. CASE y \in unprocessed
        <4>1. /\ unprocessed' \subseteq Services /\ processed' \in Seq(Services)
              /\ Elements(processed') = Elements(processed) \cup {y}
              /\ EachOnce' /\ TopologicalOrder'
          BY <2>1, <2>3, <3>1, Processed
        <4> QED BY <2>1, <2>2, <4>1 DEF OrderInv, TypeOK
      <3>2. CASE y \notin unprocessed
        <4>1. unprocessed' = unprocessed /\ processed' = processed
          BY <2>1, <3>2 DEF SetProcessed
        <4> QED BY <2>1, <2>2, <4>1 DEF OrderInv, TypeOK, EachOnce, TopologicalOrder
      <3> QED BY <3>1, <3>2
    <2>5. ChainOK'
      <3>1. ASSUME NEW k \in DOMAIN chain', NEW i \in 1..(chain'[k].index - 1)
            PROVE  /\ i <= Len(dependsOn[chain'[k].service])
                   /\ dependsOn[chain'[k].service][i] \in Elements(processed')
        BY <1>3, <2>1, <2>2, <2>4, <3>1 DEF OrderInv, ChainOK
      <3>2. ASSUME NEW k \in DOMAIN chain', k < Len(chain')
            PROVE  /\ chain'[k].index <= Len(dependsOn[chain'[k].service])
                   /\ chain'[k + 1].service = dependsOn[chain'[k].service][chain'[k].index]
        <4>1. k \in DOMAIN chain /\ k < Len(chain) /\ k + 1 \in 1..(n - 1)
          BY <1>3, <2>1, <2>2, <3>2
        <4> QED BY <2>2, <4>1 DEF OrderInv, ChainOK
      <3> QED BY <2>1, <3>1, <3>2 DEF ChainOK
    <2>6. RefusedForAReason' /\ (status' = "finished" => unprocessed' = {})
      BY <2>1 DEF RefusedForAReason
    <2> QED BY <2>4, <2>5, <2>6 DEF OrderInv
  <1> QED BY <1>1, <1>2, <1>4, <1>5 DEF Next

\* What the invariant says while no call is in progress and none has been.
LEMMA OrderStart ==
    ASSUME dependsOn \in [Services -> Lists], unprocessed = Services, processed = <<>>,
           chain = <<>>, status = "working"
    PROVE  OrderInv
BY DEF OrderInv, TypeOK, EachOnce, TopologicalOrder, ChainOK, RefusedForAReason, Elements

-----------------------------------------------------------------------------
(* How deep, and how long *)

\* The calls in progress are for different services, all of them waiting to be
\* processed: what the check of the chain and of the list of unprocessed services
\* give together.
SimpleChain ==
    /\ \A k \in DOMAIN chain :
          chain[k].service \in unprocessed /\ Len(dependsOn[chain[k].service]) > 0
    /\ \A j, k \in DOMAIN chain : chain[j].service = chain[k].service => j = k

\* What Enter and the loop know of the innermost call.
LEMMA Innermost ==
    ASSUME TypeOK, chain # <<>>
    PROVE  /\ Len(chain) \in Nat \ {0} /\ DOMAIN chain = 1..Len(chain) /\ Top = chain[Len(chain)]
           /\ Top \in Call /\ Top.service \in Services /\ Top.index \in Nat \ {0}
           /\ Dependencies \in Seq(Names) /\ Dependencies = dependsOn[Top.service]
PROOF
  <1>1. /\ Len(chain) \in Nat \ {0} /\ DOMAIN chain = 1..Len(chain)
        /\ chain \in Seq(Call) /\ dependsOn \in [Services -> Lists]
    BY DEF TypeOK
  <1>2. Top \in Call /\ Top = chain[Len(chain)]
    BY <1>1 DEF Top
  <1>3. Top.service \in Services /\ Top.index \in Nat \ {0}
    BY <1>2 DEF Call
  <1> QED BY <1>1, <1>2, <1>3, ListType DEF Dependencies

\* processDependsOn for a service that waits: the chain stays simple, and the
\* ordering gets nearer to its end unless it ends with a circle.
LEMMA EnterAdvances ==
    ASSUME OrderInv, SimpleChain, status = "working", NEW y \in unprocessed, Enter(y),
           dependsOn' = dependsOn
    PROVE  SimpleChain' /\ (Nearer \/ status' = "circular")
PROOF
  <1>0. /\ chain \in Seq(Call) /\ y \in Services /\ DOMAIN chain = 1..Len(chain)
        /\ Len(chain) \in Nat
    BY DEF OrderInv, TypeOK
  <1>1. CASE /\ Len(dependsOn[y]) = 0 /\ SetProcessed(y) /\ UNCHANGED <<chain, status>>
    <2>1. unprocessed' = unprocessed \ {y}
      BY <1>1 DEF SetProcessed
    <2>2. Nearer
      BY <2>1 DEF Nearer
    <2>3. \A k \in DOMAIN chain : chain[k].service # y
      BY <1>1 DEF SimpleChain
    <2> QED BY <1>1, <2>1, <2>2, <2>3 DEF SimpleChain
  <1>2. CASE status' = "circular" /\ UNCHANGED <<chain, unprocessed, processed>>
    BY <1>2 DEF SimpleChain
  <1>3. CASE /\ Len(dependsOn[y]) > 0 /\ ~InChain(y) /\ chain' = Append(chain, NewCall(y))
             /\ UNCHANGED <<unprocessed, processed, status>>
    <2> DEFINE n == Len(chain)
    <2>1. /\ n \in Nat /\ DOMAIN chain = 1..n /\ DOMAIN chain' = 1..(n + 1)
          /\ \A k \in 1..n : chain'[k] = chain[k]
          /\ chain'[n + 1].service = y
      <3>1. NewCall(y) \in Call /\ NewCall(y).service = y
        BY <1>0 DEF NewCall, Call
      <3> QED BY <1>0, <1>3, <3>1
    <2>2. \A k \in 1..n : chain[k].service # y
      BY <1>3, <2>1 DEF InChain
    <2>3. SimpleChain'
      BY <1>3, <2>1, <2>2 DEF SimpleChain
    <2>4. y \in InProgress' /\ y \notin InProgress
      BY <2>1, <2>2 DEF InProgress
    <2>5. InProgress \subseteq InProgress'
      <3> SUFFICES ASSUME NEW k \in DOMAIN chain PROVE chain[k].service \in InProgress'
        BY DEF InProgress
      <3>1. k \in DOMAIN chain' /\ chain'[k].service = chain[k].service
        BY <2>1
      <3> QED BY <3>1 DEF InProgress
    <2>6. InProgress' \subseteq unprocessed
      BY <1>3, <2>3 DEF SimpleChain, InProgress
    <2>7. Nearer
      BY <1>3, <2>4, <2>5, <2>6 DEF Nearer
    <2> QED BY <2>3, <2>7
  <1> QED BY <1>1, <1>2, <1>3 DEF Enter

\* Every step of the ordering.
LEMMA StepAdvances ==
    ASSUME OrderInv, SimpleChain, Next
    PROVE  SimpleChain' /\ status = "working" /\ (Nearer \/ status' # "working")
PROOF
  <1>0. TypeOK
    BY DEF OrderInv
  <1>1. CASE Pick
    <2>1. PICK y \in unprocessed : Enter(y)
      BY <1>1 DEF Pick
    <2> QED BY <1>1, <2>1, EnterAdvances DEF Pick
  <1>2. CASE Finish
    BY <1>2 DEF Finish, SimpleChain
  <1>3. CASE Depend
    <2> DEFINE d == Dependencies[Top.index]
    <2>1. /\ status = "working" /\ chain # <<>> /\ Top.index <= Len(Dependencies)
          /\ dependsOn' = dependsOn
      BY <1>3 DEF Depend
    <2>2. CASE /\ d \in Elements(processed)
               /\ chain' = [chain EXCEPT ![Len(chain)].index = @ + 1]
               /\ UNCHANGED <<unprocessed, processed, status>>
      <3>1. /\ Len(chain) \in Nat \ {0} /\ DOMAIN chain = 1..Len(chain)
            /\ Top = chain[Len(chain)] /\ Top \in Call
            /\ Top.service \in Services /\ Top.index \in Nat \ {0}
            /\ Dependencies \in Seq(Names)
        BY <1>0, <2>1, Innermost
      <3>2. chain' = [chain EXCEPT ![Len(chain)] = [Top EXCEPT !.index = @ + 1]]
        BY <2>2, <3>1
      <3>3. /\ chain' \in Seq(Call) /\ Len(chain') = Len(chain) /\ DOMAIN chain' = DOMAIN chain
            /\ \A k \in DOMAIN chain : k # Len(chain) => chain'[k] = chain[k]
            /\ chain'[Len(chain)] = [Top EXCEPT !.index = @ + 1]
        <4>1. Top.index + 1 \in Nat \ {0}
          BY <3>1
        <4>2. [Top EXCEPT !.index = @ + 1] \in Call
          BY <3>1, <4>1 DEF Call
        <4>3. chain \in Seq(Call)
          BY <1>0 DEF TypeOK
        <4> QED BY <3>1, <3>2, <4>2, <4>3
      <3>4. /\ Top' = [Top EXCEPT !.index = @ + 1]
            /\ Top'.service = Top.service /\ Top'.index = Top.index + 1
        BY <3>1, <3>3 DEF Top, Call
      <3>5. \A k \in DOMAIN chain : chain'[k].service = chain[k].service
        BY <3>1, <3>3, <3>4
      <3>6. InProgress' = InProgress
        BY <3>3, <3>5 DEF InProgress
      <3>7. SimpleChain'
        BY <2>1, <2>2, <3>3, <3>5 DEF SimpleChain
      <3>8. Top.index < Top'.index /\ Top'.index <= Len(Dependencies) + 1
        BY <2>1, <3>1, <3>4
      <3>9. Nearer
        BY <2>1, <2>2, <3>3, <3>4, <3>6, <3>8 DEF Nearer
      <3> QED BY <2>1, <3>7, <3>9
    <2>3. CASE status' = "notFound" /\ UNCHANGED <<chain, unprocessed, processed>>
      BY <2>1, <2>3 DEF SimpleChain
    <2>4. CASE d \in unprocessed /\ Enter(d)
      BY <2>1, <2>4, EnterAdvances
    <2> QED BY <1>3, <2>2, <2>3, <2>4 DEF Depend
  <1>4. CASE ProcessTop
    <2> DEFINE n == Len(chain)
               y == Top.service
    <2>1. /\ status = "working" /\ chain # <<>> /\ SetProcessed(y)
          /\ chain' = SubSeq(chain, 1, n - 1) /\ dependsOn' = dependsOn
      BY <1>4 DEF ProcessTop
    <2>2. /\ n \in Nat \ {0} /\ DOMAIN chain = 1..n /\ Top = chain[n] /\ chain \in Seq(Call)
      BY <1>0, <2>1, Innermost DEF TypeOK
    <2>3. DOMAIN chain' = 1..(n - 1) /\ \A k \in 1..(n - 1) : chain'[k] = chain[k]
      BY <2>1, <2>2
    <2>4. y \in unprocessed /\ \A k \in 1..(n - 1) : chain[k].service # y
      BY <2>2 DEF SimpleChain
    <2>5. unprocessed' = unprocessed \ {y}
      BY <2>1, <2>4 DEF SetProcessed
    <2>6. SimpleChain'
      BY <2>1, <2>2, <2>3, <2>4, <2>5 DEF SimpleChain
    <2>7. Nearer
      BY <2>4, <2>5 DEF Nearer
    <2> QED BY <2>1, <2>6, <2>7
  <1> QED BY <1>1, <1>2, <1>3, <1>4 DEF Next

\* The recursion is never deeper than there are services left to process.
DepthBounded == Len(chain) <= Cardinality(unprocessed)

\* A simple chain is no longer than the list of unprocessed services.
LEMMA SimpleChainIsShort ==
    ASSUME TypeOK, SimpleChain, IsFiniteSet(Services)
    PROVE  DepthBounded
PROOF
  <1> DEFINE n == Len(chain)
             f == [k \in 1..n |-> chain[k].service]
  <1>1. n \in Nat /\ DOMAIN chain = 1..n /\ unprocessed \subseteq Services
    BY DEF TypeOK
  <1>2. f \in [1..n -> unprocessed]
    BY <1>1 DEF SimpleChain
  <1>3. \A j, k \in 1..n : f[j] = f[k] => j = k
    BY <1>1 DEF SimpleChain
  <1>4. IsFiniteSet(unprocessed) /\ Cardinality(unprocessed) \in Nat
    BY <1>1, FS_Subset, FS_CardinalityType
  <1> HIDE DEF n, f
  <1>5. IsFiniteSet(1..n) /\ Cardinality(1..n) = n
    <2>1. IsFiniteSet(1..n) /\ Cardinality(1..n) = IF 1 > n THEN 0 ELSE n - 1 + 1
      BY <1>1, FS_Interval
    <2> QED BY <1>1, <2>1
  <1>6. ~(Cardinality(unprocessed) < Cardinality(1..n))
    <2> SUFFICES ASSUME Cardinality(unprocessed) < Cardinality(1..n) PROVE FALSE
      OBVIOUS
    <2>1. \E j, k \in 1..n : j # k /\ f[j] = f[k]
      BY <1>2, <1>4, <1>5, FS_PigeonHole
    <2> QED BY <1>3, <2>1
  <1> QED BY <1>1, <1>4, <1>5, <1>6 DEF DepthBounded, n

-----------------------------------------------------------------------------
(* The theorems *)

\* Whatever the services depend on, and in whatever order they come out of the
\* maps, the order is right, every service has its one place and a refusal has
\* its reason (processDependsOn).
THEOREM OrderHolds == Spec => [](TopologicalOrder /\ EachOnce /\ RefusedForAReason)
PROOF
  <1>1. Init => OrderInv
    BY OrderStart DEF Init
  <1>2. OrderInv /\ [Next]_vars => OrderInv'
    <2>1. CASE UNCHANGED vars
      BY <2>1 DEF vars, OrderInv, TypeOK, EachOnce, TopologicalOrder, ChainOK,
                  RefusedForAReason, Circular
    <2> QED BY <2>1, OrderStep
  <1>3. OrderInv => TopologicalOrder /\ EachOnce /\ RefusedForAReason
    BY DEF OrderInv
  <1> QED BY <1>1, <1>2, <1>3, PTL DEF Spec

\* However the services depend on each other, the recursion of processDependsOn
\* is never deeper than there are services left.
THEOREM DepthIsBounded == ASSUME IsFiniteSet(Services) PROVE Spec => []DepthBounded
PROOF
  <1> DEFINE Inv == OrderInv /\ SimpleChain
  <1>1. Init => Inv
    BY OrderStart DEF Init, SimpleChain
  <1>2. Inv /\ [Next]_vars => Inv'
    <2>1. CASE UNCHANGED vars
      BY <2>1 DEF vars, OrderInv, TypeOK, EachOnce, TopologicalOrder, ChainOK,
                  RefusedForAReason, Circular, SimpleChain
    <2> QED BY <2>1, OrderStep, StepAdvances
  <1>3. Inv => DepthBounded
    BY SimpleChainIsShort DEF OrderInv
  <1> QED BY <1>1, <1>2, <1>3, PTL DEF Spec
=============================================================================
