---------------------------- MODULE CIConfigProofs ----------------------------
(***************************************************************************)
(* Proofs about CIConfig, for any services and anything ci.yaml may say of *)
(* them.  The inductive invariant IInv follows each service through the    *)
(* loops: it is as it was written, then as Service.Initialize leaves it,   *)
(* then as ApplyBaseService does, and each of the three is a function of   *)
(* what was written, whatever the other services have come to.             *)
(***************************************************************************)
EXTENDS CIConfig, DependsOnProofs, WellFoundedInduction

IsWritten(s) ==
    \/ stage = "credentials"
    \/ stage = "thirdServices" /\ s \notin ThirdServices \ todo
    \/ stage = "thirdBases" /\ s \in OwnServices
    \/ stage = "services" /\ s \in todo

IsInitialized(s) ==
    \/ stage = "thirdServices" /\ s \in ThirdServices \ todo
    \/ stage = "thirdBases" /\ s \in todo
    \/ stage = "services" /\ s \in OwnServices \ todo
    \/ stage = "bases" /\ s \in todo

IsResolved(s) ==
    \/ stage = "thirdBases" /\ s \in ThirdServices \ todo
    \/ stage = "services" /\ s \in ThirdServices
    \/ stage = "bases" /\ s \in Services \ todo
    \/ stage = "order"

AsWritten(s) ==
    /\ service[s] = Entry(s)
    /\ dependsOn[s] = written.dependsOn[s]

AsInitialized(s) ==
    /\ Valid(Entry(s))
    /\ service[s] = WithDefaults(Entry(s))
    /\ dependsOn[s] = written.dependsOn[s]
    /\ Based(s) => snapShot[s] = [service |-> Clone(Entry(s)), dependsOn |-> written.dependsOn[s]]

AsResolved(s) ==
    /\ Valid(Entry(s))
    /\ ~Based(s) =>
          service[s] = WithDefaults(Entry(s)) /\ dependsOn[s] = written.dependsOn[s]
    /\ Based(s) =>
          /\ GoodBase(s)
          /\ Valid(Entry(Entry(s).base))
          /\ service[s] = Applied(Clone(Entry(s)), WithDefaults(Entry(Entry(s).base)))
          /\ dependsOn[s] = InheritedDependsOn(written.dependsOn[s],
                                               written.dependsOn[Entry(s).base])

Resolution ==
    \A s \in Services :
        /\ IsWritten(s) => AsWritten(s)
        /\ IsInitialized(s) => AsInitialized(s)
        /\ IsResolved(s) => AsResolved(s)

\* The loops stay in their map.
Loops ==
    /\ stage \in {"thirdServices", "thirdBases"} => todo \subseteq ThirdServices
    /\ stage \in {"services", "bases"} => todo \subseteq OwnServices

\* The ordering has not begun.
Unordered ==
    stage # "order" =>
        unprocessed = Services /\ processed = <<>> /\ chain = <<>> /\ status = "working"

\* What the checks that were passed, and the one that was not, say of ci.yaml.
Checked ==
    /\ stage \in Refusals => ~WellFormed
    /\ stage \notin Refusals \cup {"credentials"} => written.credentials
    /\ stage \in {"services", "bases", "order"} => OwnServices # {}
    /\ stage \in {"bases", "order"} => ~written.clash

IInv ==
    /\ CITypeOK
    /\ OrderInv
    /\ Unordered
    /\ Loops
    /\ Checked
    /\ Resolution

-----------------------------------------------------------------------------
(* The operators *)

LEMMA DefaultsFields ==
    ASSUME NEW y \in Service
    PROVE  /\ WithDefaults(y) \in Service
           /\ WithDefaults(y).base = y.base /\ WithDefaults(y).image = y.image
           /\ WithDefaults(y).env = y.env
           /\ WithDefaults(y).disableCommonEnv = y.disableCommonEnv
           /\ WithDefaults(y).assertions = IF y.assertions = Nil THEN "default" ELSE y.assertions
BY DEF WithDefaults, Service

LEMMA CloneFields ==
    ASSUME NEW y \in Service
    PROVE  /\ Clone(y) \in Service
           /\ Clone(y).base = y.base /\ Clone(y).image = y.image /\ Clone(y).env = y.env
           /\ Clone(y).assertions = y.assertions /\ Clone(y).disableCommonEnv = FALSE
BY DEF Clone, Service

LEMMA AppliedFields ==
    ASSUME NEW own \in Service, NEW base \in Service
    PROVE  /\ Applied(own, base) \in Service
           /\ Applied(own, base).base = own.base /\ Applied(own, base).image = base.image
           /\ Applied(own, base).env = IF own.env # Nil THEN own.env ELSE base.env
           /\ Applied(own, base).assertions =
                 IF own.assertions # Nil THEN own.assertions ELSE base.assertions
           /\ Applied(own, base).disableCommonEnv = FALSE
PROOF
  <1>1. /\ Clone(base) \in Service
        /\ Clone(base).image = base.image /\ Clone(base).env = base.env
        /\ Clone(base).assertions = base.assertions /\ Clone(base).disableCommonEnv = FALSE
    BY CloneFields
  <1> QED BY <1>1 DEF Applied, Service

\* What the type of the definitions says of one service.
LEMMA EntryType ==
    ASSUME CITypeOK, NEW s \in Services
    PROVE  /\ Entry(s) \in Service /\ Entry(s).base \in BaseNames
           /\ written.dependsOn[s] \in Lists /\ service[s] \in Service /\ dependsOn[s] \in Lists
BY DEF CITypeOK, TypeOK, Definition, Service, Entry

-----------------------------------------------------------------------------
(* The steps of the loops *)

\* A step before the ordering leaves the ordering where it starts.
LEMMA OrderWaits ==
    ASSUME CITypeOK, Unordered, stage # "order", dependsOn' \in [Services -> Lists],
           UNCHANGED <<written, unprocessed, processed, chain, status>>
    PROVE  TypeOK' /\ OrderInv' /\ Unordered'
PROOF
  <1>1. /\ unprocessed' = Services /\ processed' = <<>> /\ chain' = <<>>
        /\ status' = "working"
    BY DEF Unordered
  <1> QED BY <1>1 DEF OrderInv, TypeOK, EachOnce, TopologicalOrder, ChainOK, RefusedForAReason,
                      Elements, Unordered

\* Whether ci.yaml is well formed does not change.
LEMMA SameDefinition ==
    ASSUME written' = written
    PROVE  /\ WellFormed' = WellFormed
           /\ \A s \in Services : AsWritten(s)' = (/\ service'[s] = Entry(s)
                                                  /\ dependsOn'[s] = written.dependsOn[s])
BY DEF WellFormed, Entry, Based, GoodBase, Dependency, AsWritten

\* A refusal of what is not well formed.
LEMMA RefuseKeeps ==
    ASSUME IInv, stage # "order", NEW reason \in Refusals, Refuse(reason), ~WellFormed,
           UNCHANGED <<written, unprocessed, processed, chain, status>>
    PROVE  IInv'
PROOF
  <1>1. stage' = reason /\ UNCHANGED <<written, todo, service, snapShot, dependsOn>>
    BY DEF Refuse
  <1>2. TypeOK' /\ OrderInv' /\ Unordered'
    BY <1>1, OrderWaits DEF IInv, CITypeOK, TypeOK
  <1>3. CITypeOK'
    BY <1>1, <1>2 DEF IInv, CITypeOK
  <1>4. stage' \notin {"credentials", "thirdServices", "thirdBases", "services", "bases", "order"}
    BY <1>1 DEF Refusals
  <1>5. Loops' /\ Resolution'
    BY <1>4 DEF Loops, Resolution, IsWritten, IsInitialized, IsResolved
  <1>6. Checked'
    BY <1>1, <1>4, SameDefinition DEF Checked
  <1> QED BY <1>2, <1>3, <1>5, <1>6 DEF IInv

\* A loop is done with one service, and has changed no other one.
LEMMA RoundKeeps ==
    ASSUME IInv, stage \in {"thirdServices", "thirdBases", "services", "bases"},
           NEW s \in todo, todo' = todo \ {s}, stage' = stage,
           UNCHANGED <<written, unprocessed, processed, chain, status>>,
           dependsOn' \in [Services -> Lists], service' \in [Services -> Service],
           snapShot' \in [Services -> [service : Service, dependsOn : Lists] \cup {NoSnapShot}],
           \A r \in Services \ {s} : /\ service'[r] = service[r]
                                    /\ dependsOn'[r] = dependsOn[r]
                                    /\ snapShot'[r] = snapShot[r],
           stage \in {"thirdServices", "services"} => AsInitialized(s)',
           stage \in {"thirdBases", "bases"} => AsResolved(s)'
    PROVE  IInv'
PROOF
  <1>1. stage # "order" /\ stage' \notin Refusals /\ s \in Services /\ todo \subseteq Services
    BY DEF Refusals, IInv, CITypeOK
  <1>2. TypeOK' /\ OrderInv' /\ Unordered'
    BY <1>1, OrderWaits DEF IInv
  <1>3. CITypeOK'
    BY <1>1, <1>2 DEF IInv, CITypeOK
  <1>4. Loops'
    BY DEF IInv, Loops
  <1>5. Checked'
    BY <1>1, SameDefinition DEF IInv, Checked
  <1>6. ASSUME NEW r \in Services \ {s}
        PROVE  /\ IsWritten(r)' => AsWritten(r)'
               /\ IsInitialized(r)' => AsInitialized(r)'
               /\ IsResolved(r)' => AsResolved(r)'
    <2>1. /\ IsWritten(r)' = IsWritten(r) /\ IsInitialized(r)' = IsInitialized(r)
          /\ IsResolved(r)' = IsResolved(r)
      BY DEF IsWritten, IsInitialized, IsResolved
    <2>2. /\ AsWritten(r)' = AsWritten(r) /\ AsInitialized(r)' = AsInitialized(r)
          /\ AsResolved(r)' = AsResolved(r)
      BY <1>6 DEF AsWritten, AsInitialized, AsResolved, Entry, Based, GoodBase
    <2> QED BY <2>1, <2>2 DEF IInv, Resolution
  <1>7. /\ ~IsWritten(s)'
        /\ IsInitialized(s)' => stage \in {"thirdServices", "services"}
        /\ IsResolved(s)' => stage \in {"thirdBases", "bases"}
    BY <1>1 DEF IsWritten, IsInitialized, IsResolved, IInv, Loops, OwnServices
  <1>8. Resolution'
    BY <1>1, <1>6, <1>7 DEF Resolution
  <1> QED BY <1>2, <1>3, <1>4, <1>5, <1>8 DEF IInv

\* A loop has come to its end, or the credentials are in order: the next part
\* of CI.Initialize finds each service as it expects it.
LEMMA ContinueKeeps ==
    ASSUME IInv, NEW next, NEW services \in SUBSET Services, Continue(next, services),
           UNCHANGED <<written, unprocessed, processed, chain, status>>,
           \/ /\ stage = "credentials" /\ next = "thirdServices" /\ services = ThirdServices
              /\ written.credentials
           \/ /\ stage = "thirdServices" /\ next = "thirdBases" /\ services = ThirdServices
              /\ todo = {}
           \/ /\ stage = "thirdBases" /\ next = "services" /\ services = OwnServices
              /\ todo = {} /\ OwnServices # {}
           \/ /\ stage = "services" /\ next = "bases" /\ services = OwnServices
              /\ todo = {} /\ ~written.clash
           \/ stage = "bases" /\ next = "order" /\ services = {} /\ todo = {}
    PROVE  IInv'
PROOF
  <1>1. /\ stage' = next /\ todo' = services /\ UNCHANGED <<written, service, snapShot, dependsOn>>
        /\ stage # "order" /\ stage' \notin Refusals
    BY DEF Continue, Refusals
  <1>2. TypeOK' /\ OrderInv' /\ Unordered'
    BY <1>1, OrderWaits DEF IInv, CITypeOK, TypeOK
  <1>3. CITypeOK'
    BY <1>1, <1>2 DEF IInv, CITypeOK
  <1>4. Loops' /\ Checked'
    BY <1>1, SameDefinition DEF IInv, Loops, Checked, Refusals
  <1>5. ASSUME NEW s \in Services
        PROVE  /\ IsWritten(s)' => AsWritten(s)'
               /\ IsInitialized(s)' => AsInitialized(s)'
               /\ IsResolved(s)' => AsResolved(s)'
    <2>1. /\ IsWritten(s)' => IsWritten(s)
          /\ IsInitialized(s)' => IsInitialized(s)
          /\ IsResolved(s)' => IsResolved(s) \/ (stage = "bases" /\ todo = {})
      BY <1>1 DEF IsWritten, IsInitialized, IsResolved, OwnServices
    <2>2. /\ AsWritten(s)' = AsWritten(s) /\ AsInitialized(s)' = AsInitialized(s)
          /\ AsResolved(s)' = AsResolved(s)
      BY <1>1 DEF AsWritten, AsInitialized, AsResolved, Entry, Based, GoodBase
    <2>3. stage = "bases" /\ todo = {} => IsResolved(s)
      BY DEF IsResolved
    <2> QED BY <2>1, <2>2, <2>3 DEF IInv, Resolution
  <1>6. Resolution'
    BY <1>5 DEF Resolution
  <1> QED BY <1>2, <1>3, <1>4, <1>6 DEF IInv

-----------------------------------------------------------------------------
(* The inductive invariant *)

\* Service.Initialize makes of what was written what AsInitialized says.
LEMMA InitializeStep ==
    ASSUME IInv, stage \in {"thirdServices", "services"}, NEW s \in todo, InitializeService(s),
           UNCHANGED <<written, unprocessed, processed, chain, status>>
    PROVE  IInv'
PROOF
  <1>1. s \in Services /\ stage # "order"
    BY DEF IInv, CITypeOK
  <1>2. /\ Entry(s) \in Service /\ service[s] \in Service /\ written.dependsOn[s] \in Lists
        /\ service \in [Services -> Service] /\ dependsOn \in [Services -> Lists]
        /\ snapShot \in [Services -> [service : Service, dependsOn : Lists] \cup {NoSnapShot}]
    BY <1>1, EntryType DEF IInv, CITypeOK, TypeOK
  <1>3. AsWritten(s)
    BY <1>1 DEF IInv, Resolution, IsWritten
  <1>4. CASE Valid(service[s])
    <2>1. /\ service' = [service EXCEPT ![s] = WithDefaults(@)]
          /\ snapShot' = IF HasBaseService(service[s])
                         THEN [snapShot EXCEPT ![s] = [service |-> SnapShot(service[s]),
                                                       dependsOn |-> dependsOn[s]]]
                         ELSE snapShot
          /\ todo' = todo \ {s} /\ stage' = stage /\ dependsOn' = dependsOn
      BY <1>4 DEF InitializeService
    <2>2. WithDefaults(service[s]) \in Service /\ SnapShot(service[s]) \in Service
      BY <1>2, DefaultsFields, CloneFields DEF SnapShot
    <2>3. /\ service' \in [Services -> Service] /\ dependsOn' \in [Services -> Lists]
          /\ snapShot' \in [Services -> [service : Service, dependsOn : Lists] \cup {NoSnapShot}]
      BY <1>2, <2>1, <2>2
    <2>4. AsInitialized(s)'
      BY <1>1, <1>2, <1>3, <1>4, <2>1
         DEF AsInitialized, AsWritten, SnapShot, HasBaseService, Based, Entry
    <2>5. \A r \in Services \ {s} : /\ service'[r] = service[r]
                                    /\ dependsOn'[r] = dependsOn[r]
                                    /\ snapShot'[r] = snapShot[r]
      BY <1>2, <2>1
    <2> QED BY <2>1, <2>3, <2>4, <2>5, RoundKeeps
  <1>5. CASE ~Valid(service[s])
    <2>1. Refuse("invalid")
      BY <1>5 DEF InitializeService
    <2>2. ~WellFormed
      BY <1>1, <1>3, <1>5 DEF AsWritten, Valid, WellFormed, HasBaseService, Based
    <2> QED BY <1>1, <2>1, <2>2, RefuseKeeps DEF Refusals
  <1> QED BY <1>4, <1>5

\* What the loop over the base services knows of the service it looks up: all
\* of the same map are initialized, and those without a base service stay so.
LEMMA BaseKnown ==
    ASSUME IInv, stage \in {"thirdBases", "bases"}, NEW s \in todo
    PROVE  /\ AsInitialized(s) /\ service[s].base = Entry(s).base
           /\ \A b \in Siblings(s) :
                 /\ b \in Services /\ Valid(Entry(b)) /\ service[b].base = Entry(b).base
                 /\ ~Based(b) => /\ service[b] = WithDefaults(Entry(b))
                                 /\ dependsOn[b] = written.dependsOn[b]
PROOF
  <1>1. s \in Services /\ AsInitialized(s)
    BY DEF IInv, CITypeOK, Resolution, IsInitialized
  <1>2. service[s].base = Entry(s).base
    BY <1>1, EntryType, DefaultsFields DEF AsInitialized, IInv
  <1>3. ASSUME NEW b \in Siblings(s)
        PROVE  /\ b \in Services /\ Valid(Entry(b)) /\ service[b].base = Entry(b).base
               /\ ~Based(b) => /\ service[b] = WithDefaults(Entry(b))
                               /\ dependsOn[b] = written.dependsOn[b]
    <2>1. b \in Services /\ (IsInitialized(b) \/ IsResolved(b))
      BY <1>1, <1>3, DependsOnAssumption
         DEF Siblings, OwnServices, IsInitialized, IsResolved, IInv, Loops
    <2>2. Entry(b) \in Service /\ Entry(b).base \in BaseNames
      BY <2>1, EntryType DEF IInv
    <2>3. CASE AsInitialized(b)
      BY <2>1, <2>2, <2>3, DefaultsFields DEF AsInitialized
    <2>4. CASE AsResolved(b) /\ ~Based(b)
      BY <2>1, <2>2, <2>4, DefaultsFields DEF AsResolved
    <2>5. CASE AsResolved(b) /\ Based(b)
      <3>1. Entry(b).base \in Services
        BY <2>1, <2>5, DependsOnAssumption DEF AsResolved, GoodBase, Siblings, OwnServices
      <3>2. /\ WithDefaults(Entry(Entry(b).base)) \in Service
            /\ Clone(Entry(b)) \in Service /\ Clone(Entry(b)).base = Entry(b).base
        BY <2>2, <3>1, EntryType, DefaultsFields, CloneFields DEF IInv
      <3>3. service[b] = Applied(Clone(Entry(b)), WithDefaults(Entry(Entry(b).base)))
        BY <2>5 DEF AsResolved
      <3>4. Applied(Clone(Entry(b)), WithDefaults(Entry(Entry(b).base))).base = Clone(Entry(b)).base
        BY <3>2, AppliedFields
      <3>5. service[b].base = Entry(b).base
        BY <3>2, <3>3, <3>4
      <3> QED BY <2>1, <2>5, <3>5 DEF AsResolved
    <2> QED BY <2>1, <2>3, <2>4, <2>5 DEF IInv, Resolution
  <1> QED BY <1>1, <1>2, <1>3

\* ApplyBaseService makes of what was written what AsResolved says.
LEMMA ApplyStep ==
    ASSUME IInv, stage \in {"thirdBases", "bases"}, NEW s \in todo,
           HasBaseService(service[s]), BaseAllowed(s), ApplyBaseService(s),
           UNCHANGED <<written, unprocessed, processed, chain, status>>
    PROVE  IInv'
PROOF
  <1> DEFINE b == service[s].base
  <1>1. /\ s \in Services /\ service \in [Services -> Service] /\ dependsOn \in [Services -> Lists]
        /\ snapShot \in [Services -> [service : Service, dependsOn : Lists] \cup {NoSnapShot}]
    BY DEF IInv, CITypeOK, TypeOK
  <1>2. /\ AsInitialized(s) /\ b = Entry(s).base /\ Based(s)
        /\ b \in Siblings(s) \ {s} /\ b \in Services /\ Valid(Entry(b)) /\ ~Based(b)
        /\ service[b] = WithDefaults(Entry(b)) /\ dependsOn[b] = written.dependsOn[b]
    BY BaseKnown DEF BaseAllowed, HasBaseService, Based
  <1>3. snapShot[s] = [service |-> Clone(Entry(s)), dependsOn |-> written.dependsOn[s]]
    BY <1>2 DEF AsInitialized
  <1>4. /\ Clone(Entry(s)) \in Service /\ WithDefaults(Entry(b)) \in Service
        /\ written.dependsOn[s] \in Lists /\ written.dependsOn[b] \in Lists
    BY <1>1, <1>2, EntryType, CloneFields, DefaultsFields DEF IInv
  <1> DEFINE new == Applied(Clone(Entry(s)), WithDefaults(Entry(b)))
             list == InheritedDependsOn(written.dependsOn[s], written.dependsOn[b])
  <1>5. new \in Service /\ list \in Lists
    BY <1>4, AppliedFields DEF InheritedDependsOn
  <1>6. /\ service' = [service EXCEPT ![s] = new]
        /\ dependsOn' = [dependsOn EXCEPT ![s] = list]
        /\ snapShot' = [snapShot EXCEPT ![s] = NoSnapShot]
        /\ todo' = todo \ {s} /\ stage' = stage
    BY <1>2, <1>3 DEF ApplyBaseService
  <1> HIDE DEF new, list
  <1>7. /\ service' \in [Services -> Service] /\ dependsOn' \in [Services -> Lists]
        /\ snapShot' \in [Services -> [service : Service, dependsOn : Lists] \cup {NoSnapShot}]
        /\ service'[s] = new /\ dependsOn'[s] = list
    BY <1>1, <1>5, <1>6
  <1>8. AsResolved(s)'
    <2>1. GoodBase(s) /\ Valid(Entry(s))
      BY <1>2 DEF GoodBase, AsInitialized
    <2> QED BY <1>2, <1>7, <2>1 DEF AsResolved, Entry, Based, GoodBase, new, list
  <1>9. \A r \in Services \ {s} : /\ service'[r] = service[r]
                                  /\ dependsOn'[r] = dependsOn[r]
                                  /\ snapShot'[r] = snapShot[r]
    BY <1>1, <1>6
  <1> QED BY <1>6, <1>7, <1>8, <1>9, RoundKeeps

\* The loop over the base services, whatever it finds.
LEMMA ApplyBaseServicesStep ==
    ASSUME IInv, ApplyBaseServices,
           UNCHANGED <<written, unprocessed, processed, chain, status>>
    PROVE  IInv'
PROOF
  <1>1. stage \in {"thirdBases", "bases"} /\ stage # "order"
    BY DEF ApplyBaseServices
  <1>2. ASSUME NEW s \in todo, ~HasBaseService(service[s]), todo' = todo \ {s},
               UNCHANGED <<stage, service, snapShot, dependsOn>>
        PROVE  IInv'
    <2>1. s \in Services /\ AsInitialized(s) /\ ~Based(s)
      BY <1>1, <1>2, BaseKnown DEF HasBaseService, Based, IInv, CITypeOK
    <2>2. AsResolved(s)'
      BY <1>2, <2>1 DEF AsResolved, AsInitialized, Entry, Based
    <2> QED BY <1>1, <1>2, <2>2, RoundKeeps DEF IInv, CITypeOK, TypeOK
  <1>3. ASSUME NEW s \in todo, HasBaseService(service[s]), BaseAllowed(s), ApplyBaseService(s)
        PROVE  IInv'
    BY <1>1, <1>3, ApplyStep
  <1>4. ASSUME NEW s \in todo, HasBaseService(service[s]), ~BaseAllowed(s), Refuse("noBase")
        PROVE  IInv'
    <2>1. s \in Services /\ Based(s) /\ ~GoodBase(s)
      BY <1>1, <1>4, BaseKnown
         DEF HasBaseService, Based, BaseAllowed, GoodBase, IInv, CITypeOK
    <2>2. ~WellFormed
      BY <2>1 DEF WellFormed
    <2> QED BY <1>1, <1>4, <2>2, RefuseKeeps DEF Refusals
  <1>5. ASSUME todo = {}, stage = "thirdBases", AfterThirdBases
        PROVE  IInv'
    <2>1. CASE OwnServices = {}
      <3>1. Refuse("invalid") /\ ~WellFormed
        BY <1>5, <2>1 DEF AfterThirdBases, WellFormed
      <3> QED BY <1>1, <3>1, RefuseKeeps DEF Refusals
    <2>2. CASE OwnServices # {}
      <3>1. Continue("services", OwnServices) /\ OwnServices \in SUBSET Services
        BY <1>5, <2>2 DEF AfterThirdBases, OwnServices
      <3> QED BY <1>5, <2>2, <3>1, ContinueKeeps
    <2> QED BY <2>1, <2>2
  <1>6. ASSUME todo = {}, stage = "bases", Continue("order", {})
        PROVE  IInv'
    BY <1>6, ContinueKeeps
  <1> QED BY <1>2, <1>3, <1>4, <1>5, <1>6 DEF ApplyBaseServices

\* Every step before the ordering.
LEMMA ResolveStep ==
    ASSUME IInv, Resolve
    PROVE  IInv'
PROOF
  <1>1. UNCHANGED <<written, unprocessed, processed, chain, status>>
    BY DEF Resolve
  <1>2. CASE ValidateCredentials
    <2>1. stage = "credentials"
      BY <1>2 DEF ValidateCredentials
    <2>2. CASE written.credentials
      <3>1. Continue("thirdServices", ThirdServices) /\ ThirdServices \in SUBSET Services
        BY <1>2, <2>2, DependsOnAssumption DEF ValidateCredentials
      <3> QED BY <1>1, <2>1, <2>2, <3>1, ContinueKeeps
    <2>3. CASE ~written.credentials
      <3>1. Refuse("invalid") /\ ~WellFormed
        BY <1>2, <2>3 DEF ValidateCredentials, WellFormed
      <3> QED BY <1>1, <2>1, <3>1, RefuseKeeps DEF Refusals
    <2> QED BY <2>2, <2>3
  <1>3. CASE InitializeServices
    <2>1. ASSUME NEW s \in todo, InitializeService(s), stage \in {"thirdServices", "services"}
          PROVE  IInv'
      BY <1>1, <2>1, InitializeStep
    <2>2. ASSUME todo = {}, stage = "thirdServices", Continue("thirdBases", ThirdServices)
          PROVE  IInv'
      BY <1>1, <2>2, ContinueKeeps, DependsOnAssumption
    <2>3. ASSUME todo = {}, stage = "services", ~written.clash, Continue("bases", OwnServices)
          PROVE  IInv'
      <3>1. OwnServices \in SUBSET Services
        BY DEF OwnServices
      <3> QED BY <1>1, <2>3, <3>1, ContinueKeeps
    <2> QED BY <1>3, <2>1, <2>2, <2>3 DEF InitializeServices
  <1>4. CASE NameTaken
    <2>1. stage = "services" /\ Refuse("duplicate") /\ ~WellFormed
      BY <1>4 DEF NameTaken, WellFormed
    <2> QED BY <1>1, <2>1, RefuseKeeps DEF Refusals
  <1>5. CASE ApplyBaseServices
    BY <1>1, <1>5, ApplyBaseServicesStep
  <1> QED BY <1>2, <1>3, <1>4, <1>5 DEF Resolve

\* The invariant holds at first, and every step keeps it.
LEMMA Inductive ==
    /\ CIInit => IInv
    /\ IInv /\ [CINext]_ciVars => IInv'
PROOF
  <1>1. ASSUME CIInit PROVE IInv
    <2>1. /\ written \in Definition /\ stage = "credentials" /\ todo = {}
          /\ service = written.services /\ dependsOn = written.dependsOn
          /\ snapShot = [s \in Services |-> NoSnapShot]
          /\ unprocessed = Services /\ processed = <<>> /\ chain = <<>> /\ status = "working"
      BY <1>1, CIConfigAssumption DEF CIInit
    <2>2. service \in [Services -> Service] /\ dependsOn \in [Services -> Lists]
      BY <2>1 DEF Definition
    <2>3. OrderInv
      BY <2>1, <2>2, OrderStart
    <2>4. CITypeOK
      BY <2>1, <2>2, <2>3 DEF CITypeOK, OrderInv
    <2>5. Unordered /\ Loops /\ Checked
      BY <2>1 DEF Unordered, Loops, Checked, Refusals
    <2>6. Resolution
      BY <2>1 DEF Resolution, IsWritten, IsInitialized, IsResolved, AsWritten, Entry
    <2> QED BY <2>3, <2>4, <2>5, <2>6 DEF IInv
  <1>2. ASSUME IInv, Resolve PROVE IInv'
    BY <1>2, ResolveStep
  <1>3. ASSUME IInv, ProcessDependsOn PROVE IInv'
    <2>1. stage = "order" /\ Next /\ UNCHANGED resolving /\ dependsOn' = dependsOn
      BY <1>3 DEF ProcessDependsOn, Next, Pick, Finish, Depend, ProcessTop
    <2>2. OrderInv'
      BY <1>3, <2>1, OrderStep DEF IInv
    <2>3. CITypeOK' /\ Unordered' /\ Loops'
      BY <1>3, <2>1, <2>2 DEF IInv, CITypeOK, OrderInv, Unordered, Loops, resolving
    <2>4. Checked'
      BY <1>3, <2>1, SameDefinition DEF IInv, Checked, resolving
    <2>5. Resolution'
      BY <1>3, <2>1 DEF IInv, Resolution, IsWritten, IsInitialized, IsResolved, AsWritten,
                        AsInitialized, AsResolved, Entry, Based, GoodBase, resolving
    <2> QED BY <2>2, <2>3, <2>4, <2>5 DEF IInv
  <1>4. ASSUME IInv, UNCHANGED ciVars PROVE IInv'
    <2>1. UNCHANGED <<dependsOn, unprocessed, processed, chain, status>> /\ UNCHANGED resolving
      BY <1>4 DEF ciVars, vars
    <2>2. OrderInv'
      BY <1>4, <2>1 DEF IInv, OrderInv, TypeOK, EachOnce, TopologicalOrder, ChainOK,
                        RefusedForAReason, Circular
    <2>3. CITypeOK' /\ Unordered' /\ Loops'
      BY <1>4, <2>1, <2>2 DEF IInv, CITypeOK, OrderInv, Unordered, Loops, resolving
    <2>4. Checked'
      BY <1>4, <2>1, SameDefinition DEF IInv, Checked, resolving
    <2>5. Resolution'
      BY <1>4, <2>1 DEF IInv, Resolution, IsWritten, IsInitialized, IsResolved, AsWritten,
                        AsInitialized, AsResolved, Entry, Based, GoodBase, resolving
    <2> QED BY <2>2, <2>3, <2>4, <2>5 DEF IInv
  <1> QED BY <1>1, <1>2, <1>3, <1>4 DEF CINext

-----------------------------------------------------------------------------
(* The theorems *)

\* CI.Initialize keeps to the types of what it works on.
THEOREM CITypeCorrect == CISpec => []CITypeOK
PROOF
  <1>1. IInv => CITypeOK
    BY DEF IInv
  <1> QED BY <1>1, Inductive, PTL DEF CISpec

\* The sequence CI.Initialize makes has every service once, after all that it
\* depends on by its own word or its base service's (processDependsOn).
THEOREM SequenceIsInOrder == CISpec => [](TopologicalOrder /\ EachOnce)
PROOF
  <1>1. IInv => TopologicalOrder /\ EachOnce
    BY DEF IInv, OrderInv
  <1> QED BY <1>1, Inductive, PTL DEF CISpec

\* What processDependsOn refuses is a circle that exists or a name that does not.
THEOREM RefusalsHaveReasons == CISpec => []RefusedForAReason
PROOF
  <1>1. IInv => RefusedForAReason
    BY DEF IInv, OrderInv
  <1> QED BY <1>1, Inductive, PTL DEF CISpec

\* What is accepted, or refused by the ordering, went through all the loops.
LEMMA AllResolved ==
    ASSUME IInv, status # "working", NEW s \in Services
    PROVE  AsResolved(s) /\ stage = "order"
BY DEF IInv, Unordered, Resolution, IsResolved

\* What a service depends on in the end is what it should depend on.
LEMMA ResolvedDependency ==
    ASSUME IInv, NEW s \in Services, AsResolved(s)
    PROVE  Elements(dependsOn[s]) = Dependency(s)
PROOF
  <1>1. written.dependsOn[s] \in Seq(Names)
    BY EntryType, DependsOnAssumption DEF IInv
  <1>2. Len(written.dependsOn[s]) > 0 <=> written.dependsOn[s] # <<>>
    BY <1>1
  <1> QED BY <1>2 DEF AsResolved, Dependency, InheritedDependsOn

\* Each service ends as what it says and what its base service says, whichever
\* of them the loops over the maps came to first (ApplyBaseService).
THEOREM Inheritance == CISpec => []InheritsUnlessSet
PROOF
  <1>1. ASSUME IInv, Accepted, NEW s \in Services
        PROVE  LET b == IF Based(s) THEN Entry(s).base ELSE s
                   First(own, base) == IF own # Nil THEN own ELSE base
               IN  /\ service[s].image = Entry(b).image
                   /\ service[s].env = First(Entry(s).env, Entry(b).env)
                   /\ service[s].assertions =
                         First(First(Entry(s).assertions, Entry(b).assertions), "default")
                   /\ service[s].disableCommonEnv = (Entry(s).disableCommonEnv /\ ~Based(s))
                   /\ Elements(dependsOn[s]) = Dependency(s)
    <2>1. AsResolved(s)
      BY <1>1, AllResolved DEF Accepted
    <2>2. Elements(dependsOn[s]) = Dependency(s)
      BY <1>1, <2>1, ResolvedDependency
    <2>3. Entry(s) \in Service
      BY <1>1, EntryType DEF IInv
    <2>4. CASE ~Based(s)
      <3>1. service[s] = WithDefaults(Entry(s))
        BY <2>1, <2>4 DEF AsResolved
      <3> DEFINE y == WithDefaults(Entry(s))
      <3>2. /\ y.image = Entry(s).image /\ y.env = Entry(s).env
            /\ y.disableCommonEnv = Entry(s).disableCommonEnv
            /\ y.assertions =
                  IF Entry(s).assertions = Nil THEN "default" ELSE Entry(s).assertions
            /\ Entry(s).disableCommonEnv \in BOOLEAN
        BY <2>3, DefaultsFields DEF Service
      <3> HIDE DEF y
      <3>3. /\ service[s].image = Entry(s).image /\ service[s].env = Entry(s).env
            /\ service[s].disableCommonEnv = Entry(s).disableCommonEnv
            /\ service[s].assertions =
                  IF Entry(s).assertions = Nil THEN "default" ELSE Entry(s).assertions
        BY <3>1, <3>2 DEF y
      <3> QED BY <2>2, <2>4, <3>2, <3>3
    <2>5. CASE Based(s)
      <3> DEFINE b == Entry(s).base
      <3>1. b \in Services /\ service[s] = Applied(Clone(Entry(s)), WithDefaults(Entry(b)))
        BY <2>1, <2>5, DependsOnAssumption DEF AsResolved, GoodBase, Siblings, OwnServices
      <3>2. Entry(b) \in Service
        BY <1>1, <3>1, EntryType DEF IInv
      <3>3. /\ Clone(Entry(s)) \in Service /\ Clone(Entry(s)).env = Entry(s).env
            /\ Clone(Entry(s)).assertions = Entry(s).assertions
        BY <2>3, CloneFields
      <3>4. /\ WithDefaults(Entry(b)) \in Service
            /\ WithDefaults(Entry(b)).image = Entry(b).image
            /\ WithDefaults(Entry(b)).env = Entry(b).env
            /\ WithDefaults(Entry(b)).assertions =
                  IF Entry(b).assertions = Nil THEN "default" ELSE Entry(b).assertions
        BY <3>2, DefaultsFields
      <3> DEFINE y == Applied(Clone(Entry(s)), WithDefaults(Entry(b)))
      <3>5. /\ y.image = Entry(b).image
            /\ y.env = IF Entry(s).env # Nil THEN Entry(s).env ELSE Entry(b).env
            /\ y.assertions = IF Entry(s).assertions # Nil THEN Entry(s).assertions
                              ELSE WithDefaults(Entry(b)).assertions
            /\ y.disableCommonEnv = FALSE
        BY <3>3, <3>4, AppliedFields
      <3> QED BY <2>2, <2>5, <3>1, <3>4, <3>5
    <2> QED BY <2>4, <2>5
  <1>2. IInv => InheritsUnlessSet
    BY <1>1 DEF InheritsUnlessSet
  <1> QED BY <1>2, Inductive, PTL DEF CISpec

\* GetCredential and EnsureImage find an image in every service.
THEOREM ImagesAreThere == CISpec => []EveryServiceHasAnImage
PROOF
  <1>1. ASSUME IInv, Accepted, NEW s \in Services
        PROVE  service[s].image # Nil
    <2>1. AsResolved(s)
      BY <1>1, AllResolved DEF Accepted
    <2>2. Entry(s) \in Service
      BY <1>1, EntryType DEF IInv
    <2>3. CASE ~Based(s)
      BY <2>1, <2>2, <2>3, DefaultsFields DEF AsResolved, Valid, HasBaseService, Based
    <2>4. CASE Based(s)
      <3> DEFINE b == Entry(s).base
      <3>1. /\ b \in Services /\ Valid(Entry(b)) /\ ~Based(b)
            /\ service[s] = Applied(Clone(Entry(s)), WithDefaults(Entry(b)))
        BY <2>1, <2>4, DependsOnAssumption DEF AsResolved, GoodBase, Siblings, OwnServices
      <3>2. Entry(b) \in Service /\ Entry(b).image # Nil
        BY <1>1, <3>1, EntryType DEF IInv, Valid, HasBaseService, Based
      <3>3. /\ Clone(Entry(s)) \in Service /\ WithDefaults(Entry(b)) \in Service
            /\ WithDefaults(Entry(b)).image # Nil
        BY <2>2, <3>2, CloneFields, DefaultsFields
      <3>4. Applied(Clone(Entry(s)), WithDefaults(Entry(b))).image # Nil
        BY <3>3, AppliedFields
      <3> QED BY <3>1, <3>4
    <2> QED BY <2>3, <2>4
  <1>2. IInv => EveryServiceHasAnImage
    BY <1>1 DEF EveryServiceHasAnImage
  <1> QED BY <1>2, Inductive, PTL DEF CISpec

\* In a sequence that is in order, no set of services goes round in a circle:
\* the one that comes first depends on none of the others.
LEMMA NoCircle ==
    ASSUME TypeOK, TopologicalOrder, NEW set, set \subseteq Elements(processed), set # {}
    PROVE  ~Circular(set)
PROOF
  <1> DEFINE places == {i \in DOMAIN processed : processed[i] \in set}
  <1>1. DOMAIN processed = 1..Len(processed) /\ Len(processed) \in Nat
    BY DEF TypeOK
  <1>2. places \subseteq Nat /\ places # {}
    BY <1>1 DEF Elements
  <1>3. PICK i \in places : \A j \in places : <<j, i>> \notin OpToRel(<, Nat)
    BY <1>2, NatLessThanWellFounded, WFMin
  <1>4. \A j \in places : ~(j < i)
    BY <1>2, <1>3 DEF OpToRel
  <1>5. ASSUME NEW d \in Elements(dependsOn[processed[i]]), d \in set PROVE FALSE
    <2>1. PICK j \in 1..(i - 1) : processed[j] = d
      BY <1>3 DEF TopologicalOrder
    <2>2. i \in 1..Len(processed)
      BY <1>1, <1>3
    <2>3. j \in DOMAIN processed /\ j < i
      BY <1>1, <2>1, <2>2
    <2>4. j \in places
      BY <1>5, <2>1, <2>3
    <2> QED BY <1>4, <2>3, <2>4
  <1> QED BY <1>3, <1>5 DEF Circular

\* Whatever the order of the maps, ci.yaml is accepted if it is well formed and
\* refused if it is not (CI.Initialize).
THEOREM OneVerdictHolds == CISpec => []OneVerdict
PROOF
  <1>1. ASSUME IInv, Accepted PROVE WellFormed
    <2>1. stage = "order" /\ unprocessed = {} /\ \A s \in Services : AsResolved(s)
      <3>1. status = "finished" /\ status # "working"
        BY <1>1 DEF Accepted
      <3>2. stage = "order"
        BY <1>1, <3>1 DEF IInv, Unordered
      <3>3. unprocessed = {}
        BY <1>1, <3>1 DEF IInv, OrderInv
      <3> QED BY <1>1, <3>1, <3>2, <3>3, AllResolved
    <2>2. Elements(processed) = Services
      <3>1. Elements(processed) \subseteq Services
        BY <1>1 DEF IInv, CITypeOK, TypeOK, Elements
      <3> QED BY <1>1, <2>1, <3>1 DEF IInv, OrderInv, EachOnce
    <2>3. written.credentials /\ ~written.clash /\ OwnServices # {}
      BY <1>1, <2>1 DEF IInv, Checked, Refusals
    <2>4. ASSUME NEW s \in Services
          PROVE  /\ Entry(s).valid /\ (Entry(s).image # Nil \/ Based(s))
                 /\ Based(s) => GoodBase(s)
      BY <2>1 DEF AsResolved, Valid, HasBaseService, Based
    <2>5. \A s \in Services : Dependency(s) = Elements(dependsOn[s])
      BY <1>1, <2>1, ResolvedDependency
    <2>6. ASSUME NEW s \in Services PROVE Dependency(s) \subseteq Services
      <3>1. PICK i \in DOMAIN processed : processed[i] = s
        BY <2>2 DEF Elements
      <3>2. \A d \in Elements(dependsOn[s]) : \E j \in 1..(i - 1) : processed[j] = d
        BY <1>1, <3>1 DEF IInv, OrderInv, TopologicalOrder
      <3>3. processed \in Seq(Services)
        BY <1>1 DEF IInv, CITypeOK, TypeOK
      <3> QED BY <2>5, <3>1, <3>2, <3>3
    <2>7. ASSUME NEW set \in (SUBSET Services) \ {{}}
          PROVE  \E s \in set : Dependency(s) \cap set = {}
      <3>1. set \subseteq Elements(processed) /\ set # {}
        BY <2>2
      <3>2. TypeOK /\ TopologicalOrder
        BY <1>1 DEF IInv, OrderInv
      <3>3. ~Circular(set)
        BY <3>1, <3>2, NoCircle
      <3>4. PICK s \in set : Elements(dependsOn[s]) \cap set = {}
        BY <3>1, <3>3 DEF Circular
      <3> QED BY <2>5, <3>4
    <2> QED BY <2>3, <2>4, <2>6, <2>7 DEF WellFormed
  <1>2. ASSUME IInv, Refused PROVE ~WellFormed
    <2>1. CASE stage \in Refusals
      BY <1>2, <2>1 DEF IInv, Checked
    <2>2. CASE status = "circular"
      <3>1. \A s \in Services : Dependency(s) = Elements(dependsOn[s])
        BY <1>2, <2>2, AllResolved, ResolvedDependency
      <3>2. PICK set \in SUBSET Services : Circular(set)
        BY <1>2, <2>2 DEF IInv, OrderInv, RefusedForAReason
      <3> QED BY <3>1, <3>2 DEF Circular, WellFormed
    <2>3. CASE status = "notFound"
      <3>1. \A s \in Services : Dependency(s) = Elements(dependsOn[s])
        BY <1>2, <2>3, AllResolved, ResolvedDependency
      <3>2. PICK s \in Services : ~(Elements(dependsOn[s]) \subseteq Services)
        BY <1>2, <2>3 DEF IInv, OrderInv, RefusedForAReason
      <3> QED BY <3>1, <3>2 DEF WellFormed
    <2> QED BY <1>2, <2>1, <2>2, <2>3 DEF Refused
  <1>3. IInv => OneVerdict
    BY <1>1, <1>2 DEF OneVerdict
  <1> QED BY <1>3, Inductive, PTL DEF CISpec

-----------------------------------------------------------------------------
(* How long it takes *)

\* The invariant with the chain of calls, which is empty before the ordering.
LEMMA ChainStaysSimple ==
    /\ CIInit => SimpleChain
    /\ IInv /\ SimpleChain /\ [CINext]_ciVars => SimpleChain'
PROOF
  <1>1. CIInit => SimpleChain
    BY DEF CIInit, SimpleChain
  <1>2. ASSUME IInv, SimpleChain, Resolve PROVE SimpleChain'
    <2>1. stage # "order"
      BY <1>2 DEF Resolve, ValidateCredentials, InitializeServices, NameTaken, ApplyBaseServices
    <2>2. chain' = <<>>
      BY <1>2, <2>1 DEF Resolve, IInv, Unordered
    <2> QED BY <2>2 DEF SimpleChain
  <1>3. ASSUME IInv, SimpleChain, ProcessDependsOn PROVE SimpleChain'
    BY <1>3, StepAdvances DEF ProcessDependsOn, IInv
  <1>4. ASSUME SimpleChain, UNCHANGED ciVars PROVE SimpleChain'
    BY <1>4 DEF SimpleChain, ciVars, vars
  <1> QED BY <1>1, <1>2, <1>3, <1>4 DEF CINext

\* Every step before the ordering gets on.
LEMMA ResolveAdvances ==
    ASSUME IInv, Resolve
    PROVE  /\ ~Refused /\ ~Accepted
           /\ \/ Refused'
              \/ \E i \in 1..5 : stage = Stages[i] /\ stage' = Stages[i + 1]
              \/ stage # "order" /\ stage' = stage /\ todo' \subseteq todo /\ todo' # todo
PROOF
  <1> DEFINE Refuses == stage' \in Refusals
             Rounds == stage' = stage /\ \E s \in todo : todo' = todo \ {s}
             GoesOn == \E i \in 1..5 : stage = Stages[i] /\ stage' = Stages[i + 1]
  <1>1. Refuses \/ Rounds \/ GoesOn
    <2>1. CASE ValidateCredentials
      BY <2>1 DEF ValidateCredentials, Continue, Refuse, Refusals, Stages
    <2>2. CASE InitializeServices
      <3>1. ASSUME NEW s \in todo, InitializeService(s) PROVE Refuses \/ Rounds
        BY <3>1 DEF InitializeService, Refuse, Refusals
      <3>2. ASSUME stage = "thirdServices", Continue("thirdBases", ThirdServices) PROVE GoesOn
        BY <3>2 DEF Continue, Stages
      <3>3. ASSUME stage = "services", Continue("bases", OwnServices) PROVE GoesOn
        BY <3>3 DEF Continue, Stages
      <3> QED BY <2>2, <3>1, <3>2, <3>3 DEF InitializeServices
    <2>3. CASE NameTaken
      BY <2>3 DEF NameTaken, Refuse, Refusals
    <2>4. CASE ApplyBaseServices
      <3>1. ASSUME NEW s \in todo, ApplyBaseService(s) PROVE Rounds
        BY <3>1 DEF ApplyBaseService
      <3>2. ASSUME stage = "thirdBases", AfterThirdBases PROVE Refuses \/ GoesOn
        BY <3>2 DEF AfterThirdBases, Refuse, Refusals, Continue, Stages
      <3>3. ASSUME stage = "bases", Continue("order", {}) PROVE GoesOn
        BY <3>3 DEF Continue, Stages
      <3> QED BY <2>4, <3>1, <3>2, <3>3 DEF ApplyBaseServices, Refuse, Refusals
    <2> QED BY <2>1, <2>2, <2>3, <2>4 DEF Resolve
  <1>2. stage # "order" /\ stage \notin Refusals
    BY DEF Resolve, ValidateCredentials, InitializeServices, NameTaken, ApplyBaseServices, Refusals
  <1>3. ~Refused /\ ~Accepted
    BY <1>2 DEF IInv, Unordered, Refused, Accepted
  <1>4. CASE Refuses
    BY <1>3, <1>4 DEF Refused
  <1>5. CASE Rounds
    BY <1>2, <1>3, <1>5
  <1> QED BY <1>1, <1>3, <1>4, <1>5

\* Whatever ci.yaml says, every step of CI.Initialize brings it nearer to its
\* verdict, and the verdict is its last step.
THEOREM EveryStepAdvances == CISpec => Advances
PROOF
  <1> DEFINE Inv == IInv /\ SimpleChain
             Step == /\ ~Refused /\ ~Accepted
                     /\ \/ Refused' \/ Accepted'
                        \/ \E i \in 1..5 : stage = Stages[i] /\ stage' = Stages[i + 1]
                        \/ stage # "order" /\ stage' = stage /\ todo' \subseteq todo /\ todo' # todo
                        \/ stage = "order" /\ stage' = stage /\ Nearer
  <1>1. ASSUME Inv, ProcessDependsOn PROVE Step
    <2>1. stage = "order" /\ stage' = stage /\ Next
      BY <1>1 DEF ProcessDependsOn, resolving
    <2>2. status = "working" /\ (Nearer \/ status' # "working")
      BY <1>1, <2>1, StepAdvances DEF IInv
    <2>3. TypeOK'
      BY <1>1, <2>1, OrderStep DEF IInv, OrderInv
    <2>4. ~Refused /\ ~Accepted
      BY <2>1, <2>2 DEF Refused, Accepted, Refusals
    <2>5. status' # "working" => Refused' \/ Accepted'
      BY <2>3 DEF TypeOK, Refused, Accepted
    <2> QED BY <2>1, <2>2, <2>4, <2>5
  <1>2. Inv /\ [CINext]_ciVars => [Step]_ciVars
    BY <1>1, ResolveAdvances DEF CINext
  <1>3. /\ CIInit => Inv
        /\ Inv /\ [CINext]_ciVars => Inv'
    BY Inductive, ChainStaysSimple
  <1> QED BY <1>2, <1>3, PTL DEF CISpec, Advances

\* However the services depend on each other, by their own word or their base
\* services', the recursion of processDependsOn is never deeper than there are
\* services left.
THEOREM RecursionIsBounded == ASSUME IsFiniteSet(Services) PROVE CISpec => []DepthBounded
PROOF
  <1> DEFINE Inv == IInv /\ SimpleChain
  <1>1. /\ CIInit => Inv
        /\ Inv /\ [CINext]_ciVars => Inv'
    BY Inductive, ChainStaysSimple
  <1>2. Inv => DepthBounded
    BY SimpleChainIsShort DEF IInv, OrderInv
  <1> QED BY <1>1, <1>2, PTL DEF CISpec
=============================================================================
