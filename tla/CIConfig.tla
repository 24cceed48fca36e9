------------------------------- MODULE CIConfig -------------------------------
(***************************************************************************)
(* What becomes of ci.yaml when it is opened: CI.Initialize, with          *)
(* Service.Initialize, Clone and ApplyBaseService, of go-micro-ci-common   *)
(* (vendored).  The third services are initialized and given what they     *)
(* inherit from their base services, then the other services are, and at   *)
(* last all of them are put in the order of DependsOn.                     *)
(*                                                                         *)
(* The services are kept in maps, which Go goes through in any order.  A   *)
(* field holds the service whose entry in ci.yaml gave the field its       *)
(* value.                                                                  *)
(***************************************************************************)
EXTENDS DependsOn

CONSTANTS
    Definitions,    \* what ci.yaml may say of its services
    Nil,            \* a field that is not set
    NoBase,         \* the baseService of a service that has none
    NoSnapShot      \* a nil snapShot

BaseNames == Names \cup {NoBase}

\* env stands for every field a service inherits when its own is nil or empty:
\* tags, build, args, env, mounts, exposed ports and data sources.
Service ==
    [base : BaseNames, image : Services \cup {Nil}, env : Services \cup {Nil},
     assertions : Services \cup {Nil, "default"}, disableCommonEnv : BOOLEAN,
     valid : BOOLEAN]

\* clash: one more service has the name of a third service.
Definition ==
    [services : [Services -> Service], dependsOn : [Services -> Lists],
     credentials : BOOLEAN, clash : BOOLEAN]

ASSUME CIConfigAssumption ==
    /\ Services \subseteq Names
    /\ NoBase \notin Names /\ Nil \notin Services /\ "default" \notin Services
    /\ Definitions \subseteq Definition

VARIABLES
    written,    \* what ci.yaml says
    stage,      \* the part of CI.Initialize that comes next
    todo,       \* the services the current loop has not come to
    service,    \* ThirdServices and Services, but for dependsOn
    snapShot    \* Service.snapShot

resolving == <<written, stage, todo, service, snapShot>>
ciVars == <<vars, resolving>>

Refusals == {"invalid", "duplicate", "noBase"}

CITypeOK ==
    /\ TypeOK
    /\ written \in Definition
    /\ stage \in {"credentials", "thirdServices", "thirdBases", "services", "bases", "order"}
                    \cup Refusals
    /\ todo \subseteq Services
    /\ service \in [Services -> Service]
    /\ snapShot \in [Services -> [service : Service, dependsOn : Lists] \cup {NoSnapShot}]

\* The list of unprocessed services is not read before it is complete.
CIInit ==
    /\ written \in Definitions
    /\ stage = "credentials" /\ todo = {}
    /\ service = written.services
    /\ snapShot = [s \in Services |-> NoSnapShot]
    /\ dependsOn = written.dependsOn
    /\ unprocessed = Services /\ processed = <<>> /\ chain = <<>>
    /\ status = "working"

-----------------------------------------------------------------------------

OwnServices == Services \ ThirdServices

\* The map in which a service, and the one it is based on, is looked up.
Siblings(s) == IF s \in ThirdServices THEN ThirdServices ELSE OwnServices

HasBaseService(y) == y.base # NoBase

\* Nothing is set after a refusal: its error is what CI.Initialize returns.
Refuse(reason) == stage' = reason /\ UNCHANGED <<todo, service, snapShot, dependsOn>>

Continue(next, services) ==
    /\ stage' = next /\ todo' = services
    /\ UNCHANGED <<service, snapShot, dependsOn>>

ValidateCredentials ==
    /\ stage = "credentials"
    /\ IF written.credentials THEN Continue("thirdServices", ThirdServices) ELSE Refuse("invalid")

\* Clone leaves disableCommonEnv out.
Clone(y) == [y EXCEPT !.disableCommonEnv = FALSE]

WithDefaults(y) == [y EXCEPT !.assertions = IF @ = Nil THEN "default" ELSE @]

\* (mutant: the snapshot is taken of what has its defaults)
SnapShotWithDefaults(y) == Clone(WithDefaults(y))

\* What the service itself says, before anything is filled in.
SnapShot(y) == Clone(y)

Valid(y) == y.valid /\ (y.image # Nil \/ HasBaseService(y))

\* Service.Initialize, in the loop over the third services or the other ones.
InitializeService(s) ==
    IF Valid(service[s])
    THEN /\ service' = [service EXCEPT ![s] = WithDefaults(@)]
         /\ snapShot' =
                IF HasBaseService(service[s])
                THEN [snapShot EXCEPT ![s] = [service |-> SnapShot(service[s]),
                                              dependsOn |-> dependsOn[s]]]
                ELSE snapShot
         /\ todo' = todo \ {s}
         /\ UNCHANGED <<stage, dependsOn>>
    ELSE Refuse("invalid")

InitializeServices ==
    /\ stage \in {"thirdServices", "services"}
    /\ \/ \E s \in todo : InitializeService(s)
       \/ todo = {} /\ stage = "thirdServices" /\ Continue("thirdBases", ThirdServices)
       \/ todo = {} /\ stage = "services" /\ ~written.clash /\ Continue("bases", OwnServices)

\* A service has the name of a third one: the loop comes to it at some point.
NameTaken ==
    /\ stage = "services" /\ written.clash
    /\ Refuse("duplicate")

\* (mutant: the base service may have a base service)
BaseFound(s) == service[s].base \in Siblings(s) \ {s}

BaseAllowed(s) ==
    /\ service[s].base \in Siblings(s) \ {s}
    /\ ~HasBaseService(service[service[s].base])

\* ApplyBaseService: everything is the base service's, the image among it, but
\* for what the snapshot has.
Applied(own, base) ==
    [Clone(base) EXCEPT
        !.base = own.base,
        !.env = IF own.env # Nil THEN own.env ELSE @,
        !.assertions = IF own.assertions # Nil THEN own.assertions ELSE @]

InheritedDependsOn(own, base) == IF Len(own) > 0 THEN own ELSE base

ApplyBaseService(s) ==
    LET own  == snapShot[s]
        base == service[s].base
    IN  /\ service' = [service EXCEPT ![s] = Applied(own.service, service[base])]
        /\ dependsOn' =
              [dependsOn EXCEPT ![s] = InheritedDependsOn(own.dependsOn, dependsOn[base])]
        /\ snapShot' = [snapShot EXCEPT ![s] = NoSnapShot]
        /\ todo' = todo \ {s}
        /\ UNCHANGED stage

\* A ci.yaml without services of its own is refused.
AfterThirdBases ==
    IF OwnServices = {} THEN Refuse("invalid") ELSE Continue("services", OwnServices)

ApplyBaseServices ==
    /\ stage \in {"thirdBases", "bases"}
    /\ \/ \E s \in todo :
            \/ /\ ~HasBaseService(service[s])
               /\ todo' = todo \ {s}
               /\ UNCHANGED <<stage, service, snapShot, dependsOn>>
            \/ HasBaseService(service[s]) /\ BaseAllowed(s) /\ ApplyBaseService(s)
            \/ HasBaseService(service[s]) /\ ~BaseAllowed(s) /\ Refuse("noBase")
       \/ todo = {} /\ stage = "thirdBases" /\ AfterThirdBases
       \/ todo = {} /\ stage = "bases" /\ Continue("order", {})

Resolve ==
    /\ ValidateCredentials \/ InitializeServices \/ NameTaken \/ ApplyBaseServices
    /\ UNCHANGED <<written, unprocessed, processed, chain, status>>

ProcessDependsOn == stage = "order" /\ Next /\ UNCHANGED resolving

CINext == Resolve \/ ProcessDependsOn

CISpec == CIInit /\ [][CINext]_ciVars /\ WF_ciVars(CINext)

-----------------------------------------------------------------------------
(* Properties *)

Refused == stage \in Refusals \/ status \in {"circular", "notFound"}
Accepted == status = "finished"

Entry(s) == written.services[s]
Based(s) == Entry(s).base # NoBase

\* The base service a service may have: of its own map, another one, and one
\* that has no base service itself.
GoodBase(s) ==
    /\ Entry(s).base \in Siblings(s) \ {s}
    /\ ~Based(Entry(s).base)

\* What a service should depend on, of what ci.yaml says of it and of its base.
Dependency(s) ==
    Elements(IF Based(s) /\ written.dependsOn[s] = <<>>
             THEN written.dependsOn[Entry(s).base] ELSE written.dependsOn[s])

WellFormed ==
    /\ written.credentials /\ ~written.clash /\ OwnServices # {}
    /\ \A s \in Services :
          /\ Entry(s).valid /\ (Entry(s).image # Nil \/ Based(s))
          /\ Based(s) => GoodBase(s)
          /\ Dependency(s) \subseteq Services
    /\ \A set \in (SUBSET Services) \ {{}} : \E s \in set : Dependency(s) \cap set = {}

\* Go goes through its maps in any order, and the order makes no difference to
\* whether ci.yaml is accepted: it is when what it says is well formed, although
\* the loops that decide it change the very services they look at.
OneVerdict == (Accepted => WellFormed) /\ (Refused => ~WellFormed)

\* What a service has in the end is what it says itself, or else what its base
\* service says, whichever of the two the loops came to first.  Its image is
\* the base service's whatever it says, and it gets the common environment.
InheritsUnlessSet ==
    Accepted =>
        \A s \in Services :
            LET b == IF Based(s) THEN Entry(s).base ELSE s
                First(own, base) == IF own # Nil THEN own ELSE base
            IN  /\ service[s].image = Entry(b).image
                /\ service[s].env = First(Entry(s).env, Entry(b).env)
                /\ service[s].assertions =
                      First(First(Entry(s).assertions, Entry(b).assertions), "default")
                /\ service[s].disableCommonEnv = (Entry(s).disableCommonEnv /\ ~Based(s))
                /\ Elements(dependsOn[s]) = Dependency(s)

\* GetCredential and EnsureImage look into a service's image, which a service
\* with a base service need not have in ci.yaml: once ci.yaml is accepted, every
\* service has one.
EveryServiceHasAnImage == Accepted => \A s \in Services : service[s].image # Nil

\* CI.Initialize comes to an end: it accepts ci.yaml with every service in the
\* sequence, or refuses it.
Decides == <>(Refused \/ (Accepted /\ unprocessed = {}))

Stages == <<"credentials", "thirdServices", "thirdBases", "services", "bases", "order">>

\* No step of CI.Initialize is for nothing, whatever ci.yaml says: it decides, or
\* goes on to the next loop, or has one service less to come to in the loop it is
\* in, or brings the ordering nearer to its end, and after the decision there is
\* none.  Nothing of this can go on for ever with finitely many services.
Advances ==
    [][/\ ~Refused /\ ~Accepted
       /\ \/ Refused' \/ Accepted'
          \/ \E i \in 1..5 : stage = Stages[i] /\ stage' = Stages[i + 1]
          \/ stage # "order" /\ stage' = stage /\ todo' \subseteq todo /\ todo' # todo
          \/ stage = "order" /\ stage' = stage /\ Nearer]_ciVars
=============================================================================
