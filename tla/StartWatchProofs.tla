--------------------------- MODULE StartWatchProofs ---------------------------
(***************************************************************************)
(* Proofs about StartWatch, for any frames, any number of lines and any    *)
(* timeout: it keeps to its types, implements StartVerdict, and reports    *)
(* the first line that matches.  The inductive invariant IInv says of      *)
(* everything that is on its way to run that there is a reason for it:     *)
(* what the copier found, the events, the errors and the exit code.        *)
(***************************************************************************)
EXTENDS StartWatch, TLAPS, WellFoundedInduction

\* What the writers have in hand was written.
OutputSeen ==
    /\ \A n \in DOMAIN frames :
          /\ frames[n].tail \subseteq seen
          /\ \A i \in DOMAIN frames[n].lines : frames[n].lines[i] \subseteq seen
    /\ \A s \in Streams : lastLine[s] \subseteq seen

\* Reasons for what run makes of a result.
ReasonFor(result, reasons) ==
    IF Succeeded(result) THEN Good \cap reasons # {} ELSE Bad \cap reasons # {}

MessageSupported == copier = "sending" => ReasonFor(message, seen)

EventSeen == event # "none" => event \in seen

\* As long as the waiter waits, its context ends for a reason.
ContextEnds ==
    ctx.done /\ waiter \in {"off", "select"} => "deadline" \in seen \/ "startFailed" \in seen

ErrorSeen ==
    /\ eventErr => Bad \cap seen # {}
    /\ copier = "error" \/ errCh = "error" => main = "returned" \/ "broken" \in seen
    /\ main = "cancelled" => "startFailed" \in seen

ResultSupported == waiter \in {"send", "ended"} => ReasonFor(exitResult, seen)

StillOpen == main # "returned" => outcome = "open"

\* The waiter is started once.
Unwatched == main \in {"attach", "subscribe"} => waiter = "off"

Reasons ==
    /\ OutputSeen
    /\ MessageSupported
    /\ EventSeen
    /\ ContextEnds
    /\ ErrorSeen
    /\ ResultSupported
    /\ StillOpen
    /\ Unwatched

IInv == TypeOK /\ Reasons

-----------------------------------------------------------------------------
(* Lemmas *)

\* A set of natural numbers that is not empty has a least element.
LEMMA MinIsLeast ==
    ASSUME NEW S, S \subseteq Nat, S # {}
    PROVE  Min(S) \in S /\ \A y \in S : Min(S) <= y
PROOF
  <1>1. PICK x \in S : \A y \in S : <<y, x>> \notin OpToRel(<, Nat)
    BY NatLessThanWellFounded, WFMin
  <1>2. ASSUME NEW y \in S PROVE x <= y
    <2>1. y \in Nat /\ x \in Nat
      OBVIOUS
    <2>2. ~(y < x)
      BY <1>1, <2>1 DEF OpToRel
    <2> QED BY <2>1, <2>2
  <1> QED BY <1>2 DEF Min

\* The writer stops at a line of the frame, the first one it has to stop at.
LEMMA Stop ==
    ASSUME TypeOK, NEW frame \in Frames, Stops(frame) # {}
    PROVE  /\ FirstStop(frame) \in Stops(frame)
           /\ FirstStop(frame) \in DOMAIN frame.lines /\ FirstStop(frame) \in Nat \ {0}
PROOF
  <1>1. frame \in Frame
    BY StartWatchAssumption
  <1>2. DOMAIN frame.lines \subseteq Nat \ {0}
    BY <1>1 DEF Frame
  <1>3. Stops(frame) \subseteq Nat /\ Stops(frame) \subseteq DOMAIN frame.lines
    BY <1>2 DEF Stops
  <1> QED BY <1>2, <1>3, MinIsLeast DEF FirstStop

\* What is found in a line are keywords.
LEMMA FoundType ==
    ASSUME TypeOK, NEW frame \in Frames, NEW i \in DOMAIN frame.lines
    PROVE  /\ Found(frame, i) \subseteq Keywords
           /\ frame.stream \in Streams /\ frame.tail \subseteq Keywords
           /\ frame.lines \in Seq(SUBSET Keywords)
PROOF
  <1>1. frame \in Frame
    BY StartWatchAssumption
  <1>2. /\ frame.stream \in Streams /\ frame.tail \subseteq Keywords
        /\ frame.lines \in Seq(SUBSET Keywords) /\ frame.lines[i] \subseteq Keywords
    BY <1>1 DEF Frame
  <1>3. lastLine[frame.stream] \subseteq Keywords
    BY <1>2 DEF TypeOK
  <1> QED BY <1>2, <1>3 DEF Found

-----------------------------------------------------------------------------
(* The types *)

\* A frame is copied.
LEMMA WriteKeepsTypes ==
    ASSUME TypeOK, CopierWrites
    PROVE  TypeOK'
PROOF
  <1> DEFINE frame == frames[read + 1]
             i == FirstStop(frame)
             s == frame.stream
  <1>1. /\ copier = "reading" /\ read < Len(frames) /\ read' = read + 1
        /\ UNCHANGED <<main, outcome, ctx, container, frames, held, watched>>
    BY DEF CopierWrites
  <1>2. read \in Nat /\ read + 1 \in DOMAIN frames /\ frame \in Frames /\ lineCount \in Nat
        /\ lastLine \in [Streams -> SUBSET Keywords]
    BY <1>1 DEF TypeOK
  <1>3. frame \in Frame
    BY <1>2, StartWatchAssumption
  <1>4. /\ s \in Streams /\ frame.tail \subseteq Keywords /\ frame.lines \in Seq(SUBSET Keywords)
        /\ Len(frame.lines) \in Nat
    BY <1>3 DEF Frame
  <1>5. read' \in 0..Len(frames')
    BY <1>1, <1>2 DEF TypeOK
  <1>6. CASE Stops(frame) = {}
    <2>1. /\ lastLine' = [lastLine EXCEPT
                ![s] = frame.tail \cup (IF frame.lines = <<>> THEN @ ELSE {})]
          /\ lineCount' = lineCount + Len(frame.lines)
          /\ copier' = "wrote" /\ UNCHANGED <<message, seen>>
      BY <1>6 DEF CopierWrites
    <2>2. lastLine' \in [Streams -> SUBSET Keywords] /\ lineCount' \in Nat
      BY <1>2, <1>4, <2>1
    <2> QED BY <1>1, <1>5, <2>1, <2>2 DEF TypeOK, held, watched
  <1>7. CASE Stops(frame) # {}
    <2>1. i \in DOMAIN frame.lines /\ i \in Nat \ {0} /\ Found(frame, i) \subseteq Keywords
      BY <1>2, <1>7, Stop, FoundType
    <2> HIDE DEF i
    <2>2. CASE Found(frame, i) # {}
      <3>1. PICK keyword \in Found(frame, i) : message' = [code |-> "keyword", keyword |-> keyword]
        BY <1>7, <2>2 DEF CopierWrites, i
      <3>2. /\ lastLine' = [lastLine EXCEPT ![s] = Found(frame, i)]
            /\ lineCount' = lineCount + i - 1
            /\ copier' = "sending" /\ UNCHANGED seen
        BY <1>7, <2>2 DEF CopierWrites, i
      <3>3. message' \in Result
        BY <2>1, <3>1 DEF Result, Code
      <3>4. lastLine' \in [Streams -> SUBSET Keywords] /\ lineCount' \in Nat
        BY <1>2, <1>4, <2>1, <3>2
      <3> QED BY <1>1, <1>5, <3>2, <3>3, <3>4 DEF TypeOK, held, watched
    <2>3. CASE Found(frame, i) = {}
      <3>1. /\ message' = Exit("maxLines") /\ seen' = seen \cup {"tooManyLines"}
            /\ lastLine' = [lastLine EXCEPT ![s] = {}]
            /\ lineCount' = lineCount + i
            /\ copier' = "sending"
        BY <1>7, <2>3 DEF CopierWrites, i
      <3>2. message' \in Result /\ seen' \subseteq Good \cup Bad
        BY <3>1 DEF Exit, Result, Code, TypeOK, Bad
      <3>3. lastLine' \in [Streams -> SUBSET Keywords] /\ lineCount' \in Nat
        BY <1>2, <1>4, <2>1, <3>1
      <3> QED BY <1>1, <1>5, <3>1, <3>2, <3>3 DEF TypeOK, held, watched
    <2> QED BY <2>2, <2>3
  <1> QED BY <1>6, <1>7

\* The container writes a frame.
LEMMA FrameKeepsTypes ==
    ASSUME TypeOK, ContainerWrites
    PROVE  TypeOK'
PROOF
  <1>1. /\ container = "running" /\ Len(frames) < MaxFrames
        /\ UNCHANGED <<main, outcome, ctx, container, read, lastLine, lineCount, copier,
                       message, held, watched>>
    BY DEF ContainerWrites
  <1>2. PICK frame \in Frames :
          /\ frames' = Append(frames, frame)
          /\ seen' = seen \cup frame.tail
                         \cup UNION {frame.lines[i] : i \in DOMAIN frame.lines}
    BY DEF ContainerWrites
  <1>3. /\ frames' \in Seq(Frames) /\ Len(frames') = Len(frames) + 1
        /\ Len(frames) \in Nat /\ MaxFrames \in Nat /\ read \in 0..Len(frames)
    BY <1>2, StartWatchAssumption DEF TypeOK
  <1>4. Len(frames') <= MaxFrames /\ read' \in 0..Len(frames')
    BY <1>1, <1>3
  <1>5. frame.tail \subseteq Keywords /\ \A i \in DOMAIN frame.lines : frame.lines[i] \subseteq Keywords
    <2>1. frame \in Frame
      BY <1>2, StartWatchAssumption
    <2> QED BY <2>1 DEF Frame
  <1>6. seen' \subseteq Good \cup Bad
    <2>1. seen \subseteq Good \cup Bad /\ Keywords \subseteq Good \cup Bad
      BY DEF TypeOK, Keywords, Good, Bad
    <2>2. UNION {frame.lines[i] : i \in DOMAIN frame.lines} \subseteq Keywords
      BY <1>5
    <2> QED BY <1>2, <1>5, <2>1, <2>2
  <1> QED BY <1>1, <1>3, <1>4, <1>6 DEF TypeOK, held, watched

\* The types, whatever the step.
LEMMA TypesInductive ==
    /\ Init => TypeOK
    /\ TypeOK /\ [Next]_vars => TypeOK'
PROOF
  <1>1. ASSUME Init PROVE TypeOK
    <2>1. /\ frames = <<>> /\ read = 0 /\ lineCount = 0 /\ MaxFrames \in Nat
          /\ lastLine = [s \in Streams |-> {}]
      BY <1>1, StartWatchAssumption DEF Init
    <2>2. /\ frames \in Seq(Frames) /\ Len(frames) <= MaxFrames /\ read \in 0..Len(frames)
          /\ lineCount \in Nat /\ lastLine \in [Streams -> SUBSET Keywords]
      BY <2>1
    <2>3. Exit("unknown") \in Result
      BY DEF Exit, Result, Code
    <2> QED BY <1>1, <2>2, <2>3 DEF Init, TypeOK
  <1> SUFFICES ASSUME TypeOK, [Next]_vars PROVE TypeOK'
    BY <1>1
  <1>a. /\ EndContext => ctx' \in [timed: BOOLEAN, done: BOOLEAN]
        /\ ctx' = ctx => ctx' \in [timed: BOOLEAN, done: BOOLEAN]
    BY DEF EndContext, TypeOK
  <1>b. \A r \in Good \cup Bad : seen \cup {r} \subseteq Good \cup Bad
    BY DEF TypeOK
  <1>c. /\ {"exitZero", "detached", "exitNonZero", "destroyed", "deadline", "broken", "startFailed"}
               \subseteq Good \cup Bad
        /\ {"exitZero", "exitNonZero", "destroyed", "detached"}
               \subseteq {"none", "exitZero", "exitNonZero", "destroyed", "detached"}
    BY DEF Good, Bad
  <1>2. CASE Main
    <2>1. CASE Attach
      BY <2>1 DEF Attach, TypeOK, watched
    <2>2. CASE AttachFails
      <3>1. seen' \subseteq Good \cup Bad
        BY <1>b, <1>c, <2>2 DEF AttachFails
      <3> QED BY <2>2, <3>1 DEF AttachFails, Return, TypeOK, output, held, watched
    <2>3. CASE WaitExitOrRemoved
      BY <2>3 DEF WaitExitOrRemoved, TypeOK, output, held
    <2>4. CASE Start
      BY <2>4 DEF Start, TypeOK, output, held, watched
    <2>5. CASE StartFails
      <3>1. seen' \subseteq Good \cup Bad /\ ctx' \in [timed: BOOLEAN, done: BOOLEAN]
        BY <1>a, <1>b, <1>c, <2>5 DEF StartFails, CancelsHold
      <3>2. container' \in {"created", "running", "exited", "removed"}
        BY <2>5 DEF StartFails, TypeOK
      <3> QED BY <2>5, <3>1, <3>2 DEF StartFails, TypeOK, output, held, watched
    <2>6. CASE ReturnStartError
      BY <2>6 DEF ReturnStartError, Return, TypeOK, output, watched
    <2>7. CASE ReceiveErr
      BY <2>7 DEF ReceiveErr, Return, TypeOK, output, watched
    <2>8. CASE ReceiveExit
      BY <2>8 DEF ReceiveExit, Return, TypeOK, output, held
    <2> QED BY <1>2, <2>1, <2>2, <2>3, <2>4, <2>5, <2>6, <2>7, <2>8 DEF Main
  <1>3. CASE Hold
    BY <1>3 DEF Hold, TypeOK, output, held, watched
  <1>4. CASE CopierWrites
    BY <1>4, WriteKeepsTypes
  <1>5. CASE CopierChecks \/ CopierEnds \/ CopierBreaks
    BY <1>5 DEF CopierChecks, CopierEnds, CopierBreaks, TypeOK, Bad, held, watched
  <1>6. CASE WaiterGetsMessage \/ WaiterGetsEvent \/ WaiterGetsErr
    <2>1. \A code \in {"zero", "nonZero", "unknown"} : Exit(code) \in Result
      BY DEF Exit, Result, Code
    <2>2. ASSUME NEW result \in Result, WaiterReports(result),
                 copier' \in {copier, "wrote"}, UNCHANGED <<event, eventErr>>
          PROVE  TypeOK'
      <3>1. ctx' \in [timed: BOOLEAN, done: BOOLEAN]
        BY <1>a, <2>2 DEF WaiterReports, Detach
      <3> QED BY <2>2, <3>1 DEF WaiterReports, TypeOK, held
    <2>3. CASE WaiterGetsMessage
      BY <2>2, <2>3 DEF WaiterGetsMessage, TypeOK
    <2>4. CASE WaiterGetsEvent
      <3> DEFINE code == CASE event \in {"exitZero", "detached"} -> "zero"
                           [] event = "exitNonZero" -> "nonZero"
                           [] event = "destroyed" -> "unknown"
      <3>1. code \in {"zero", "nonZero", "unknown"}
        BY <2>4 DEF WaiterGetsEvent, TypeOK
      <3>2. /\ WaiterReports(Exit(code)) /\ copier' = copier
            /\ event' = event /\ eventErr' = eventErr
        BY <2>4 DEF WaiterGetsEvent
      <3> HIDE DEF code
      <3> QED BY <2>1, <2>2, <3>1, <3>2
    <2>5. CASE WaiterGetsErr
      BY <2>1, <2>2, <2>5 DEF WaiterGetsErr
    <2> QED BY <1>6, <2>3, <2>4, <2>5
  <1>7. CASE EventsEnd \/ Deadline
    <2>1. CASE EventsEnd
      <3>1. seen' \subseteq Good \cup Bad
        BY <1>b, <1>c, <2>1 DEF EventsEnd, TypeOK
      <3> QED BY <2>1, <3>1 DEF EventsEnd, TypeOK, output, held
    <2>2. CASE Deadline
      <3>1. seen' \subseteq Good \cup Bad /\ ctx' \in [timed: BOOLEAN, done: BOOLEAN]
        BY <1>a, <1>b, <1>c, <2>2 DEF Deadline
      <3> QED BY <2>2, <3>1 DEF Deadline, TypeOK, output, held, watched
    <2> QED BY <1>7, <2>1, <2>2
  <1>8. CASE ContainerWrites
    BY <1>8, FrameKeepsTypes
  <1>9. CASE Exits \/ Destroyed \/ DetachedByOther
    <2>1. PICK e \in {"exitZero", "exitNonZero", "destroyed", "detached"} :
             Emit(e) /\ container' \in {container, "exited", "removed"}
      BY <1>9 DEF Exits, Destroyed, DetachedByOther
    <2>2. /\ seen' \subseteq Good \cup Bad
          /\ event' \in {"none", "exitZero", "exitNonZero", "destroyed", "detached"}
      BY <1>b, <1>c, <2>1 DEF Emit, TypeOK
    <2> QED BY <2>1, <2>2 DEF Emit, TypeOK, output, held
  <1>10. CASE UNCHANGED vars
    BY <1>10 DEF vars, TypeOK, output, held, watched
  <1> QED BY <1>2, <1>3, <1>4, <1>5, <1>6, <1>7, <1>8, <1>9, <1>10 DEF Next

-----------------------------------------------------------------------------
(* The reasons *)

\* What has a reason keeps it.
LEMMA ReasonLasts ==
    ASSUME NEW result, NEW before, NEW after, before \subseteq after, ReasonFor(result, before)
    PROVE  ReasonFor(result, after)
BY DEF ReasonFor

\* Each part of the invariant outlasts the steps that do not touch what it is
\* about: reasons are only added.
LEMMA Undisturbed ==
    ASSUME Reasons, seen \subseteq seen'
    PROVE  /\ UNCHANGED <<frames, lastLine>> => OutputSeen'
           /\ UNCHANGED <<copier, message>> => MessageSupported'
           /\ UNCHANGED event => EventSeen'
           /\ UNCHANGED <<ctx, waiter>> => ContextEnds'
           /\ UNCHANGED <<eventErr, copier, errCh, main>> => ErrorSeen'
           /\ UNCHANGED <<waiter, exitResult>> => ResultSupported'
           /\ UNCHANGED <<main, outcome>> => StillOpen'
           /\ UNCHANGED <<main, waiter>> => Unwatched'
PROOF
  <1>1. UNCHANGED <<frames, lastLine>> => OutputSeen'
    BY DEF Reasons, OutputSeen
  <1>2. UNCHANGED <<copier, message>> => MessageSupported'
    BY ReasonLasts DEF Reasons, MessageSupported
  <1>3. UNCHANGED event => EventSeen'
    BY DEF Reasons, EventSeen
  <1>4. UNCHANGED <<ctx, waiter>> => ContextEnds'
    BY DEF Reasons, ContextEnds
  <1>5. UNCHANGED <<eventErr, copier, errCh, main>> => ErrorSeen'
    BY DEF Reasons, ErrorSeen
  <1>6. UNCHANGED <<waiter, exitResult>> => ResultSupported'
    BY ReasonLasts DEF Reasons, ResultSupported
  <1>7. UNCHANGED <<main, outcome>> => StillOpen'
    BY DEF Reasons, StillOpen
  <1>8. UNCHANGED <<main, waiter>> => Unwatched'
    BY DEF Reasons, Unwatched
  <1> QED BY <1>1, <1>2, <1>3, <1>4, <1>5, <1>6, <1>7, <1>8

\* A keyword that was written, or the line it was not found in, is a reason.
LEMMA MessageReasons ==
    /\ \A keyword \in Keywords : \A reasons :
          keyword \in reasons => ReasonFor([code |-> "keyword", keyword |-> keyword], reasons)
    /\ \A reasons : "tooManyLines" \in reasons => ReasonFor(Exit("maxLines"), reasons)
    /\ \A reasons : "exitZero" \in reasons \/ "detached" \in reasons =>
                      ReasonFor(Exit("zero"), reasons)
    /\ \A reasons : "exitNonZero" \in reasons => ReasonFor(Exit("nonZero"), reasons)
    /\ \A reasons : Bad \cap reasons # {} => ReasonFor(Exit("unknown"), reasons)
PROOF
  <1>1. ASSUME NEW keyword \in Keywords, NEW reasons, keyword \in reasons
        PROVE  ReasonFor([code |-> "keyword", keyword |-> keyword], reasons)
    BY <1>1 DEF ReasonFor, Succeeded, Keywords, Good, Bad
  <1>2. ASSUME NEW reasons
        PROVE  /\ "tooManyLines" \in reasons => ReasonFor(Exit("maxLines"), reasons)
               /\ "exitZero" \in reasons \/ "detached" \in reasons =>
                      ReasonFor(Exit("zero"), reasons)
               /\ "exitNonZero" \in reasons => ReasonFor(Exit("nonZero"), reasons)
               /\ Bad \cap reasons # {} => ReasonFor(Exit("unknown"), reasons)
    BY DEF ReasonFor, Succeeded, Exit, Good, Bad
  <1> QED BY <1>1, <1>2

\* The steps of run.
LEMMA MainKeepsReasons ==
    ASSUME IInv, Main
    PROVE  Reasons'
PROOF
  <1>1. CASE Attach
    <2>1. ErrorSeen'
      BY <1>1 DEF Attach, IInv, Reasons, ErrorSeen, watched
    <2>2. MessageSupported' /\ StillOpen' /\ Unwatched'
      BY <1>1 DEF Attach, MessageSupported, IInv, Reasons, StillOpen, Unwatched, watched
    <2> QED BY <1>1, <2>1, <2>2, Undisturbed DEF Attach, IInv, Reasons, watched
  <1>2. CASE AttachFails
    <2>1. seen \subseteq seen' /\ main = "attach" /\ main' = "returned"
          /\ UNCHANGED <<ctx, container, output, held, watched>>
      BY <1>2 DEF AttachFails, Return
    <2>2. ErrorSeen' /\ StillOpen' /\ Unwatched'
      BY <2>1 DEF IInv, Reasons, ErrorSeen, StillOpen, Unwatched, watched
    <2> QED BY <2>1, <2>2, Undisturbed DEF IInv, Reasons, output, held, watched
  <1>3. CASE WaitExitOrRemoved
    <2>1. /\ main = "subscribe" /\ main' = "start" /\ waiter' = "select"
          /\ UNCHANGED <<outcome, ctx, container, frames, read, lastLine, lineCount, copier,
                         message, hold, errCh, event, eventErr, exitResult, seen>>
      BY <1>3 DEF WaitExitOrRemoved, output, held
    <2>2. ContextEnds'
      <3>1. CASE waiter \in {"off", "select"}
        BY <2>1, <3>1 DEF IInv, Reasons, ContextEnds
      <3>2. CASE waiter \notin {"off", "select"}
        BY <2>1, <3>2 DEF IInv, Reasons, Unwatched, ContextEnds
      <3> QED BY <3>1, <3>2
    <2>3. ErrorSeen' /\ StillOpen' /\ Unwatched'
      BY <2>1 DEF IInv, Reasons, ErrorSeen, StillOpen, Unwatched
    <2>4. ResultSupported'
      BY <2>1 DEF ResultSupported
    <2> QED BY <2>1, <2>2, <2>3, <2>4, Undisturbed DEF IInv, Reasons
  <1>4. CASE Start
    <2>1. ErrorSeen' /\ StillOpen' /\ Unwatched'
      BY <1>4 DEF Start, IInv, Reasons, ErrorSeen, StillOpen, Unwatched, output, held, watched
    <2> QED BY <1>4, <2>1, Undisturbed DEF Start, IInv, Reasons, output, watched
  <1>5. CASE StartFails
    <2>1. /\ seen' = seen \cup {"startFailed"} /\ main = "start" /\ main' = "cancelled"
          /\ UNCHANGED <<outcome, output, held, watched>>
      BY <1>5 DEF StartFails
    <2>2. ContextEnds'
      BY <2>1 DEF ContextEnds
    <2>3. ErrorSeen' /\ StillOpen' /\ Unwatched'
      BY <2>1 DEF IInv, Reasons, ErrorSeen, StillOpen, Unwatched, output, held, watched
    <2> QED BY <2>1, <2>2, <2>3, Undisturbed DEF IInv, Reasons, output, watched
  <1>6. CASE ReturnStartError
    <2>1. /\ main' = "returned" /\ UNCHANGED <<ctx, container, output, hold, watched, seen>>
      BY <1>6 DEF ReturnStartError, Return
    <2>2. ErrorSeen' /\ StillOpen' /\ Unwatched'
      BY <2>1 DEF IInv, Reasons, ErrorSeen, StillOpen, Unwatched, watched
    <2> QED BY <2>1, <2>2, Undisturbed DEF IInv, Reasons, output, watched
  <1>7. CASE ReceiveErr
    <2>1. /\ main = "errCh" /\ errCh' = "empty"
          /\ \/ main' = "returned"
             \/ main' = "exitChan" /\ UNCHANGED outcome
          /\ UNCHANGED <<ctx, container, output, hold, watched, seen>>
      BY <1>7 DEF ReceiveErr, Return
    <2>2. ErrorSeen' /\ StillOpen' /\ Unwatched'
      BY <2>1 DEF IInv, Reasons, ErrorSeen, StillOpen, Unwatched, output, watched
    <2> QED BY <2>1, <2>2, Undisturbed DEF IInv, Reasons, output, watched
  <1>8. CASE ReceiveExit
    <2>1. /\ main' = "returned" /\ waiter = "send" /\ waiter' = "ended"
          /\ UNCHANGED <<ctx, container, output, held, event, eventErr, exitResult, seen>>
      BY <1>8 DEF ReceiveExit, Return
    <2>2. /\ ContextEnds' /\ ErrorSeen' /\ StillOpen' /\ Unwatched'
          /\ waiter' = "ended" /\ ResultSupported'
      BY <2>1 DEF IInv, Reasons, ContextEnds, ErrorSeen, ResultSupported, StillOpen, Unwatched
    <2> QED BY <2>1, <2>2, Undisturbed DEF IInv, Reasons, output
  <1> QED BY <1>1, <1>2, <1>3, <1>4, <1>5, <1>6, <1>7, <1>8 DEF Main

\* The copier passes on what was written.
LEMMA WriteKeepsReasons ==
    ASSUME IInv, CopierWrites
    PROVE  Reasons'
PROOF
  <1> DEFINE frame == frames[read + 1]
             i == FirstStop(frame)
             s == frame.stream
  <1>1. /\ copier = "reading" /\ read < Len(frames)
        /\ UNCHANGED <<main, outcome, ctx, container, frames, held, watched>>
    BY DEF CopierWrites
  <1>2. read + 1 \in DOMAIN frames /\ frame \in Frames /\ TypeOK
        /\ lastLine \in [Streams -> SUBSET Keywords]
    BY <1>1 DEF IInv, TypeOK
  <1>3. s \in Streams
    BY <1>2, StartWatchAssumption DEF Frame
  <1>4. /\ frame.tail \subseteq seen /\ lastLine[s] \subseteq seen
        /\ \A l \in DOMAIN frame.lines : Found(frame, l) \subseteq seen
    BY <1>2, <1>3 DEF IInv, Reasons, OutputSeen, Found
  <1>5. ASSUME seen \subseteq seen', copier' # "error",
               OutputSeen', MessageSupported'
        PROVE  Reasons'
    <2>1. ErrorSeen'
      BY <1>1, <1>5 DEF IInv, Reasons, ErrorSeen, held, watched
    <2> QED BY <1>1, <1>5, <2>1, Undisturbed DEF IInv, Reasons, held, watched
  <1>6. ASSUME NEW line, line \subseteq seen, lastLine' = [lastLine EXCEPT ![s] = line],
               seen \subseteq seen'
        PROVE  OutputSeen'
    <2>1. \A t \in Streams : lastLine'[t] \subseteq seen'
      BY <1>2, <1>3, <1>6 DEF IInv, Reasons, OutputSeen
    <2> QED BY <1>1, <1>6, <2>1 DEF IInv, Reasons, OutputSeen
  <1>7. CASE Stops(frame) = {}
    <2> DEFINE line == frame.tail \cup (IF frame.lines = <<>> THEN lastLine[s] ELSE {})
    <2>1. lastLine' = [lastLine EXCEPT ![s] = line] /\ copier' = "wrote" /\ UNCHANGED <<message, seen>>
      BY <1>7 DEF CopierWrites
    <2>2. line \subseteq seen
      BY <1>4
    <2> HIDE DEF line
    <2> QED BY <1>5, <1>6, <2>1, <2>2 DEF MessageSupported
  <1>8. CASE Stops(frame) # {}
    <2>1. i \in DOMAIN frame.lines /\ Found(frame, i) \subseteq Keywords
      BY <1>2, <1>8, Stop, FoundType
    <2>2. Found(frame, i) \subseteq seen
      BY <1>4, <2>1
    <2> HIDE DEF i
    <2>3. CASE Found(frame, i) # {}
      <3>1. PICK keyword \in Found(frame, i) : message' = [code |-> "keyword", keyword |-> keyword]
        BY <1>8, <2>3 DEF CopierWrites, i
      <3>2. /\ lastLine' = [lastLine EXCEPT ![s] = Found(frame, i)]
            /\ copier' = "sending" /\ UNCHANGED seen
        BY <1>8, <2>3 DEF CopierWrites, i
      <3>3. ReasonFor(message', seen')
        BY <2>1, <2>2, <3>1, <3>2, MessageReasons
      <3> QED BY <1>5, <1>6, <2>2, <3>2, <3>3 DEF MessageSupported
    <2>4. CASE Found(frame, i) = {}
      <3>1. /\ message' = Exit("maxLines") /\ seen' = seen \cup {"tooManyLines"}
            /\ lastLine' = [lastLine EXCEPT ![s] = {}] /\ copier' = "sending"
        BY <1>8, <2>4 DEF CopierWrites, i
      <3>2. ReasonFor(message', seen')
        BY <3>1, MessageReasons
      <3>3. \A t \in Streams : lastLine'[t] \subseteq seen'
        BY <1>2, <1>3, <3>1 DEF IInv, Reasons, OutputSeen
      <3>4. OutputSeen'
        BY <1>1, <3>1, <3>3 DEF IInv, Reasons, OutputSeen
      <3> QED BY <1>5, <3>1, <3>2, <3>4 DEF MessageSupported
    <2> QED BY <2>3, <2>4
  <1> QED BY <1>7, <1>8

\* The waiter passes on what it was told, and hangs up.
LEMMA ReportKeepsReasons ==
    ASSUME IInv, NEW result, WaiterReports(result), ReasonFor(result, seen),
           copier' \in {copier, "wrote"}, UNCHANGED <<event, eventErr>>
    PROVE  Reasons'
PROOF
  <1>1. /\ waiter = "select" /\ waiter' = "send" /\ exitResult' = result
        /\ UNCHANGED <<main, outcome, frames, lastLine, message, errCh, event, eventErr, seen>>
    BY DEF WaiterReports, held
  <1>2. MessageSupported' /\ ContextEnds' /\ ResultSupported'
    <2>1. MessageSupported'
      BY <1>1 DEF IInv, Reasons, MessageSupported
    <2>2. ResultSupported'
      BY <1>1 DEF ResultSupported
    <2> QED BY <1>1, <2>1, <2>2 DEF ContextEnds
  <1>3. ErrorSeen' /\ Unwatched'
    BY <1>1 DEF IInv, Reasons, ErrorSeen, Unwatched
  <1> QED BY <1>1, <1>2, <1>3, Undisturbed DEF IInv, Reasons

\* The reasons, whatever the step.
LEMMA Inductive ==
    /\ Init => IInv
    /\ IInv /\ [Next]_vars => IInv'
PROOF
  <1>1. ASSUME Init PROVE IInv
    <2>1. TypeOK
      BY <1>1, TypesInductive
    <2>2. OutputSeen
      <3>1. frames = <<>> /\ \A s \in Streams : lastLine[s] = {}
        BY <1>1 DEF Init
      <3> QED BY <3>1 DEF OutputSeen
    <2>3. MessageSupported /\ EventSeen /\ ContextEnds
      BY <1>1 DEF Init, MessageSupported, EventSeen, ContextEnds
    <2>4. ErrorSeen /\ ResultSupported /\ StillOpen /\ Unwatched
      BY <1>1 DEF Init, ErrorSeen, ResultSupported, StillOpen, Unwatched
    <2> QED BY <2>1, <2>2, <2>3, <2>4 DEF IInv, Reasons
  <1> SUFFICES ASSUME IInv, [Next]_vars PROVE Reasons'
    BY <1>1, TypesInductive DEF IInv
  <1>2. CASE Main
    BY <1>2, MainKeepsReasons
  <1>3. CASE Hold
    <2>1. /\ errCh' = "error" => copier = "error"
          /\ UNCHANGED <<main, outcome, ctx, container, output, watched, seen>>
      BY <1>3 DEF Hold
    <2>2. ErrorSeen'
      BY <2>1 DEF IInv, Reasons, ErrorSeen, output, watched
    <2> QED BY <2>1, <2>2, Undisturbed DEF IInv, Reasons, output, watched
  <1>4. CASE CopierWrites
    BY <1>4, WriteKeepsReasons
  <1>5. CASE CopierChecks \/ CopierEnds \/ CopierBreaks
    <2>1. /\ seen \subseteq seen' /\ copier' # "sending"
          /\ copier' = "error" => main = "returned" \/ "broken" \in seen'
          /\ UNCHANGED <<main, outcome, ctx, frames, lastLine, message, held, watched>>
      BY <1>5 DEF CopierChecks, CopierEnds, CopierBreaks
    <2>2. ErrorSeen'
      BY <2>1 DEF IInv, Reasons, ErrorSeen, held, watched
    <2>3. MessageSupported'
      BY <2>1 DEF MessageSupported
    <2> QED BY <2>1, <2>2, <2>3, Undisturbed DEF IInv, Reasons, held, watched
  <1>6. CASE WaiterGetsMessage
    BY <1>6, ReportKeepsReasons DEF WaiterGetsMessage, IInv, Reasons, MessageSupported
  <1>7. CASE WaiterGetsEvent
    <2>1. \E code \in {"zero", "nonZero", "unknown"} :
             WaiterReports(Exit(code)) /\ ReasonFor(Exit(code), seen)
      <3>1. event \in {"exitZero", "exitNonZero", "destroyed", "detached"} /\ event \in seen
        BY <1>7 DEF WaiterGetsEvent, IInv, TypeOK, Reasons, EventSeen
      <3>2. CASE event \in {"exitZero", "detached"}
        <4>1. WaiterReports(Exit("zero"))
          BY <1>7, <3>2 DEF WaiterGetsEvent
        <4> QED BY <3>1, <3>2, <4>1, MessageReasons
      <3>3. CASE event = "exitNonZero"
        <4>1. WaiterReports(Exit("nonZero"))
          BY <1>7, <3>3 DEF WaiterGetsEvent
        <4> QED BY <3>1, <3>3, <4>1, MessageReasons
      <3>4. CASE event = "destroyed"
        <4>1. WaiterReports(Exit("unknown"))
          BY <1>7, <3>4 DEF WaiterGetsEvent
        <4>2. Bad \cap seen # {}
          BY <3>1, <3>4 DEF Bad
        <4> QED BY <4>1, <4>2, MessageReasons
      <3> QED BY <3>1, <3>2, <3>3, <3>4
    <2> QED BY <1>7, <2>1, ReportKeepsReasons DEF WaiterGetsEvent
  <1>8. CASE WaiterGetsErr
    <2>1. ReasonFor(Exit("unknown"), seen)
      BY <1>8, MessageReasons DEF WaiterGetsErr, IInv, Reasons, ErrorSeen
    <2> QED BY <1>8, <2>1, ReportKeepsReasons DEF WaiterGetsErr
  <1>9. CASE EventsEnd
    <2>1. /\ waiter = "select" /\ seen' = IF ctx.done THEN seen ELSE seen \cup {"broken"}
          /\ UNCHANGED <<main, outcome, ctx, container, output, held, event, waiter, exitResult>>
      BY <1>9 DEF EventsEnd
    <2>2. Bad \cap seen' # {}
      BY <2>1 DEF IInv, Reasons, ContextEnds, Bad
    <2>3. seen \subseteq seen'
      BY <2>1
    <2>4. ErrorSeen'
      BY <2>1, <2>2, <2>3 DEF IInv, Reasons, ErrorSeen, output, held
    <2> QED BY <2>1, <2>3, <2>4, Undisturbed DEF IInv, Reasons, output, held
  <1>10. CASE Deadline
    <2>1. /\ seen' = seen \cup {"deadline"}
          /\ UNCHANGED <<main, outcome, container, output, held, watched>>
      BY <1>10 DEF Deadline
    <2>2. ContextEnds'
      BY <2>1 DEF ContextEnds
    <2> QED BY <2>1, <2>2, Undisturbed DEF IInv, Reasons, output, held, watched
  <1>11. CASE ContainerWrites
    <2>1. PICK frame \in Frames :
             /\ frames' = Append(frames, frame)
             /\ seen' = seen \cup frame.tail
                            \cup UNION {frame.lines[i] : i \in DOMAIN frame.lines}
      BY <1>11 DEF ContainerWrites
    <2>2. UNCHANGED <<main, outcome, ctx, lastLine, copier, message, held, watched>>
      BY <1>11 DEF ContainerWrites
    <2>3. /\ frame.tail \subseteq seen' /\ seen \subseteq seen'
          /\ \A i \in DOMAIN frame.lines : frame.lines[i] \subseteq seen'
      BY <2>1
    <2>4. OutputSeen'
      <3>1. frames \in Seq(Frames)
        BY DEF IInv, TypeOK
      <3>2. ASSUME NEW n \in DOMAIN frames'
            PROVE  (n \in DOMAIN frames /\ frames'[n] = frames[n]) \/ frames'[n] = frame
        BY <2>1, <3>1
      <3>3. ASSUME NEW n \in DOMAIN frames'
            PROVE  /\ frames'[n].tail \subseteq seen'
                   /\ \A i \in DOMAIN frames'[n].lines : frames'[n].lines[i] \subseteq seen'
        <4>1. CASE n \in DOMAIN frames /\ frames'[n] = frames[n]
          BY <2>3, <4>1 DEF IInv, Reasons, OutputSeen
        <4>2. CASE frames'[n] = frame
          BY <2>3, <4>2
        <4> QED BY <3>2, <4>1, <4>2
      <3>4. \A t \in Streams : lastLine'[t] \subseteq seen'
        BY <2>2, <2>3 DEF IInv, Reasons, OutputSeen
      <3> QED BY <3>3, <3>4 DEF OutputSeen
    <2> QED BY <2>2, <2>3, <2>4, Undisturbed DEF IInv, Reasons, held, watched
  <1>12. CASE Exits \/ Destroyed \/ DetachedByOther
    <2>1. PICK e \in {"exitZero", "exitNonZero", "destroyed", "detached"} : Emit(e)
      BY <1>12 DEF Exits, Destroyed, DetachedByOther
    <2>2. /\ event' \in {event, e} /\ seen' = seen \cup {e}
          /\ UNCHANGED <<main, outcome, ctx, output, held, eventErr, waiter, exitResult>>
      BY <2>1 DEF Emit
    <2>3. EventSeen' /\ seen \subseteq seen'
      BY <2>2 DEF IInv, Reasons, EventSeen
    <2> QED BY <2>2, <2>3, Undisturbed DEF IInv, Reasons, output, held
  <1>13. CASE UNCHANGED vars
    BY <1>13, Undisturbed DEF IInv, Reasons, vars, output, held, watched
  <1> QED BY <1>2, <1>3, <1>4, <1>5, <1>6, <1>7, <1>8, <1>9, <1>10, <1>11, <1>12, <1>13 DEF Next

-----------------------------------------------------------------------------
(* The theorems *)

\* Every variable keeps to its type, for any frames, bounds and timeout.
THEOREM TypeCorrect == Spec => []TypeOK
PROOF
  <1>1. TypeOK /\ [Next]_vars => TypeOK'
    BY TypesInductive
  <1>2. Init => TypeOK
    BY TypesInductive
  <1> QED BY <1>1, <1>2, PTL DEF Spec

\* Every step of run is one of the verdict's, or none of its business.
LEMMA StepRefines ==
    ASSUME IInv, IInv', [Next]_vars
    PROVE  [Abstract!Next]_(Abstract!vars)
PROOF
  <1>1. seen \subseteq seen'
    <2>1. CASE Main
      BY <2>1 DEF Main, Attach, AttachFails, WaitExitOrRemoved, Start, StartFails,
                  ReturnStartError, ReceiveErr, ReceiveExit
    <2>2. CASE CopierWrites
      BY <2>2 DEF CopierWrites
    <2>3. CASE Hold \/ CopierChecks \/ CopierEnds \/ CopierBreaks
      BY <2>3 DEF Hold, CopierChecks, CopierEnds, CopierBreaks
    <2>4. CASE WaiterGetsMessage \/ WaiterGetsEvent \/ WaiterGetsErr \/ EventsEnd
      BY <2>4 DEF WaiterGetsMessage, WaiterGetsEvent, WaiterGetsErr, WaiterReports, EventsEnd
    <2>5. CASE Deadline \/ ContainerWrites
      BY <2>5 DEF Deadline, ContainerWrites
    <2>6. CASE Exits \/ Destroyed \/ DetachedByOther
      BY <2>6 DEF Exits, Destroyed, DetachedByOther, Emit
    <2>7. CASE UNCHANGED vars
      BY <2>7 DEF vars
    <2> QED BY <2>1, <2>2, <2>3, <2>4, <2>5, <2>6, <2>7 DEF Next
  <1>2. ASSUME outcome' # outcome
        PROVE  /\ outcome = "open" /\ outcome' \in {"success", "failure"}
               /\ Abstract!Justified(outcome', seen')
    <2>1. CASE AttachFails
      BY <2>1 DEF AttachFails, Return, IInv, Reasons, StillOpen, Abstract!Justified, Bad
    <2>2. CASE ReturnStartError
      BY <2>2 DEF ReturnStartError, Return, IInv, Reasons, StillOpen, ErrorSeen,
                  Abstract!Justified, Bad
    <2>3. CASE ReceiveErr
      <3>1. main = "errCh" /\ errCh # "empty" /\ errCh # "nil" /\ outcome' = "failure" /\ seen' = seen
        BY <1>2, <2>3 DEF ReceiveErr, Return
      <3>2. errCh = "error"
        BY <3>1 DEF IInv, TypeOK
      <3> QED BY <3>1, <3>2 DEF IInv, Reasons, StillOpen, ErrorSeen, Abstract!Justified, Bad
    <2>4. CASE ReceiveExit
      <3>1. /\ main = "exitChan" /\ waiter = "send" /\ seen' = seen
            /\ outcome' = IF Succeeded(exitResult) THEN "success" ELSE "failure"
        BY <2>4 DEF ReceiveExit, Return
      <3>2. ReasonFor(exitResult, seen)
        BY <3>1 DEF IInv, Reasons, ResultSupported
      <3> QED BY <3>1, <3>2 DEF IInv, Reasons, StillOpen, ReasonFor, Abstract!Justified
    <2>5. AttachFails \/ ReturnStartError \/ ReceiveErr \/ ReceiveExit
      BY <1>2 DEF Next, Main, Attach, WaitExitOrRemoved, Start, StartFails, Hold, CopierWrites,
                  CopierChecks, CopierEnds, CopierBreaks, WaiterGetsMessage, WaiterGetsEvent,
                  WaiterGetsErr, WaiterReports, EventsEnd, Deadline, ContainerWrites, Exits,
                  Destroyed, DetachedByOther, Emit, vars
    <2> QED BY <2>1, <2>2, <2>3, <2>4, <2>5
  <1>3. seen' \in SUBSET (Good \cup Bad)
    BY DEF IInv, TypeOK
  <1> QED BY <1>1, <1>2, <1>3 DEF Abstract!Next, Abstract!vars

\* Whatever the goroutines, the container and the clock do, run comes to at
\* most one verdict, and has a reason for it.
THEOREM RefinesStartVerdict == Spec => Refines
PROOF
  <1>1. Init => Abstract!Init
    BY DEF Init, Abstract!Init
  <1>2. Spec => []IInv
    BY Inductive, PTL DEF Spec
  <1>3. IInv /\ IInv' /\ [Next]_vars => [Abstract!Next]_(Abstract!vars)
    BY StepRefines
  <1> QED BY <1>1, <1>2, <1>3, PTL DEF Spec, Refines, Abstract!Spec

-----------------------------------------------------------------------------
(* The first line that matches *)

\* The frames whose tails are in lastLineBytes of a stream's writer once the
\* first n frames were copied.
Open(s, n) ==
    {m \in 1..n :
        /\ frames[m].stream = s
        /\ \A k \in (m + 1)..n : frames[k].stream = s => frames[k].lines = <<>>}

Pending(s, n) == UNION {frames[m].tail : m \in Open(s, n)}

FirstMatch(result) ==
    result.code = "keyword" =>
        \E n \in DOMAIN frames :
            /\ \A m \in 1..(n - 1) : Matching(m) = {}
            /\ Matching(n) # {}
            /\ result.keyword \in Line(n, Min(Matching(n)))

\* As long as nothing was reported, what was copied without a message has no
\* match, and each writer has the unfinished line of its stream in hand.
NothingYet ==
    waiter \in {"off", "select"} =>
        /\ copier # "sending" =>
              /\ \A m \in 1..read : Matching(m) = {}
              /\ \A s \in Streams : lastLine[s] = Pending(s, read)
        /\ copier = "sending" => FirstMatch(message)

MatchInv ==
    /\ main = "attach" => copier = "off"
    /\ NothingYet
    /\ FirstMatch(exitResult)

\* The tails in hand are those that the next frame's first line continues.
LEMMA PendingIsUnfinished ==
    \A n : Unfinished(n) = Open(frames[n].stream, n - 1)
  BY DEF Unfinished, Open

\* The lines of what was written do not change.
LEMMA WrittenStays ==
    ASSUME TypeOK, NEW frame \in Frames, frames' = Append(frames, frame)
    PROVE  /\ \A n \in 1..Len(frames) : n \in DOMAIN frames' /\ frames'[n] = frames[n]
           /\ \A n \in 1..Len(frames) : \A i : Line(n, i)' = Line(n, i)
           /\ \A n \in 1..Len(frames) : Matching(n)' = Matching(n)
           /\ \A n \in 0..Len(frames) : \A s : Pending(s, n)' = Pending(s, n)
PROOF
  <1>1. frames \in Seq(Frames) /\ Len(frames) \in Nat
    BY DEF TypeOK
  <1>2. \A n \in 1..Len(frames) : n \in DOMAIN frames' /\ frames'[n] = frames[n]
    BY <1>1
  <1>3. ASSUME NEW s, NEW n \in 0..Len(frames)
        PROVE  Open(s, n)' = Open(s, n) /\ Pending(s, n)' = Pending(s, n)
    <2>1. Open(s, n)' = Open(s, n)
      BY <1>1, <1>2 DEF Open
    <2>2. \A m \in Open(s, n) : frames'[m].tail = frames[m].tail
      BY <1>1, <1>2 DEF Open
    <2>3. QED
      BY <2>1, <2>2 DEF Pending
  <1>4. ASSUME NEW n \in 1..Len(frames), NEW i PROVE Line(n, i)' = Line(n, i)
    <2>1. n - 1 \in 0..Len(frames)
      BY <1>1
    <2>2. Unfinished(n)' = Unfinished(n)
      BY <1>2, <1>3, <2>1 DEF Unfinished, Open
    <2>3. \A m \in Unfinished(n) : frames'[m].tail = frames[m].tail
      BY <1>1, <1>2 DEF Unfinished
    <2>4. UNION {frames'[m].tail : m \in Unfinished(n)'} = UNION {frames[m].tail : m \in Unfinished(n)}
      BY <2>2, <2>3
    <2>5. frames'[n] = frames[n]
      BY <1>2
    <2>6. QED
      BY <2>4, <2>5 DEF Line
  <1>5. \A n \in 1..Len(frames) : Matching(n)' = Matching(n)
    BY <1>2, <1>4 DEF Matching
  <1>6. QED
    BY <1>2, <1>3, <1>4, <1>5

\* What the writer finds in a line is what the container wrote of it.
LEMMA FoundIsLine ==
    ASSUME TypeOK, read < Len(frames), \A s \in Streams : lastLine[s] = Pending(s, read)
    PROVE  /\ \A i : Found(frames[read + 1], i) = Line(read + 1, i)
           /\ Matching(read + 1) \subseteq Stops(frames[read + 1])
           /\ \A i \in Stops(frames[read + 1]) :
                 Found(frames[read + 1], i) # {} => i \in Matching(read + 1)
PROOF
  <1> DEFINE frame == frames[read + 1]
  <1>1. read \in Nat /\ read + 1 \in DOMAIN frames /\ frame \in Frame
    BY StartWatchAssumption DEF TypeOK
  <1>2. lastLine[frame.stream] = UNION {frames[m].tail : m \in Unfinished(read + 1)}
    <2>1. frame.stream \in Streams /\ (read + 1) - 1 = read
      BY <1>1 DEF Frame
    <2>2. Unfinished(read + 1) = Open(frame.stream, read)
      BY <2>1, PendingIsUnfinished
    <2>3. QED
      BY <2>1, <2>2 DEF Pending
  <1>3. \A i : Found(frame, i) = Line(read + 1, i)
    BY <1>2 DEF Found, Line
  <1>4. QED
    BY <1>3 DEF Matching, Stops

\* A frame is copied, and its first stop is a keyword, a line too many or none.
LEMMA WriteKeepsMatch ==
    ASSUME TypeOK, MatchInv, CopierWrites
    PROVE  MatchInv'
PROOF
  <1> DEFINE frame == frames[read + 1]
             i == FirstStop(frame)
  <1>1. /\ copier = "reading" /\ read < Len(frames) /\ read' = read + 1
        /\ frames' = frames /\ waiter' = waiter /\ exitResult' = exitResult /\ main' = main
    BY DEF CopierWrites, watched
  <1>2. /\ read \in Nat /\ read + 1 \in DOMAIN frames /\ frame \in Frames /\ frame \in Frame
        /\ lastLine \in [Streams -> SUBSET Keywords]
    BY <1>1, StartWatchAssumption DEF TypeOK
  <1>3. /\ \A n : Matching(n)' = Matching(n)
        /\ \A n, j : Line(n, j)' = Line(n, j)
        /\ \A s, n : Pending(s, n)' = Pending(s, n)
    BY <1>1 DEF Matching, Line, Unfinished, Pending, Open
  <1>4. FirstMatch(exitResult)'
    BY <1>1, <1>3 DEF MatchInv, FirstMatch
  <1> SUFFICES ASSUME waiter \in {"off", "select"} PROVE NothingYet'
    BY <1>1, <1>4 DEF MatchInv, NothingYet
  <1>5. /\ \A m \in 1..read : Matching(m) = {}
        /\ \A s \in Streams : lastLine[s] = Pending(s, read)
    BY <1>1 DEF MatchInv, NothingYet
  <1>6. /\ \A j : Found(frame, j) = Line(read + 1, j)
        /\ Matching(read + 1) \subseteq Stops(frame)
        /\ \A j \in Stops(frame) : Found(frame, j) # {} => j \in Matching(read + 1)
    BY <1>1, <1>5, FoundIsLine
  <1>7. CASE Stops(frame) = {}
    <2>1. /\ lastLine' = [lastLine EXCEPT
                ![frame.stream] = frame.tail \cup (IF frame.lines = <<>> THEN @ ELSE {})]
          /\ copier' = "wrote"
      BY <1>7 DEF CopierWrites
    <2>2. \A m \in 1..(read + 1) : Matching(m) = {}
      <3>1. Matching(read + 1) = {}
        BY <1>6, <1>7
      <3>2. \A m \in 1..(read + 1) : m \in 1..read \/ m = read + 1
        BY <1>2
      <3>3. QED
        BY <1>5, <3>1, <3>2
    <2>3. ASSUME NEW s \in Streams PROVE lastLine'[s] = Pending(s, read + 1)
      <3>1. 1..(read + 1) = (1..read) \cup {read + 1}
        BY <1>2
      <3>2. \A m \in 1..read : (m + 1)..(read + 1) = ((m + 1)..read) \cup {read + 1}
        BY <1>2
      <3>3. ((read + 1) + 1)..(read + 1) = {}
        BY <1>2
      <3>4. CASE s # frame.stream
        <4>1. Open(s, read + 1) = Open(s, read)
          BY <3>1, <3>2, <3>4 DEF Open
        <4>2. QED
          BY <2>1, <3>4, <4>1, <1>2, <1>5 DEF Pending
      <3>5. CASE s = frame.stream /\ frame.lines = <<>>
        <4>1. Open(s, read + 1) = Open(s, read) \cup {read + 1}
          BY <3>1, <3>2, <3>3, <3>5 DEF Open
        <4>2. Pending(s, read + 1) = Pending(s, read) \cup frame.tail
          BY <4>1 DEF Pending
        <4>3. QED
          BY <2>1, <3>5, <4>2, <1>2, <1>5
      <3>6. CASE s = frame.stream /\ frame.lines # <<>>
        <4>1. Open(s, read + 1) = {read + 1}
          BY <3>1, <3>2, <3>3, <3>6 DEF Open
        <4>2. Pending(s, read + 1) = frame.tail
          BY <4>1 DEF Pending
        <4>3. QED
          BY <2>1, <3>6, <4>2, <1>2
      <3>7. QED
        BY <3>4, <3>5, <3>6
    <2>4. QED
      BY <1>1, <1>3, <2>1, <2>2, <2>3 DEF NothingYet
  <1>8. CASE Stops(frame) # {} /\ Found(frame, i) # {}
    <2>1. /\ copier' = "sending"
          /\ \E keyword \in Found(frame, i) :
                message' = [code |-> "keyword", keyword |-> keyword]
      BY <1>8 DEF CopierWrites
    <2>2. Min(Matching(read + 1)) = i
      <3>1. i \in Stops(frame) /\ i \in Matching(read + 1)
        BY <1>2, <1>6, <1>8, Stop
      <3>2. Stops(frame) \subseteq Nat /\ Matching(read + 1) \subseteq Nat
        BY <1>2, <1>6 DEF Stops, Frame
      <3>3. \A j \in Stops(frame) : i <= j
        BY <1>8, <3>2, MinIsLeast DEF FirstStop
      <3>4. /\ Min(Matching(read + 1)) \in Matching(read + 1)
            /\ \A j \in Matching(read + 1) : Min(Matching(read + 1)) <= j
        BY <3>1, <3>2, MinIsLeast
      <3> HIDE DEF i
      <3>5. QED
        BY <1>6, <3>1, <3>2, <3>3, <3>4
    <2>3. Matching(read + 1) # {} /\ message'.keyword \in Line(read + 1, Min(Matching(read + 1)))
      BY <1>2, <1>6, <1>8, <2>1, <2>2, Stop
    <2>4. \A m \in 1..((read + 1) - 1) : Matching(m) = {}
      BY <1>2, <1>5
    <2>5. FirstMatch(message)'
      BY <1>1, <1>2, <1>3, <2>3, <2>4 DEF FirstMatch
    <2>6. QED
      BY <2>1, <2>5 DEF NothingYet
  <1>9. CASE Stops(frame) # {} /\ Found(frame, i) = {}
    <2>1. copier' = "sending" /\ message'.code = "maxLines"
      BY <1>9 DEF CopierWrites, Exit
    <2>2. QED
      BY <2>1 DEF NothingYet, FirstMatch
  <1>10. QED
    BY <1>7, <1>8, <1>9

\* Only the copier finds a match, and only its message reports one.
LEMMA MatchInductive ==
    /\ Init => MatchInv
    /\ IInv /\ MatchInv /\ [Next]_vars => MatchInv'
PROOF
  <1>1. ASSUME Init PROVE MatchInv
    <2>1. /\ read = 0 /\ copier = "off" /\ exitResult.code = "unknown"
          /\ lastLine = [s \in Streams |-> {}]
      BY <1>1 DEF Init, Exit
    <2>2. \A s : Pending(s, 0) = {}
      BY DEF Pending, Open
    <2>3. QED
      BY <2>1, <2>2 DEF MatchInv, NothingYet, FirstMatch
  <1> SUFFICES ASSUME IInv, TypeOK, MatchInv, [Next]_vars PROVE MatchInv'
    BY <1>1 DEF IInv
  \* A step that neither writes nor copies, and hands nothing over.
  <1>2. frames' = frames =>
           /\ \A n : Matching(n)' = Matching(n)
           /\ \A n, j : Line(n, j)' = Line(n, j)
           /\ \A s, n : Pending(s, n)' = Pending(s, n)
    BY DEF Matching, Line, Unfinished, Pending, Open
  <1>3. ASSUME UNCHANGED <<frames, read, lastLine, message>>,
               copier' = copier \/ (copier' # "sending" /\ copier # "sending")
                 \/ waiter' \in {"send", "ended"},
               main' = "attach" => main = "attach" /\ (copier = "off" => copier' = "off"),
               \/ UNCHANGED <<waiter, exitResult>>
               \/ waiter = "off" /\ waiter' = "select" /\ exitResult' = exitResult
               \/ waiter' \in {"send", "ended"} /\ FirstMatch(exitResult')
        PROVE  MatchInv'
    <2>1. \A r : FirstMatch(r) => (r = message' => FirstMatch(message)')
                                    /\ (r = exitResult' => FirstMatch(exitResult)')
      BY <1>2, <1>3 DEF FirstMatch
    <2>2. FirstMatch(exitResult)'
      BY <1>3, <2>1 DEF MatchInv
    <2>3. NothingYet'
      BY <1>2, <1>3, <2>1 DEF MatchInv, NothingYet
    <2>4. QED
      BY <1>3, <2>2, <2>3 DEF MatchInv
  <1>4. \A code \in {"zero", "nonZero", "unknown"} : FirstMatch(Exit(code))
    BY DEF FirstMatch, Exit
  <1>5. CASE Main
    <2>1. CASE Attach
      <3>1. UNCHANGED <<frames, read, lastLine, message, waiter, exitResult>> /\ copier' = "reading"
        BY <2>1 DEF Attach, watched
      <3>2. QED
        BY <3>1, <1>3, <2>1 DEF Attach, MatchInv
    <2>2. CASE WaitExitOrRemoved
      BY <2>2, <1>3 DEF WaitExitOrRemoved, output, IInv, Reasons, Unwatched
    <2>3. CASE ReceiveExit
      BY <2>3, <1>3 DEF ReceiveExit, Return, output, MatchInv
    <2>4. CASE AttachFails \/ Start \/ StartFails \/ ReturnStartError \/ ReceiveErr
      BY <2>4, <1>3 DEF AttachFails, Start, StartFails, ReturnStartError, ReceiveErr, Return,
                        output, watched
    <2>5. QED
      BY <1>5, <2>1, <2>2, <2>3, <2>4 DEF Main
  <1>6. CASE CopierWrites
    BY <1>6, WriteKeepsMatch
  <1>7. CASE CopierChecks \/ CopierEnds \/ CopierBreaks
    BY <1>7, <1>3 DEF CopierChecks, CopierEnds, CopierBreaks, watched
  <1>8. CASE WaiterGetsMessage
    BY <1>8, <1>3 DEF WaiterGetsMessage, WaiterReports, MatchInv, NothingYet
  <1>9. CASE WaiterGetsEvent
    <2>1. \E code \in {"zero", "nonZero", "unknown"} : exitResult' = Exit(code)
      BY <1>9 DEF WaiterGetsEvent, WaiterReports, IInv, TypeOK
    <2>2. FirstMatch(exitResult')
      BY <2>1, <1>4
    <2>3. UNCHANGED <<main, frames, read, lastLine, message, copier>> /\ waiter' = "send"
      BY <1>9 DEF WaiterGetsEvent, WaiterReports
    <2>4. QED
      BY <2>2, <2>3, <1>3
  <1>10. CASE WaiterGetsErr
    BY <1>10, <1>3, <1>4 DEF WaiterGetsErr, WaiterReports
  <1>11. CASE ContainerWrites
    <2>1. PICK frame \in Frames : frames' = Append(frames, frame)
      BY <1>11 DEF ContainerWrites
    <2>2. /\ UNCHANGED <<main, read, lastLine, copier, message, waiter, exitResult>>
          /\ read \in 0..Len(frames) /\ DOMAIN frames = 1..Len(frames)
      BY <1>11 DEF ContainerWrites, watched, TypeOK
    <2>3. /\ \A n \in 1..Len(frames) : n \in DOMAIN frames'
          /\ \A n \in 1..Len(frames) : \A j : Line(n, j)' = Line(n, j)
          /\ \A n \in 1..Len(frames) : Matching(n)' = Matching(n)
          /\ \A s : Pending(s, read)' = Pending(s, read)
      BY <2>1, <2>2, WrittenStays
    <2>4. \A n \in 1..Len(frames) : \A m \in 1..(n - 1) : Matching(m)' = Matching(m)
      BY <2>3 DEF TypeOK
    <2>5. (FirstMatch(message) => FirstMatch(message)') /\ (FirstMatch(exitResult) => FirstMatch(exitResult)')
      BY <2>2, <2>3, <2>4 DEF FirstMatch
    <2>6. \A m \in 1..read : Matching(m)' = Matching(m)
      BY <2>2, <2>3 DEF TypeOK
    <2>7. QED
      BY <2>2, <2>3, <2>5, <2>6 DEF MatchInv, NothingYet
  <1>12. CASE Hold \/ EventsEnd \/ Deadline \/ Exits \/ Destroyed \/ DetachedByOther
    BY <1>12, <1>3 DEF Hold, EventsEnd, Deadline, Exits, Destroyed, DetachedByOther, Emit,
                       output, watched
  <1>13. CASE UNCHANGED vars
    BY <1>13, <1>3 DEF vars, output, watched
  <1>14. QED
    BY <1>5, <1>6, <1>7, <1>8, <1>9, <1>10, <1>11, <1>12, <1>13 DEF Next

\* When a keyword decides, it is one of the first line that has any, for any
\* frames and any number of them, whatever the goroutines did meanwhile.
THEOREM FirstMatchIsReported == Spec => []FirstMatchDecides
PROOF
  <1>1. MatchInv => FirstMatchDecides
    BY DEF MatchInv, FirstMatch, FirstMatchDecides
  <1>2. QED
    BY <1>1, MatchInductive, Inductive, PTL DEF Spec

-----------------------------------------------------------------------------
(* Nobody waits in a circle *)

\* run asks for the events before it starts the container, and for errCh only
\* after somebody was sent to fill it.
Ordered ==
    /\ main \in {"attach", "subscribe"} => waiter = "off"
    /\ main \in {"start", "cancelled", "errCh", "exitChan"} => waiter \in {"select", "send"}
    /\ main \in {"subscribe", "start", "cancelled", "errCh"} => errCh # "empty" \/ hold = "on"
    /\ main = "attach" => copier = "off" /\ hold = "off" /\ errCh = "empty"

\* With a deadline the waiter ends the context, without one a start that fails does.
ContextEnded ==
    /\ ctx.timed /\ waiter \in {"send", "ended"} => ctx.done
    /\ ~ctx.timed /\ main = "cancelled" => ctx.done

Stopped == container \in {"exited", "removed"}

\* An end without an error, wherever the news of it has come to, is the
\* container's or the context's, and the container's end was an event.
EndExplained ==
    /\ copier = "eof" \/ errCh = "nil" \/ main = "exitChan" => Stopped \/ ctx.done
    /\ main \in {"errCh", "exitChan"} =>
          container # "created" /\ (Stopped => event # "none")

AnswerInv == TypeOK /\ Ordered /\ ContextEnded /\ EndExplained

\* The steps of run.
LEMMA MainKeepsAnswers ==
    ASSUME AnswerInv, Main
    PROVE  Ordered' /\ ContextEnded' /\ EndExplained'
PROOF
  <1> USE DEF AnswerInv, Ordered, ContextEnded, EndExplained, Stopped, TypeOK
  <1>1. CASE Attach
    BY <1>1 DEF Attach, watched
  <1>2. CASE AttachFails
    BY <1>2 DEF AttachFails, Return, output, held, watched
  <1>3. CASE WaitExitOrRemoved
    BY <1>3 DEF WaitExitOrRemoved, output, held
  <1>4. CASE Start
    BY <1>4 DEF Start, output, held, watched
  <1>5. CASE StartFails
    BY <1>5 DEF StartFails, CancelsHold, EndContext, output, held, watched
  <1>6. CASE ReturnStartError
    BY <1>6 DEF ReturnStartError, Return, output, watched
  <1>7. CASE ReceiveErr
    BY <1>7 DEF ReceiveErr, Return, output, watched
  <1>8. CASE ReceiveExit
    BY <1>8 DEF ReceiveExit, Return, output, held
  <1> QED BY <1>1, <1>2, <1>3, <1>4, <1>5, <1>6, <1>7, <1>8 DEF Main

\* The steps of the others.
LEMMA OthersKeepAnswers ==
    ASSUME AnswerInv, Next, ~Main
    PROVE  Ordered' /\ ContextEnded' /\ EndExplained'
PROOF
  <1> USE DEF AnswerInv, Ordered, ContextEnded, EndExplained, Stopped, TypeOK
  <1>1. CASE Hold
    BY <1>1 DEF Hold, HoldEnds, output, watched
  <1>2. CASE CopierWrites
    <2>1. copier' # "eof"
      BY <1>2 DEF CopierWrites
    <2>2. UNCHANGED <<main, ctx, container, hold, errCh, event, waiter>> /\ copier = "reading"
      BY <1>2 DEF CopierWrites, held, watched
    <2> QED BY <2>1, <2>2
  <1>3. CASE CopierChecks \/ CopierEnds \/ CopierBreaks
    BY <1>3 DEF CopierChecks, CopierEnds, CopierBreaks, held, watched
  <1>4. CASE WaiterGetsMessage \/ WaiterGetsEvent \/ WaiterGetsErr
    <2>1. /\ waiter = "select" /\ waiter' = "send"
          /\ ctx' = [ctx EXCEPT !.done = @ \/ ctx.timed]
          /\ UNCHANGED <<main, container, hold, errCh, event>>
          /\ copier' = copier \/ copier' = "wrote"
      BY <1>4 DEF WaiterGetsMessage, WaiterGetsEvent, WaiterGetsErr, WaiterReports, Detach,
                  EndContext, held
    <2> QED BY <2>1
  <1>5. CASE EventsEnd
    BY <1>5 DEF EventsEnd, output, held
  <1>6. CASE Deadline
    BY <1>6 DEF Deadline, EndContext, output, held, watched
  <1>7. CASE ContainerWrites
    BY <1>7 DEF ContainerWrites, held, watched
  <1>8. CASE Exits \/ Destroyed \/ DetachedByOther
    <2>1. /\ UNCHANGED <<main, ctx, copier, hold, errCh, waiter>>
          /\ waiter # "off" => event' # "none"
          /\ event # "none" => event' # "none"
      BY <1>8 DEF Exits, Destroyed, DetachedByOther, Emit, Subscribed, output, held
    <2>2. /\ Stopped => Stopped'
          /\ container # "created" => container' # "created"
      BY <1>8 DEF Exits, Destroyed, DetachedByOther
    <2> QED BY <2>1, <2>2
  <1> QED BY <1>1, <1>2, <1>3, <1>4, <1>5, <1>6, <1>7, <1>8 DEF Next

\* Whatever frames come, whatever becomes of the container, and with a timeout
\* or without: none of those run waits for is waiting for run.
THEOREM NobodyWaitsInACircle == Spec => []RunIsAnswered
PROOF
  <1>1. Init => Ordered /\ ContextEnded /\ EndExplained
    BY DEF Init, Ordered, ContextEnded, EndExplained, Stopped
  <1>2. TypeOK /\ Ordered /\ ContextEnded /\ EndExplained /\ [Next]_vars
          => Ordered' /\ ContextEnded' /\ EndExplained'
    <2>1. CASE UNCHANGED vars
      BY <2>1 DEF vars, output, held, watched, Ordered, ContextEnded, EndExplained, Stopped
    <2> QED BY <2>1, MainKeepsAnswers, OthersKeepAnswers DEF AnswerInv
  <1>3. TypeOK /\ Ordered /\ ContextEnded /\ EndExplained => RunIsAnswered
    BY DEF TypeOK, Ordered, ContextEnded, EndExplained, RunIsAnswered, HoldEnds
  <1> QED BY <1>1, <1>2, <1>3, TypeCorrect, PTL DEF Spec
=============================================================================
