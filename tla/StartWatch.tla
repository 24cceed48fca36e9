----------------------------- MODULE StartWatch -----------------------------
(***************************************************************************)
(* The part of deployment.go's run that starts the new container and waits *)
(* for a verdict on it, with the goroutines it starts for that:            *)
(*                                                                         *)
(*   main     run itself                     ci/deployments/deployment.go  *)
(*   hold     PromiseGo(holdHijackedConnection)  docker/container.go       *)
(*   copier   StdCopy into two ConditionWriters  utils.go, streams.go      *)
(*   waiter   the goroutine of WaitExitOrRemoved docker/container.go       *)
(*                                                                         *)
(* writeExitedChan (copier to waiter) and exitChan (waiter to main) are    *)
(* unbuffered: the sender and the receiver take the step together.  errCh  *)
(* (hold to main) has a buffer of one.                                     *)
(*                                                                         *)
(* attach is always true: GetLines answers 100 when ci.yaml says nothing.  *)
(* Reading stdin ends nothing, so the goroutine that does is left out.     *)
(***************************************************************************)
EXTENDS Naturals, Sequences, FiniteSetsExt

CONSTANTS
    MaxLogLines,    \* Assertions.GetLines()
    Frames,         \* what the container may write at once
    MaxFrames       \* bound on how often it does

Streams == {"stdout", "stderr"}
Keywords == {"success", "fail"}

\* The lines a frame completes, and what it has of the line after them.  Of a
\* line only the keywords matter; one cut in two counts where it ends.
Frame == [stream: Streams, lines: Seq(SUBSET Keywords), tail: SUBSET Keywords]

ASSUME StartWatchAssumption ==
    /\ MaxLogLines \in Nat \ {0}
    /\ MaxFrames \in Nat
    /\ Frames \subseteq Frame

VARIABLES
    main,       \* the next step of run
    outcome,    \* what run makes of the start
    ctx,        \* the context of the connection and of the events: has it a
                \* deadline (Assertions.GetTimeout() > 0), and has it ended
    container,  \* "created", "running", "exited" or "removed"
    frames,     \* everything the container wrote
    read,       \* how many of the frames were copied
    lastLine,   \* keywords in lastLineBytes of the writer for each stream
    lineCount,  \* lineCounter, which both writers share
    copier,
    message,    \* what the copier sends on writeExitedChan
    hold,
    errCh,      \* "empty", "nil" or "error"
    event,      \* the first event of the container that ends the wait
    eventErr,   \* errChan of the events stream
    waiter,
    exitResult,
    seen        \* reasons for a verdict so far (history)

output == <<frames, read, lastLine, lineCount, copier, message>>
held == <<hold, errCh>>
watched == <<event, eventErr, waiter, exitResult>>
vars == <<main, outcome, ctx, container, output, held, watched, seen>>

Good == {"success", "exitZero", "detached"}
Bad == {"fail", "exitNonZero", "destroyed", "tooManyLines", "deadline", "broken", "startFailed"}

\* docker/types.go; "unknown" is 125.
Code == {"unknown", "zero", "nonZero", "keyword", "maxLines"}
NoKeyword == "none"
Result == [code: Code, keyword: Keywords \cup {NoKeyword}]

Exit(code) == [code |-> code, keyword |-> NoKeyword]

TypeOK ==
    /\ main \in {"attach", "subscribe", "start", "cancelled", "errCh", "exitChan", "returned"}
    /\ outcome \in {"open", "success", "failure"}
    /\ ctx \in [timed: BOOLEAN, done: BOOLEAN]
    /\ container \in {"created", "running", "exited", "removed"}
    /\ frames \in Seq(Frames) /\ Len(frames) <= MaxFrames
    /\ read \in 0..Len(frames)
    /\ lastLine \in [Streams -> SUBSET Keywords]
    /\ lineCount \in Nat
    /\ copier \in {"off", "reading", "sending", "wrote", "eof", "error"}
    /\ message \in Result
    /\ hold \in {"off", "on", "over"}
    /\ errCh \in {"empty", "nil", "error"}
    /\ event \in {"none", "exitZero", "exitNonZero", "destroyed", "detached"}
    /\ eventErr \in BOOLEAN
    /\ waiter \in {"off", "select", "send", "ended"}
    /\ exitResult \in Result
    /\ seen \subseteq Good \cup Bad

Init ==
    /\ main = "attach" /\ outcome = "open"
    /\ ctx \in [timed: BOOLEAN, done: {FALSE}]
    /\ container = "created"
    /\ frames = <<>> /\ read = 0
    /\ lastLine = [s \in Streams |-> {}] /\ lineCount = 0
    /\ copier = "off" /\ message = Exit("unknown")
    /\ hold = "off" /\ errCh = "empty"
    /\ event = "none" /\ eventErr = FALSE
    /\ waiter = "off" /\ exitResult = Exit("unknown")
    /\ seen = {}

-----------------------------------------------------------------------------
(* main *)

EndContext == ctx' = [ctx EXCEPT !.done = TRUE]

Return(verdict) == main' = "returned" /\ outcome' = verdict

\* The connection is dialled under the context, and held in the background.
Attach ==
    /\ main = "attach" /\ ~ctx.done /\ container # "removed"
    /\ main' = "subscribe"
    /\ hold' = "on" /\ copier' = "reading"
    /\ UNCHANGED <<outcome, ctx, container, frames, read, lastLine, lineCount,
                   message, errCh, watched, seen>>

AttachFails ==
    /\ main = "attach"
    /\ Return("failure") /\ seen' = seen \cup {"broken"}
    /\ UNCHANGED <<ctx, container, output, held, watched>>

\* WaitExitOrRemoved returns once the events are subscribed to.
WaitExitOrRemoved ==
    /\ main = "subscribe"
    /\ main' = "start" /\ waiter' = "select"
    /\ UNCHANGED <<outcome, ctx, container, output, held, event, eventErr, exitResult, seen>>

Start ==
    /\ main = "start" /\ container = "created"
    /\ container' = "running" /\ main' = "errCh"
    /\ UNCHANGED <<outcome, ctx, output, held, watched, seen>>

\* cancelFunc belongs to the first context; with a timeout there is a second
\* one, and it is the second that the connection is held under.
CancelsHold == IF ctx.timed THEN UNCHANGED ctx ELSE EndContext

StartFails ==
    /\ main = "start"
    /\ main' = "cancelled" /\ seen' = seen \cup {"startFailed"}
    /\ CancelsHold
    /\ container' \in {container} \cup (IF container = "created" THEN {"running"} ELSE {})
    /\ UNCHANGED <<outcome, output, held, watched>>

ReturnStartError ==
    /\ main = "cancelled" /\ errCh # "empty"
    /\ errCh' = "empty"
    /\ Return("failure")
    /\ UNCHANGED <<ctx, container, output, hold, watched, seen>>

ReceiveErr ==
    /\ main = "errCh" /\ errCh # "empty"
    /\ errCh' = "empty"
    /\ IF errCh = "nil" THEN main' = "exitChan" /\ UNCHANGED outcome ELSE Return("failure")
    /\ UNCHANGED <<ctx, container, output, hold, watched, seen>>

\* (mutant: any keyword will do)
AnyKeyword(result) == result.code \in {"zero", "keyword"}

Succeeded(result) ==
    result.code = "zero" \/ (result.code = "keyword" /\ result.keyword = "success")

\* exitChan: the waiter hands over exitResult, and is done.
ReceiveExit ==
    /\ main = "exitChan" /\ waiter = "send"
    /\ waiter' = "ended"
    /\ Return(IF Succeeded(exitResult) THEN "success" ELSE "failure")
    /\ UNCHANGED <<ctx, container, output, held, event, eventErr, exitResult, seen>>

Main ==
    \/ Attach \/ AttachFails \/ WaitExitOrRemoved \/ Start \/ StartFails
    \/ ReturnStartError \/ ReceiveErr \/ ReceiveExit

-----------------------------------------------------------------------------
(* hold and copier *)

\* (mutant: the end of the context is not waited for)
HoldIgnoringContext == copier \in {"eof", "error"}

HoldEnds == copier \in {"eof", "error"} \/ ctx.done

Hold ==
    /\ hold = "on" /\ HoldEnds
    /\ hold' = "over"
    /\ errCh' \in {IF copier = "error" THEN "error" ELSE "nil"}
                      \cup (IF ctx.done THEN {"nil"} ELSE {})
    /\ UNCHANGED <<main, outcome, ctx, container, output, watched, seen>>

\* What a writer finds in line i of a frame, with what is left in lastLineBytes.
Found(frame, i) == frame.lines[i] \cup (IF i = 1 THEN lastLine[frame.stream] ELSE {})

\* The lines at which Write would stop: a keyword, or one line too many.
Stops(frame) ==
    {i \in DOMAIN frame.lines : Found(frame, i) # {} \/ lineCount + i > MaxLogLines}

\* (mutant: the latest match in a frame counts)
LastStop(frame) == Max(Stops(frame))

FirstStop(frame) == Min(Stops(frame))

\* ConditionWriter.Write of one frame.  Where it stops it drops the rest of the
\* frame and, after a keyword, keeps lastLineBytes.  A line with two keywords is
\* reported by the one the iteration over the map comes to first.
CopierWrites ==
    /\ copier = "reading" /\ read < Len(frames)
    /\ read' = read + 1
    /\ LET frame == frames[read + 1]
           s == frame.stream
           i == FirstStop(frame)
       IN  \/ /\ Stops(frame) = {}
              /\ lastLine' = [lastLine EXCEPT
                     ![s] = frame.tail \cup (IF frame.lines = <<>> THEN @ ELSE {})]
              /\ lineCount' = lineCount + Len(frame.lines)
              /\ copier' = "wrote" /\ UNCHANGED <<message, seen>>
           \/ /\ Stops(frame) # {} /\ Found(frame, i) # {}
              /\ \E keyword \in Found(frame, i) :
                    message' = [code |-> "keyword", keyword |-> keyword]
              /\ lastLine' = [lastLine EXCEPT ![s] = Found(frame, i)]
              /\ lineCount' = lineCount + i - 1
              /\ copier' = "sending" /\ UNCHANGED seen
           \/ /\ Stops(frame) # {} /\ Found(frame, i) = {}
              /\ message' = Exit("maxLines") /\ seen' = seen \cup {"tooManyLines"}
              /\ lastLine' = [lastLine EXCEPT ![s] = {}]
              /\ lineCount' = lineCount + i
              /\ copier' = "sending"
    /\ UNCHANGED <<main, outcome, ctx, container, frames, held, watched>>

\* StdCopy looks at the context between two frames only.
CopierChecks ==
    /\ copier = "wrote"
    /\ copier' = IF ctx.done THEN "eof" ELSE "reading"
    /\ UNCHANGED <<main, outcome, ctx, container, frames, read, lastLine, lineCount,
                   message, held, watched, seen>>

CopierEnds ==
    /\ copier = "reading" /\ read = Len(frames) /\ container \in {"exited", "removed"}
    /\ copier' = "eof"
    /\ UNCHANGED <<main, outcome, ctx, container, frames, read, lastLine, lineCount,
                   message, held, watched, seen>>

\* The connection breaks, or run has returned and closed it.
CopierBreaks ==
    /\ copier = "reading"
    /\ copier' = "error"
    /\ seen' = IF main = "returned" THEN seen ELSE seen \cup {"broken"}
    /\ UNCHANGED <<main, outcome, ctx, container, frames, read, lastLine, lineCount,
                   message, held, watched>>

-----------------------------------------------------------------------------
(* waiter *)

\* (mutant: the deadline is left to run)
WaitOn == UNCHANGED ctx

\* detach() ends the context, if there is one to end.
Detach == IF ctx.timed THEN EndContext ELSE UNCHANGED ctx

WaiterReports(result) ==
    /\ waiter = "select"
    /\ waiter' = "send" /\ exitResult' = result
    /\ Detach
    /\ UNCHANGED <<main, outcome, container, frames, read, lastLine, lineCount, message, held, seen>>

WaiterGetsMessage ==
    /\ copier = "sending" /\ copier' = "wrote"
    /\ WaiterReports(message)
    /\ UNCHANGED <<event, eventErr>>

\* eventProcessor: what is removed before it died leaves the code unknown.
WaiterGetsEvent ==
    /\ event # "none"
    /\ WaiterReports(Exit(CASE event \in {"exitZero", "detached"} -> "zero"
                            [] event = "exitNonZero" -> "nonZero"
                            [] event = "destroyed" -> "unknown"))
    /\ UNCHANGED <<copier, event, eventErr>>

WaiterGetsErr ==
    /\ eventErr
    /\ WaiterReports(Exit("unknown"))
    /\ UNCHANGED <<copier, event, eventErr>>

\* The events end with their context, or because the engine goes away.
EventsEnd ==
    /\ waiter = "select" /\ ~eventErr
    /\ eventErr' = TRUE
    /\ seen' = IF ctx.done THEN seen ELSE seen \cup {"broken"}
    /\ UNCHANGED <<main, outcome, ctx, container, output, held, event, waiter, exitResult>>

\* EventsEnd without the failure: what the context alone brings about.
EventsCancelled == ctx.done /\ EventsEnd

-----------------------------------------------------------------------------
(* The clock and the container *)

Deadline ==
    /\ ctx.timed /\ ~ctx.done
    /\ EndContext /\ seen' = seen \cup {"deadline"}
    /\ UNCHANGED <<main, outcome, container, output, held, watched>>

ContainerWrites ==
    /\ container = "running" /\ Len(frames) < MaxFrames
    /\ \E frame \in Frames :
          /\ frames' = Append(frames, frame)
          /\ seen' = seen \cup frame.tail
                         \cup UNION {frame.lines[i] : i \in DOMAIN frame.lines}
    /\ UNCHANGED <<main, outcome, ctx, container, read, lastLine, lineCount, copier,
                   message, held, watched>>

\* (mutant: the events are asked for when the output has ended)
SubscribedLate == main = "exitChan"

\* Events are asked for before the container is started, and those of the past
\* are not sent.
Subscribed == waiter # "off"

Emit(e) ==
    /\ event' = IF Subscribed /\ event = "none" THEN e ELSE event
    /\ seen' = seen \cup {e}
    /\ UNCHANGED <<main, outcome, ctx, output, held, eventErr, waiter, exitResult>>

Exits ==
    /\ container = "running" /\ container' = "exited"
    /\ \E e \in {"exitZero", "exitNonZero"} : Emit(e)

\* Somebody else removes the container, or detaches from it with the escape keys.
Destroyed == container # "removed" /\ container' = "removed" /\ Emit("destroyed")

DetachedByOther == container = "running" /\ UNCHANGED container /\ Emit("detached")

Next ==
    \/ Main
    \/ Hold \/ CopierWrites \/ CopierChecks \/ CopierEnds \/ CopierBreaks
    \/ WaiterGetsMessage \/ WaiterGetsEvent \/ WaiterGetsErr \/ EventsEnd
    \/ Deadline \/ ContainerWrites \/ Exits \/ Destroyed \/ DetachedByOther

\* Every goroutine that can go on does, and the events end with their context.
Scheduling ==
    /\ WF_vars(Main) /\ WF_vars(Hold)
    /\ WF_vars(CopierWrites) /\ WF_vars(CopierChecks) /\ WF_vars(CopierEnds)
    /\ WF_vars(WaiterGetsMessage \/ WaiterGetsEvent \/ WaiterGetsErr)
    /\ WF_vars(EventsCancelled)

\* A clock nobody may rely on: a deadline may come at any time, or never.
Spec == Init /\ [][Next]_vars /\ Scheduling

-----------------------------------------------------------------------------
(* Properties *)

\* The frames whose tails are part of the first line that frame n completes.
Unfinished(n) ==
    {m \in 1..(n - 1) :
        /\ frames[m].stream = frames[n].stream
        /\ \A k \in (m + 1)..(n - 1) : frames[k].stream = frames[n].stream => frames[k].lines = <<>>}

\* Line i of those that frame n completes.
Line(n, i) ==
    frames[n].lines[i] \cup (IF i = 1 THEN UNION {frames[m].tail : m \in Unfinished(n)} ELSE {})

Matching(n) == {i \in DOMAIN frames[n].lines : Line(n, i) # {}}

\* When a keyword decides, it is one of the first line that has any, in the
\* order in which the container ended its lines, whatever the streams, however
\* the lines are cut into frames, and whatever the goroutines did meanwhile
\* (ConditionWriter.Write, WaitExitOrRemoved).
FirstMatchDecides ==
    exitResult.code = "keyword" =>
        \E n \in DOMAIN frames :
            /\ \A m \in 1..(n - 1) : Matching(m) = {}
            /\ Matching(n) # {}
            /\ exitResult.keyword \in Line(n, Min(Matching(n)))

\* Every verdict has a reason, and the first one stands.
Abstract == INSTANCE StartVerdict
Refines == Abstract!Spec

\* Nobody run waits for is waiting for run.  On errCh there is an error, or hold
\* goes on, and it need not wait for the copier once the waiter knows the exit
\* code, if there is a timeout, or once the start failed, if there is none.  On
\* exitChan there is the waiter, and what it waits for was not missed (Attach,
\* WaitExitOrRemoved and EnsureRunning in this order, detach, cancelFunc).
RunIsAnswered ==
    /\ main \in {"errCh", "cancelled"} /\ errCh = "empty" =>
          /\ hold = "on"
          /\ (IF ctx.timed THEN waiter = "send" ELSE main = "cancelled") => HoldEnds
    /\ main = "exitChan" =>
          \/ waiter = "send"
          \/ waiter = "select" /\ (event # "none" \/ eventErr \/ ctx.done)

\* With a timeout, and a clock that goes on, run always comes to a verdict,
\* whatever the container does (context.WithDeadline, holdHijackedConnection).
VerdictReached ==
    WF_vars(Deadline) => (ctx.timed ~> outcome # "open")

\* With a timeout, run ends as soon as the waiter knows how the start went: it
\* does not sit out the deadline (detach, holdHijackedConnection, exitChan).
ResultEndsRun == (ctx.timed /\ waiter = "send") ~> (main = "returned")

\* Once the output ended without an error the exit code comes, and run takes it,
\* with a timeout or without: the container cannot have exited unnoticed
\* (WaitExitOrRemoved before EnsureRunning, then exitChan).
OutputEndsRun == (main = "exitChan") ~> (main = "returned")

-----------------------------------------------------------------------------
(* What the repository says of the program, and the program does not do *)

\* container.go:575, "must always send an exit code or the caller will block":
\* sending it ends the wait of run, with a timeout or without.
ExitCodeUnblocks == (waiter = "send") ~> (main = "returned")
=============================================================================
