---------------------------- MODULE FrameStream ----------------------------
(***************************************************************************)
(* What demultiplexing a connection promises: of the frames on the wire a  *)
(* prefix is delivered, each of them whole, on its stream, once and in the *)
(* order of the wire, whatever pieces the wire arrives in.                 *)
(***************************************************************************)
EXTENDS Naturals, Sequences

CONSTANTS
    Radix,      \* the size of a frame is two digits,
    PrefixLen   \* the last cells of its header

VARIABLES
    wire,       \* everything the connection carries
    next,       \* how many cells of it were delivered
    delivered,
    done

vars == <<wire, next, delivered, done>>

\* The frame that begins after the first n cells.
SizeAt(n) == wire[n + PrefixLen - 1] * Radix + wire[n + PrefixLen]

Whole(n) == n + PrefixLen <= Len(wire) /\ n + PrefixLen + SizeAt(n) <= Len(wire)

FrameAt(n) ==
    [stream |-> IF wire[n + 1] = 2 THEN "stderr" ELSE "stdout",
     data |-> [i \in 1..SizeAt(n) |-> wire[n + PrefixLen + i]]]

Init == next = 0 /\ delivered = <<>> /\ done = FALSE

Deliver ==
    /\ ~done /\ Whole(next) /\ wire[next + 1] \in 0..2
    /\ delivered' = Append(delivered, FrameAt(next))
    /\ next' = next + PrefixLen + SizeAt(next)
    /\ done' \in BOOLEAN
    /\ UNCHANGED wire

Stop == ~done /\ done' = TRUE /\ UNCHANGED <<wire, next, delivered>>

Next == Deliver \/ Stop

Spec == Init /\ [][Next]_vars
=============================================================================
