------------------------------ MODULE StdCopy ------------------------------
(***************************************************************************)
(* StdCopy of docker/utils.go: it reads the multiplexed output of a        *)
(* container from a connection, in whatever pieces it arrives, and writes  *)
(* what follows each header to the writer of its stream.                   *)
(*                                                                         *)
(* A byte is a cell.  A header has its shape but not its length: the       *)
(* stream in the first cell, padding, and the size in the last two, the    *)
(* more significant one first.  The number of bytes StdCopy returns is     *)
(* left out: its caller ignores it.                                        *)
(***************************************************************************)
EXTENDS Naturals, Sequences

CONSTANTS
    Radix,              \* 256
    stdWriterPrefixLen, \* 8
    ReadSize,           \* 32 * 1024
    Wires               \* what the connection may carry until it ends

Byte == 0..(Radix - 1)

ASSUME StdCopyAssumption ==
    /\ Radix \in Nat /\ Radix > 3
    /\ stdWriterPrefixLen \in Nat /\ stdWriterPrefixLen > 2
    /\ ReadSize \in Nat
    /\ Wires \subseteq Seq(Byte)

VARIABLES
    wire,
    received,       \* how many cells of the wire were read
    buf, bufLen,
    nr,             \* how many cells of the buffer are in use
    frameSize,
    pc,             \* "header", "frame" or "returned"
    cancelled,      \* ctx is done
    delivered,      \* what the two writers were given, in one order
    err             \* why it returned: "eof" and "ctx" are a nil error

vars == <<wire, received, buf, bufLen, nr, frameSize, pc, cancelled, delivered, err>>

startingBufLen == ReadSize + stdWriterPrefixLen + 1

Frame == [stream: {"stdout", "stderr"}, data: Seq(Byte)]

TypeOK ==
    /\ wire \in Seq(Byte) /\ received \in 0..Len(wire)
    /\ bufLen \in Nat /\ buf \in [0..(bufLen - 1) -> Byte]
    /\ nr \in 0..received
    /\ frameSize \in Nat
    /\ pc \in {"header", "frame", "returned"}
    /\ cancelled \in BOOLEAN
    /\ delivered \in Seq(Frame)
    /\ err \in {"none", "eof", "ctx", "read", "header", "daemon", "write"}

Init ==
    /\ wire \in Wires /\ received = 0
    /\ bufLen = startingBufLen /\ buf = [i \in 0..(startingBufLen - 1) |-> 0]
    /\ nr = 0 /\ frameSize = 0
    /\ pc = "header" /\ cancelled = FALSE
    /\ delivered = <<>> /\ err = "none"

Return(reason) == pc' = "returned" /\ err' = reason

-----------------------------------------------------------------------------
(* Reading *)

\* src.Read(buf[nr:]) puts the next n cells of the wire behind those in use.
Read(n) ==
    /\ received + n <= Len(wire)
    /\ received' = received + n /\ nr' = nr + n
    /\ buf' = [i \in 0..(bufLen - 1) |->
                  IF i \in nr..(nr + n - 1) THEN wire[received + i - nr + 1] ELSE buf[i]]
    /\ UNCHANGED <<wire, bufLen, frameSize, cancelled, delivered>>

\* (mutant: EOF is believed although what was read before it is complete)
AtEOF(needed) == Return("eof")

\* EOF may come together with the last cells.
EOF(needed) == IF nr' < needed THEN Return("eof") ELSE UNCHANGED <<pc, err>>

\* One turn of a loop that wants so many cells in the buffer.  Without room for
\* more, Read returns nothing, and the loop turns for ever.
ReadUntil(needed) ==
    /\ nr < needed
    /\ \E n \in 0..(bufLen - nr) :
          /\ Read(n)
          /\ \/ n > 0 /\ UNCHANGED <<pc, err>>
             \/ nr < bufLen /\ received' = Len(wire) /\ EOF(needed)

Needed == IF pc = "header" THEN stdWriterPrefixLen ELSE stdWriterPrefixLen + frameSize

ReadMore == pc # "returned" /\ ReadUntil(Needed)

ReadFails ==
    /\ pc # "returned" /\ nr < Needed
    /\ \E n \in 0..(bufLen - nr) : Read(n)
    /\ Return("read")

-----------------------------------------------------------------------------
(* Frames *)

\* (mutant: the header is not counted)
GrownWithoutHeader(size) == size + 1

\* append(buf, make([]byte, size + stdWriterPrefixLen - bufLen + 1)...)
Grown(size) == size + stdWriterPrefixLen + 1

ParseHeader ==
    /\ pc = "header" /\ nr >= stdWriterPrefixLen
    /\ LET size == buf[stdWriterPrefixLen - 2] * Radix + buf[stdWriterPrefixLen - 1]
           length == IF size + stdWriterPrefixLen > bufLen THEN Grown(size) ELSE bufLen
       IN  \/ buf[0] > 3 /\ Return("header") /\ UNCHANGED <<frameSize, buf, bufLen>>
           \/ /\ buf[0] \in 0..3
              /\ frameSize' = size
              /\ bufLen' = length
              /\ buf' = [i \in 0..(length - 1) |-> IF i < bufLen THEN buf[i] ELSE 0]
              /\ pc' = "frame" /\ UNCHANGED err
    /\ UNCHANGED <<wire, received, nr, cancelled, delivered>>

\* (mutant: the buffer is taken to be empty after a frame)
DropRest == nr' = 0 /\ UNCHANGED buf

\* (mutant: one cell too many is skipped)
SkipOneMore ==
    LET size == stdWriterPrefixLen + frameSize + 1
    IN  /\ nr' = nr - size
        /\ buf' = [i \in 0..(bufLen - 1) |-> IF i + size < bufLen THEN buf[i + size] ELSE buf[i]]

\* What is left in the buffer moves to its beginning.
KeepRest ==
    LET size == stdWriterPrefixLen + frameSize
    IN  /\ nr' = nr - size
        /\ buf' = [i \in 0..(bufLen - 1) |-> IF i + size < bufLen THEN buf[i + size] ELSE buf[i]]

WriteFrame ==
    /\ pc = "frame" /\ nr >= Needed
    /\ buf[0] # 3
    /\ delivered' = Append(delivered,
           [stream |-> IF buf[0] = 2 THEN "stderr" ELSE "stdout",
            data |-> [i \in 1..frameSize |-> buf[stdWriterPrefixLen + i - 1]]])
    /\ KeepRest
    /\ IF cancelled THEN Return("ctx") ELSE pc' = "header" /\ UNCHANGED err
    /\ UNCHANGED <<wire, received, bufLen, frameSize, cancelled>>

\* A frame of the daemon's own, or a writer that fails or writes less.
GiveUp ==
    /\ pc = "frame" /\ nr >= Needed
    /\ Return(IF buf[0] = 3 THEN "daemon" ELSE "write")
    /\ UNCHANGED <<wire, received, buf, bufLen, nr, frameSize, cancelled, delivered>>

Cancel ==
    /\ pc # "returned" /\ ~cancelled /\ cancelled' = TRUE
    /\ UNCHANGED <<wire, received, buf, bufLen, nr, frameSize, pc, delivered, err>>

Next == ReadMore \/ ReadFails \/ ParseHeader \/ WriteFrame \/ GiveUp \/ Cancel

\* The connection goes on delivering, and ends some time.
Spec ==
    /\ Init /\ [][Next]_vars
    /\ WF_vars(ReadMore) /\ WF_vars(ParseHeader) /\ WF_vars(WriteFrame \/ GiveUp)

-----------------------------------------------------------------------------
(* Properties *)

\* A prefix of the frames is delivered, whole and in order, however the wire is
\* cut into reads, whatever is left of one read when a frame is complete, and
\* whether or not the buffer had to grow (utils.go:94-198).
Stream == INSTANCE FrameStream
              WITH PrefixLen <- stdWriterPrefixLen, next <- received - nr,
                   done <- (pc = "returned")
Delivers == Stream!Spec

\* "if err is non nil, it indicates a real underlying error" (utils.go:91), and
\* conversely: when StdCopy ends with the connection, every frame the connection
\* carried whole was delivered, also those read together with EOF.
NothingLost == err = "eof" => received = Len(wire) /\ ~Stream!Whole(received - nr)

\* StdCopy never asks for more where the buffer has no room: it would spin.
RoomToRead == pc # "returned" /\ nr < Needed => nr < bufLen

\* Once the connection ends, so does StdCopy.
Terminates == <>(pc = "returned")
=============================================================================
