--------------------------- MODULE StdCopyProofs ---------------------------
(***************************************************************************)
(* What holds of StdCopy for every wire, every length of header and buffer *)
(* and every way of cutting the wire into reads: the buffer always begins  *)
(* with the frame that is due, so frames are delivered whole and in order. *)
(***************************************************************************)
EXTENDS StdCopy, TLAPS

-----------------------------------------------------------------------------

\* The cells in use are the latest ones of the wire.
Aligned ==
    /\ nr <= bufLen
    /\ \A i \in 0..(nr - 1) : buf[i] = wire[received - nr + i + 1]

\* Between its header and its end, a frame fits, and its header is in the buffer.
Parsed ==
    pc = "frame" =>
        /\ stdWriterPrefixLen <= nr
        /\ buf[0] \in 0..3
        /\ frameSize = buf[stdWriterPrefixLen - 2] * Radix + buf[stdWriterPrefixLen - 1]
        /\ frameSize + stdWriterPrefixLen <= bufLen

IInv ==
    /\ TypeOK /\ Aligned /\ Parsed
    /\ stdWriterPrefixLen < bufLen
    /\ pc # "returned" => err = "none"
    /\ NothingLost

LEMMA IInvInit == Init => IInv
  <1> SUFFICES ASSUME Init PROVE IInv
    OBVIOUS
  <1> USE StdCopyAssumption DEF Init
  <1>1. TypeOK
    <2>1. startingBufLen \in Nat /\ 0 \in Byte
      BY DEF startingBufLen, Byte
    <2>2. buf \in [0..(bufLen - 1) -> Byte] /\ bufLen \in Nat
      BY <2>1
    <2>3. wire \in Seq(Byte) /\ received \in 0..Len(wire) /\ delivered \in Seq(Frame)
      OBVIOUS
    <2>4. nr \in 0..received /\ frameSize \in Nat
      OBVIOUS
    <2>5. /\ cancelled \in BOOLEAN
          /\ pc \in {"header", "frame", "returned"}
          /\ err \in {"none", "eof", "ctx", "read", "header", "daemon", "write"}
      OBVIOUS
    <2>6. QED
      BY <2>2, <2>3, <2>4, <2>5 DEF TypeOK
  <1>2. Aligned /\ Parsed /\ stdWriterPrefixLen < bufLen /\ NothingLost
    BY DEF Aligned, Parsed, startingBufLen, NothingLost
  <1>3. QED
    BY <1>1, <1>2 DEF IInv

\* A read leaves what was read before where it was, and puts what comes next on
\* the wire right behind it.
LEMMA ReadKeeps ==
    ASSUME IInv, NEW n \in 0..(bufLen - nr), Read(n)
    PROVE  /\ received' \in 0..Len(wire) /\ nr' \in 0..received' /\ nr' = nr + n
           /\ buf' \in [0..(bufLen - 1) -> Byte]
           /\ Aligned'
           /\ \A i \in 0..(nr - 1) : buf'[i] = buf[i]
           /\ received' - nr' = received - nr
  <1> USE DEF IInv, TypeOK
  <1>1. /\ received' \in 0..Len(wire) /\ nr' \in 0..received' /\ nr' = nr + n
        /\ received' = received + n
        /\ UNCHANGED <<wire, bufLen>> /\ bufLen \in Nat
    BY DEF Read
  <1>2. \A i \in 0..(bufLen - 1) :
           buf'[i] = IF i \in nr..(nr + n - 1) THEN wire[received + i - nr + 1] ELSE buf[i]
    BY DEF Read
  <1>3. \A i \in nr..(nr + n - 1) :
           /\ received + i - nr + 1 \in 1..Len(wire)
           /\ wire[received + i - nr + 1] \in Byte
    BY <1>1
  <1>4. buf' \in [0..(bufLen - 1) -> Byte]
    BY <1>1, <1>3 DEF Read
  <1>5. Aligned'
    <2>1. nr' <= bufLen'
      BY <1>1
    <2>2. ASSUME NEW i \in 0..(nr' - 1) PROVE buf'[i] = wire[received' - nr' + i + 1]
      <3>1. i \in 0..(bufLen - 1)
        BY <1>1
      <3>2. CASE i \in nr..(nr + n - 1)
        BY <3>1, <3>2, <1>1, <1>2
      <3>3. CASE i \in 0..(nr - 1)
        BY <3>1, <3>3, <1>1, <1>2 DEF Aligned
      <3>4. QED
        BY <3>2, <3>3, <1>1
    <2>3. QED
      BY <2>1, <2>2, <1>1 DEF Aligned
  <1>6. QED
    BY <1>1, <1>2, <1>4, <1>5 DEF Aligned

LEMMA IInvNext == IInv /\ [Next]_vars => IInv'
  <1> SUFFICES ASSUME IInv, [Next]_vars PROVE IInv'
    OBVIOUS
  <1> USE StdCopyAssumption DEF Return
  <1>1. /\ wire \in Seq(Byte) /\ received \in 0..Len(wire) /\ bufLen \in Nat
        /\ buf \in [0..(bufLen - 1) -> Byte] /\ nr \in 0..received /\ frameSize \in Nat
        /\ nr <= bufLen /\ stdWriterPrefixLen < bufLen /\ Len(wire) \in Nat
        /\ delivered \in Seq(Frame)
    BY DEF IInv, TypeOK, Aligned
  <1>2. Byte \subseteq Nat /\ \A a, b \in Byte : a * Radix + b \in Nat
    BY DEF Byte
  <1>3. CASE ReadMore
    <2>1. PICK n \in 0..(bufLen - nr) :
             /\ Read(n)
             /\ \/ UNCHANGED <<pc, err>>
                \/ received' = Len(wire) /\ nr' < Needed /\ pc' = "returned" /\ err' = "eof"
      BY <1>3 DEF ReadMore, ReadUntil, EOF
    <2>2. /\ received' \in 0..Len(wire) /\ nr' \in 0..received' /\ nr' = nr + n
          /\ buf' \in [0..(bufLen - 1) -> Byte]
          /\ Aligned'
          /\ \A i \in 0..(nr - 1) : buf'[i] = buf[i]
          /\ received' - nr' = received - nr
      BY <2>1, ReadKeeps
    <2>3. UNCHANGED <<wire, bufLen, frameSize, cancelled, delivered>>
      BY <2>1 DEF Read
    <2>4. TypeOK'
      BY <2>1, <2>2, <2>3 DEF IInv, TypeOK
    <2>5. Parsed'
      BY <2>1, <2>2, <2>3, <1>1 DEF IInv, Parsed
    <2>6. NothingLost'
      <3>1. CASE UNCHANGED <<pc, err>>
        BY <3>1, <1>3 DEF IInv, NothingLost, ReadMore
      <3>2. CASE received' = Len(wire) /\ nr' < Needed
        <4>1. CASE pc = "header"
          BY <3>2, <4>1, <2>2, <2>3, <1>1 DEF NothingLost, Needed, Stream!Whole
        <4>2. CASE pc = "frame"
          <5>1. Stream!SizeAt(received - nr) = frameSize
            BY <4>2, <1>1 DEF IInv, Aligned, Parsed, Stream!SizeAt
          <5>2. (Stream!SizeAt(received - nr))' = frameSize
            BY <5>1, <2>2, <2>3 DEF Stream!SizeAt
          <5>3. QED
            BY <3>2, <4>2, <5>2, <2>2, <2>3, <1>1 DEF NothingLost, Needed, Stream!Whole
        <4>3. QED
          BY <4>1, <4>2, <1>3 DEF ReadMore, IInv, TypeOK
      <3>3. QED
        BY <2>1, <3>1, <3>2
    <2>7. QED
      BY <2>1, <2>2, <2>3, <2>4, <2>5, <2>6, <1>1, <1>3 DEF IInv, ReadMore
  <1>4. CASE ReadFails
    <2>1. PICK n \in 0..(bufLen - nr) : Read(n)
      BY <1>4 DEF ReadFails
    <2>2. pc' = "returned" /\ err' = "read" /\ UNCHANGED <<wire, bufLen, frameSize, cancelled, delivered>>
      BY <1>4, <2>1 DEF ReadFails, Read
    <2>3. QED
      BY <2>1, <2>2, <1>1, ReadKeeps DEF IInv, TypeOK, Parsed, NothingLost
  <1>5. CASE ParseHeader
    <2>1. /\ pc = "header" /\ stdWriterPrefixLen <= nr
          /\ UNCHANGED <<wire, received, nr, cancelled, delivered>>
      BY <1>5, <1>1 DEF ParseHeader
    <2>2. CASE pc' = "returned"
      BY <1>5, <2>1, <2>2 DEF ParseHeader, IInv, TypeOK, Aligned, Parsed, NothingLost
    <2>3. CASE pc' = "frame"
      <3> DEFINE size == buf[stdWriterPrefixLen - 2] * Radix + buf[stdWriterPrefixLen - 1]
                 length == IF size + stdWriterPrefixLen > bufLen THEN Grown(size) ELSE bufLen
      <3>1. /\ buf[0] \in 0..3 /\ frameSize' = size /\ bufLen' = length /\ err' = err
            /\ buf' = [i \in 0..(length - 1) |-> IF i < bufLen THEN buf[i] ELSE 0]
        BY <1>5, <2>3 DEF ParseHeader
      <3>2. buf[stdWriterPrefixLen - 2] \in Byte /\ buf[stdWriterPrefixLen - 1] \in Byte
        BY <1>1
      <3>3. size \in Nat
        BY <3>2, <1>2
      <3> HIDE DEF size
      <3>4. length \in Nat /\ bufLen <= length /\ size + stdWriterPrefixLen <= length
        BY <3>3, <1>1 DEF Grown
      <3> HIDE DEF length
      <3>5. \A i \in 0..(bufLen - 1) : buf'[i] = buf[i]
        BY <3>1, <3>4, <1>1
      <3>6. buf' \in [0..(length - 1) -> Byte]
        BY <3>1, <3>4, <1>1 DEF Byte
      <3>7. TypeOK'
        BY <2>1, <2>3, <3>1, <3>3, <3>4, <3>6 DEF IInv, TypeOK
      <3>8. Aligned'
        BY <2>1, <3>1, <3>4, <3>5, <1>1 DEF IInv, Aligned
      <3>9. Parsed'
        BY <2>1, <3>1, <3>4, <3>5, <1>1 DEF Parsed, size
      <3>10. QED
        BY <2>1, <2>3, <3>1, <3>4, <3>7, <3>8, <3>9, <1>1 DEF IInv, NothingLost
    <2>4. QED
      BY <1>5, <2>2, <2>3 DEF ParseHeader
  <1>6. CASE WriteFrame
    <2> DEFINE size == stdWriterPrefixLen + frameSize
    <2>1. /\ pc = "frame" /\ size <= nr /\ size \in Nat
          /\ nr' = nr - size
          /\ buf' = [i \in 0..(bufLen - 1) |-> IF i + size < bufLen THEN buf[i + size] ELSE buf[i]]
          /\ UNCHANGED <<wire, received, bufLen, frameSize, cancelled>>
          /\ \/ pc' = "returned" /\ err' = "ctx"
             \/ pc' = "header" /\ UNCHANGED err
      BY <1>6, <1>1 DEF WriteFrame, KeepRest, Needed
    <2>2. delivered' \in Seq(Frame)
      <3> DEFINE data == [i \in 1..frameSize |-> buf[stdWriterPrefixLen + i - 1]]
      <3>1. data \in Seq(Byte)
        <4>1. \A i \in 1..frameSize : buf[stdWriterPrefixLen + i - 1] \in Byte
          BY <2>1, <1>1
        <4>2. QED
          BY <4>1, <1>1
      <3>2. QED
        BY <1>6, <3>1, <1>1 DEF WriteFrame, Frame
    <2>3. nr' \in 0..received /\ nr' <= bufLen /\ buf' \in [0..(bufLen - 1) -> Byte]
      BY <2>1, <1>1
    <2>4. TypeOK'
      BY <2>1, <2>2, <2>3 DEF IInv, TypeOK
    <2>5. Aligned'
      <3>1. ASSUME NEW i \in 0..(nr' - 1) PROVE buf'[i] = wire[received - nr' + i + 1]
        <4>1. i + size \in 0..(nr - 1) /\ i + size < bufLen /\ i \in 0..(bufLen - 1)
          BY <2>1, <1>1
        <4>2. buf'[i] = buf[i + size]
          BY <2>1, <4>1
        <4>3. buf[i + size] = wire[received - nr + (i + size) + 1]
          BY <4>1 DEF IInv, Aligned
        <4>4. received - nr + (i + size) + 1 = received - nr' + i + 1
          BY <2>1, <1>1
        <4>5. QED
          BY <4>2, <4>3, <4>4
      <3>2. QED
        BY <2>1, <2>3, <3>1 DEF Aligned
    <2>6. QED
      BY <2>1, <2>4, <2>5, <1>1 DEF IInv, Parsed, NothingLost
  <1>7. CASE GiveUp
    BY <1>7 DEF GiveUp, IInv, TypeOK, Aligned, Parsed, NothingLost
  <1>8. CASE Cancel
    BY <1>8 DEF Cancel, IInv, TypeOK, Aligned, Parsed, NothingLost, Stream!Whole, Stream!SizeAt
  <1>9. CASE UNCHANGED vars
    BY <1>9 DEF vars, IInv, TypeOK, Aligned, Parsed, NothingLost, Stream!Whole, Stream!SizeAt
  <1>10. QED
    BY <1>3, <1>4, <1>5, <1>6, <1>7, <1>8, <1>9 DEF Next

LEMMA IInvHolds == Spec => []IInv
  BY IInvInit, IInvNext, PTL DEF Spec

\* Indexes stay within the buffer, and the buffer within its type.
THEOREM TypeCorrect == Spec => []TypeOK
  <1>1. IInv => TypeOK
    BY DEF IInv
  <1>2. QED
    BY <1>1, IInvHolds, PTL

\* Whatever the size of a frame, the buffer has room for the rest of it: StdCopy
\* never reads into nothing.
THEOREM ThereIsRoom == Spec => []RoomToRead
  <1>1. IInv => RoomToRead
    BY StdCopyAssumption DEF IInv, TypeOK, Parsed, RoomToRead, Needed
  <1>2. QED
    BY <1>1, IInvHolds, PTL

\* Ending with the connection, StdCopy has delivered every frame that was whole.
THEOREM NothingIsLost == Spec => []NothingLost
  <1>1. IInv => NothingLost
    BY DEF IInv
  <1>2. QED
    BY <1>1, IInvHolds, PTL

\* What the writers are given is what FrameStream promises: the frames of the
\* wire, whole, each once, and in their order.
THEOREM DeliversFrames == Spec => Delivers
  <1>1. Init => Stream!Init
    BY DEF Init, Stream!Init
  <1>2. IInv /\ [Next]_vars => [Stream!Next]_(Stream!vars)
    <2> SUFFICES ASSUME IInv, [Next]_vars PROVE [Stream!Next]_(Stream!vars)
      OBVIOUS
    <2> USE DEF Return
    <2>1. /\ wire \in Seq(Byte) /\ received \in 0..Len(wire) /\ nr \in 0..received
          /\ frameSize \in Nat /\ bufLen \in Nat /\ Len(wire) \in Nat
          /\ stdWriterPrefixLen \in Nat /\ stdWriterPrefixLen > 2
      BY StdCopyAssumption DEF IInv, TypeOK
    <2>2. CASE ReadMore \/ ReadFails
      <3>1. PICK n \in 0..(bufLen - nr) : Read(n)
        BY <2>2 DEF ReadMore, ReadUntil, ReadFails
      <3>2. received' - nr' = received - nr /\ UNCHANGED <<wire, delivered>>
        BY <3>1, ReadKeeps DEF Read
      <3>3. pc # "returned" /\ (pc' = pc \/ pc' = "returned")
        BY <2>2 DEF ReadMore, ReadUntil, EOF, ReadFails
      <3>4. QED
        BY <3>2, <3>3 DEF Stream!Next, Stream!Stop, Stream!vars
    <2>3. CASE ParseHeader \/ GiveUp \/ Cancel \/ UNCHANGED vars
      BY <2>3 DEF ParseHeader, GiveUp, Cancel, vars, Stream!Next, Stream!Stop, Stream!vars
    <2>4. CASE WriteFrame
      <3> DEFINE next == received - nr
      <3>1. /\ pc = "frame" /\ pc' \in {"header", "returned"}
            /\ stdWriterPrefixLen + frameSize <= nr
            /\ nr' = nr - (stdWriterPrefixLen + frameSize)
            /\ UNCHANGED <<wire, received>>
        BY <2>4, <2>1 DEF WriteFrame, KeepRest, Needed
      <3>2. \A i \in 0..(nr - 1) : buf[i] = wire[next + i + 1]
        BY DEF IInv, Aligned
      <3>3. Stream!SizeAt(next) = frameSize
        <4>1. /\ buf[stdWriterPrefixLen - 2] = wire[next + stdWriterPrefixLen - 1]
              /\ buf[stdWriterPrefixLen - 1] = wire[next + stdWriterPrefixLen]
          BY <3>1, <3>2, <2>1
        <4>2. QED
          BY <3>1, <4>1 DEF IInv, Parsed, Stream!SizeAt
      <3>4. Stream!Whole(next) /\ wire[next + 1] \in 0..2 /\ buf[0] = wire[next + 1]
        <4>1. buf[0] = wire[next + 1]
          BY <3>1, <3>2, <2>1
        <4>2. buf[0] \in 0..3 /\ buf[0] # 3
          BY <2>4 DEF WriteFrame, IInv, Parsed
        <4>3. Stream!Whole(next)
          BY <3>1, <3>3, <2>1 DEF Stream!Whole
        <4>4. QED
          BY <4>1, <4>2, <4>3
      <3>5. \A i \in 1..frameSize :
              buf[stdWriterPrefixLen + i - 1] = wire[next + stdWriterPrefixLen + i]
        <4> SUFFICES ASSUME NEW i \in 1..frameSize
                     PROVE  buf[stdWriterPrefixLen + i - 1] = wire[next + stdWriterPrefixLen + i]
          OBVIOUS
        <4>1. stdWriterPrefixLen + i - 1 \in 0..(nr - 1)
          BY <3>1, <2>1
        <4>2. next + (stdWriterPrefixLen + i - 1) + 1 = next + stdWriterPrefixLen + i
          BY <2>1
        <4>3. QED
          BY <3>2, <4>1, <4>2
      <3>6. delivered' = Append(delivered, Stream!FrameAt(next))
        BY <2>4, <3>3, <3>4, <3>5 DEF WriteFrame, Stream!FrameAt
      <3>7. received' - nr' = next + stdWriterPrefixLen + Stream!SizeAt(next)
        BY <3>1, <3>3, <2>1
      <3>8. QED
        BY <3>1, <3>4, <3>6, <3>7 DEF Stream!Next, Stream!Deliver
    <2>5. QED
      BY <2>2, <2>3, <2>4 DEF Next
  <1>3. QED
    BY <1>1, <1>2, IInvHolds, PTL DEF Spec, Delivers, Stream!Spec

\* What is left to do: cells to read, cells to deliver, a header to parse, and
\* a context that may be cancelled.
Rest ==
    (Len(wire) - received) + (Len(wire) - (received - nr))
        + (IF pc = "header" THEN 1 ELSE 0) + (IF cancelled THEN 0 ELSE 1)

\* However the wire is cut into reads and whatever is on it, no turn of the loops
\* leaves as much to do as there was: there are at most twice as many as the wire
\* has cells, and two.
EveryTurnCounts == [][pc # "returned" /\ (pc' = "returned" \/ Rest' < Rest)]_vars

\* A read of nothing is the last one, and a frame that was written makes way for
\* more than its header: StdCopy ends when there is nothing left on the wire.
THEOREM TurnsCount == Spec => EveryTurnCounts
  <1> DEFINE Counts == pc # "returned" /\ (pc' = "returned" \/ Rest' < Rest)
  <1>1. ASSUME IInv, Next PROVE Counts
    <2> USE DEF Return
    <2>1. /\ received \in 0..Len(wire) /\ nr \in 0..received /\ frameSize \in Nat
          /\ bufLen \in Nat /\ nr <= bufLen /\ Len(wire) \in Nat
          /\ pc \in {"header", "frame", "returned"} /\ cancelled \in BOOLEAN
          /\ stdWriterPrefixLen \in Nat /\ stdWriterPrefixLen > 2
      BY <1>1, StdCopyAssumption DEF IInv, TypeOK, Aligned
    <2>2. CASE ReadMore
      <3>1. PICK n \in 0..(bufLen - nr) :
               /\ Read(n)
               /\ \/ n > 0 /\ UNCHANGED pc
                  \/ nr' < Needed /\ pc' = "returned"
                  \/ ~(nr' < Needed) /\ nr < Needed /\ UNCHANGED pc
        BY <2>2 DEF ReadMore, ReadUntil, EOF
      <3>2. /\ received' = received + n /\ nr' = nr + n /\ UNCHANGED <<wire, cancelled>>
            /\ received' - nr' = received - nr
        BY <1>1, <3>1, ReadKeeps DEF Read
      <3>3. pc # "returned" /\ Needed \in Nat
        BY <2>1, <2>2 DEF ReadMore, Needed
      <3>4. CASE n > 0 /\ UNCHANGED pc
        BY <2>1, <3>2, <3>3, <3>4 DEF Rest
      <3>5. CASE n = 0
        BY <2>1, <3>1, <3>2, <3>3, <3>5
      <3>6. QED
        BY <2>1, <3>1, <3>3, <3>4, <3>5
    <2>3. CASE ReadFails
      BY <2>3 DEF ReadFails
    <2>4. CASE ParseHeader
      <3>1. pc = "header" /\ pc' \in {"frame", "returned"} /\ UNCHANGED <<wire, received, nr, cancelled>>
        BY <2>4 DEF ParseHeader
      <3>2. QED
        BY <2>1, <3>1 DEF Rest
    <2>5. CASE WriteFrame
      <3>1. /\ pc = "frame" /\ pc' \in {"header", "returned"}
            /\ stdWriterPrefixLen + frameSize <= nr
            /\ nr' = nr - (stdWriterPrefixLen + frameSize)
            /\ UNCHANGED <<wire, received, cancelled>>
        BY <2>5, <2>1 DEF WriteFrame, KeepRest, Needed
      <3>2. QED
        BY <2>1, <3>1 DEF Rest
    <2>6. CASE GiveUp
      BY <2>6 DEF GiveUp
    <2>7. CASE Cancel
      <3>1. /\ pc # "returned" /\ ~cancelled /\ cancelled'
            /\ UNCHANGED <<wire, received, nr, pc>>
        BY <2>7 DEF Cancel
      <3>2. QED
        BY <2>1, <3>1 DEF Rest
    <2>8. QED
      BY <1>1, <2>2, <2>3, <2>4, <2>5, <2>6, <2>7 DEF Next
  <1>2. IInv /\ [Next]_vars => [Counts]_vars
    BY <1>1
  <1>3. QED
    BY <1>2, IInvInit, IInvNext, PTL DEF Spec, EveryTurnCounts
=============================================================================
