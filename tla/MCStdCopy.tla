----------------------------- MODULE MCStdCopy -----------------------------
(* Instances of StdCopy for TLC. *)
EXTENDS StdCopy

\* A frame of each kind: empty, on either stream, too big for the first buffer,
\* the daemon's own, and one with a header nobody knows.  What a frame carries
\* looks like a header.
MCFrames ==
    {<<0, 0, 0>>, <<1, 0, 1, 2>>, <<2, 0, 2, 1, 0>>, <<1, 1, 1, 2, 0, 1, 3, 0, 1>>,
     <<3, 0, 1, 0>>, <<4, 0, 0>>}

\* Three frames at most, cut anywhere.
MCWires ==
    LET AnyFrame == MCFrames \cup {<<>>}
        All == {f \o g \o h : f, g, h \in AnyFrame}
    IN  UNION {{SubSeq(w, 1, n) : n \in 0..Len(w)} : w \in All}
=============================================================================
