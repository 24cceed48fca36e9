---------------------------- MODULE MCStartWatch ----------------------------
(* Instances of StartWatch for TLC. *)
EXTENDS StartWatch

FrameOf(stream, lines, tail) == [stream |-> stream, lines |-> lines, tail |-> tail]

\* On either stream a line with no keyword, or with one; a line with both; two
\* lines at once; part of a line, alone or after a whole one.
MCFrames ==
    {FrameOf(s, <<a>>, {}) : s \in Streams, a \in {{}, {"fail"}}} \cup
    {FrameOf("stdout", <<Keywords>>, {}), FrameOf("stdout", <<{"fail"}, {"success"}>>, {}),
     FrameOf("stdout", <<>>, {"fail"}), FrameOf("stdout", <<{}>>, {"success"})}

\* Enough to report, to report again when nobody listens, and to say nothing.
MCFewFrames ==
    {FrameOf("stdout", <<{"success"}>>, {}),
     FrameOf("stdout", <<{}>>, {}),
     FrameOf("stderr", <<{"fail"}>>, {})}
=============================================================================
