------------------------------ MODULE MCDaemon ------------------------------
(* Instances of Daemon for TLC. *)
EXTENDS Daemon, TLC

CONSTANTS a, b, c, unknown, nameOfA, nameOfC

\* The container of b has the name of the service c.
MCContainerName == a :> nameOfA @@ b :> c @@ c :> nameOfC

MCLists == {<<>>, <<a>>, <<b>>, <<c>>, <<unknown>>}
=============================================================================
