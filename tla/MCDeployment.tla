---------------------------- MODULE MCDeployment ----------------------------
(* Instances of Deployment for TLC. *)
EXTENDS Deployment, TLC

CONSTANTS i1, i2, i3, i4, b1, b2, b3

\* Ids and backup names are interchangeable: no definition orders them, and
\* IdOf has one candidate at most, for a name has one holder.
Symmetry == Permutations(Ids) \cup Permutations(BackupNames)
=============================================================================
