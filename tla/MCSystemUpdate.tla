--------------------------- MODULE MCSystemUpdate ---------------------------
(***************************************************************************)
(* Instances of SystemUpdate for TLC.                                      *)
(***************************************************************************)
EXTENDS SystemUpdate

\* Three images of two versions: 3 is version 2 published again.
Republished == [i \in Image |-> IF i = 1 THEN 1 ELSE 2]

\* Every image is a version of its own.
Distinct == [i \in Image |-> i]
=============================================================================
