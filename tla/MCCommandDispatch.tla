------------------------ MODULE MCCommandDispatch --------------------------
(***************************************************************************)
(* Instances of CommandDispatch for TLC.                                   *)
(***************************************************************************)
EXTENDS CommandDispatch, TLC

\* Tasks and worker slots are interchangeable in the safety runs.
Symmetry == Permutations(Tasks) \cup Permutations(Slots) \cup Permutations(Nodes)

\* A device clock one unit behind the server's.
Behind == -1
=============================================================================
