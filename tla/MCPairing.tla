----------------------------- MODULE MCPairing -----------------------------
(***************************************************************************)
(* Pairing and the limiter in front of it.  Whatever the limiter lets pass *)
(* Pairing accepts at any time, so the two are explored side by side in    *)
(* one run and not multiplied: a behaviour is one of the rows with an      *)
(* unused limiter, or one of the limiter before anything is written.       *)
(***************************************************************************)
EXTENDS Pairing, PairingLimiter, TLC

Symmetry == Permutations(Handler)

MCInit == Init /\ LimiterInit

MCNext ==
  \/ Next /\ LimiterInit /\ UNCHANGED limiterVars
  \/ LimiterNext /\ Init /\ UNCHANGED vars

MCSpec == MCInit /\ [][MCNext]_<<vars, limiterVars>>

=============================================================================
