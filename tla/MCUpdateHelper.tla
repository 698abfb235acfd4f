--------------------------- MODULE MCUpdateHelper ---------------------------
(* Three releases; the second one never comes online.                      *)
EXTENDS UpdateHelper

MCGood == {1, 3}

=============================================================================
