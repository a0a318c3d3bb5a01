--------------------------- MODULE MCOwnedForward ---------------------------
(***************************************************************************)
(* OwnedForward with two launches of the same mapping.                     *)
(***************************************************************************)
EXTENDS OwnedForward
=============================================================================
