------------------------- MODULE MCSessionRegistry -------------------------
(***************************************************************************)
(* SessionRegistry on a small instance: three launches, two of them active *)
(* together, one ended record retained.                                    *)
(***************************************************************************)
EXTENDS SessionRegistry
=============================================================================
