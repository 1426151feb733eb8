-------------------------------- MODULE MCXtn --------------------------------
(***************************************************************************)
(* A small instance of Xtn.                                                 *)
(***************************************************************************)
EXTENDS Xtn
=============================================================================
