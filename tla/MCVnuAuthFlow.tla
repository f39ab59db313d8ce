--------------------------- MODULE MCVnuAuthFlow ---------------------------
(* A small instance of VnuAuthFlow for TLC.                                *)
EXTENDS VnuAuthFlow
=============================================================================
