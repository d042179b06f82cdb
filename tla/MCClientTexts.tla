--------------------------- MODULE MCClientTexts ----------------------------
(* A small instance of ClientTexts for TLC. *)
EXTENDS ClientTexts
=============================================================================
