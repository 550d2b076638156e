--------------------------- MODULE MCStreamReducer ---------------------------
(* Three items of any kind in up to two responses, each with or without a     *)
(* delta: enough for a call before, after and between two items of any other  *)
(* kind.                                                                      *)
EXTENDS StreamReducer
=============================================================================
