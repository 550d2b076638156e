------------------------- MODULE MCMessageExchange -------------------------
(* MessageExchange with small bounds.                                      *)
EXTENDS MessageExchange
=============================================================================
