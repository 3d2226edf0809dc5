------------------------------ MODULE MCClient ------------------------------
(* Two lines typed and two answers: enough for an order of lines and for   *)
(* answers that are received as one.                                       *)
EXTENDS ClientProgram
=============================================================================
