---------------------------- MODULE MCBackpressure ----------------------------
(***************************************************************************)
(* Responses that the socket takes whole (0), that stay below the mark (1) *)
(* and that cross it alone (2).                                            *)
(***************************************************************************)
EXTENDS Backpressure

MCSizes == 0 .. 2
===============================================================================
