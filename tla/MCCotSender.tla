------------------------------ MODULE MCCotSender ------------------------------
(* A small instance of CotSender for TLC: CotSender.cfg. *)
EXTENDS CotSender
=============================================================================
