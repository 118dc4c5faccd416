------------------------------- MODULE MCRmpp -------------------------------
(* A message of four segments, in windows of two.                          *)
EXTENDS Rmpp
=============================================================================
